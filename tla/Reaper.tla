------------------------------- MODULE Reaper -------------------------------
(***************************************************************************)
(* The collector's quota thread (reaper_run of opticon-collector/main.c)   *)
(* over the usage the local database reports (libopticondb/db_local.c),    *)
(* while the watcher adds records and the API creates and removes tenants. *)
(*                                                                         *)
(* A tenant's records are, for each of its hosts, the set of times they    *)
(* were saved at; a database file is the records of one host and one day.  *)
(* Each record counts one byte.                                            *)
(***************************************************************************)
EXTENDS Integers, FiniteSets, FiniteSetsExt

CONSTANTS
    Tenants,      \* tenants there may be
    HostsOf,      \* tenant -> the hosts it may have
    Quota,        \* tenant -> the quota in its metadata, 0 if it sets none
    Unreadable,   \* tenants whose metadata cannot be read
    DefaultQuota, \* 128: the quota of a tenant that sets none
    MB,           \* 1024 * 1024: bytes in a unit of quota
    Width,        \* 2^64: quota is of this width
    DayLen,       \* 86400
    MaxRecords,   \* bound of the model: records of a tenant at a time
    EndTime       \* bound of the model: no time passes after this

ASSUME ReaperAssumption ==
    /\ Quota \in [Tenants -> Nat] /\ Unreadable \subseteq Tenants
    /\ DefaultQuota \in Nat \ {0} /\ MB \in Nat \ {0}
    /\ Width \in Nat /\ DefaultQuota * MB < Width
    /\ MaxRecords \in Nat /\ DayLen \in Nat \ {0}
    /\ EndTime \in Nat /\ EndTime >= DayLen

AllHosts == UNION {HostsOf[t] : t \in Tenants}
NoTenant == 0
ASSUME NoTenantAssumption == NoTenant \notin Tenants

VARIABLES
    now,       \* the clock
    tenants,   \* tenants the database has
    recs,      \* tenant -> host -> times of its records
    rpc,       \* where the reaper is
    tnow,      \* its note of the time
    todo,      \* tenants it has still to check
    cur,       \* the tenant it is at
    quota,     \* as reaper_run keeps it from one tenant to the next
    hosts,     \* the hosts the tenant had when they were listed
    left,      \* those of them it has still to look at
    removing,  \* the host it found stale
    totalsz, earliest

reaper == <<rpc, tnow, todo, cur, quota, hosts, left, removing, totalsz,
            earliest>>
vars == <<now, tenants, recs, reaper>>

NoRecords == [h \in AllHosts |-> {}]

Init ==
    /\ now = DayLen
    /\ tenants = Tenants
    /\ recs = [t \in Tenants |-> NoRecords]
    /\ rpc = "sleep" /\ tnow = 0 /\ todo = {} /\ cur = NoTenant
    /\ quota = 0 /\ hosts = {} /\ left = {} /\ removing = {}
    /\ totalsz = 0 /\ earliest = 0

time2date(t) == t \div DayLen

(* The records of a tenant, each with its host. *)
Records(t) == UNION {{h} \X recs[t][h] : h \in AllHosts}

-----------------------------------------------------------------------------
(* The reaper. *)

(* A round starts with the list of tenants. *)
StartRound ==
    /\ rpc = "sleep"
    /\ tnow' = now /\ todo' = tenants /\ quota' = 0
    /\ rpc' = "next"
    /\ UNCHANGED <<now, tenants, recs, cur, hosts, left, removing, totalsz,
                   earliest>>

(* The quota in bytes.  Where the metadata cannot be read, quota still has *)
(* what it had, and that is multiplied.                                    *)
ReadQuota(t) ==
    LET q == IF t \in Unreadable THEN quota ELSE Quota[t]
    IN  ((IF q = 0 THEN DefaultQuota ELSE q) * MB) % Width

(* Mutant: what was added up before is not forgotten. *)
OpenTenantAddsOn(t) ==
    /\ t \in tenants
    /\ cur' = t
    /\ quota' = ReadQuota(t)
    /\ hosts' = {h \in AllHosts : recs[t][h] # {}}
    /\ left' = hosts'
    /\ earliest' = 0
    /\ UNCHANGED totalsz
    /\ rpc' = "hosts"

(* A tenant is opened, its quota read and its hosts listed. *)
OpenTenant(t) ==
    /\ t \in tenants
    /\ cur' = t
    /\ quota' = ReadQuota(t)
    /\ hosts' = {h \in AllHosts : recs[t][h] # {}}
    /\ left' = hosts'
    /\ totalsz' = 0 /\ earliest' = 0
    /\ rpc' = "hosts"

CheckTenant(t) ==
    /\ rpc = "next" /\ t \in todo
    /\ todo' = todo \ {t}
    /\ IF t \in tenants
       THEN OpenTenant(t)
       ELSE UNCHANGED <<cur, quota, hosts, left, totalsz, earliest, rpc>>
    /\ UNCHANGED <<now, tenants, recs, tnow, removing>>

EndRound ==
    /\ rpc = "next" /\ todo = {}
    /\ rpc' = "sleep" /\ tnow' = 0 /\ quota' = 0
    /\ UNCHANGED <<now, tenants, recs, todo, cur, hosts, left, removing,
                   totalsz, earliest>>

(* The usage of a host is added up; one without a record for a day is to   *)
(* be removed.                                                             *)
CheckHost(h) ==
    LET times == recs[cur][h]
        stale == times # {} /\ tnow - Max(times) > DayLen
    IN  /\ rpc = "hosts" /\ h \in left
        /\ left' = left \ {h}
        /\ rpc' = IF stale THEN "remove" ELSE "hosts"
        /\ IF stale \/ times = {}
           THEN UNCHANGED <<totalsz, earliest>>
           ELSE /\ totalsz' = totalsz + Cardinality(times)
                /\ earliest' = Min(times \cup ({earliest} \ {0}))
        /\ removing' = IF stale THEN {h} ELSE {}
        /\ UNCHANGED <<now, tenants, recs, tnow, todo, cur, quota, hosts>>

(* Its directory goes, with whatever has been saved in it since. *)
db_remove_host ==
    /\ rpc = "remove"
    /\ recs' = [recs EXCEPT ![cur] = [h \in AllHosts |->
                  IF h \in removing THEN {} ELSE @[h]]]
    /\ removing' = {}
    /\ rpc' = "hosts"
    /\ UNCHANGED <<now, tenants, tnow, todo, cur, quota, hosts, left, totalsz,
                   earliest>>

(* Mutant: the day before the earliest. *)
CullDayBefore == time2date(earliest) - 1

(* The day whose records go. *)
CullDay == time2date(earliest)

(* "tnow - earliest > 86399" *)
DayIsOver == tnow - earliest > DayLen - 1

(* The tenant is over its quota: the files of the earliest day go, for all *)
(* its hosts, and it is checked again.                                     *)
Cull ==
    /\ rpc = "hosts" /\ left = {}
    /\ totalsz > quota /\ DayIsOver
    /\ recs' = [recs EXCEPT ![cur] = [h \in AllHosts |->
                  IF h \in hosts
                  THEN {r \in @[h] : time2date(r) # CullDay} ELSE @[h]]]
    /\ rpc' = "again"
    /\ UNCHANGED <<now, tenants, tnow, todo, cur, quota, hosts, left,
                   removing, totalsz, earliest>>

(* Mutant: on to the next tenant, without --i. *)
AgainNot ==
    /\ rpc = "again"
    /\ rpc' = "next" /\ cur' = NoTenant
    /\ UNCHANGED <<now, tenants, recs, tnow, todo, quota, hosts, left,
                   removing, totalsz, earliest>>

(* --i: the same tenant once more, if it is still there. *)
Again ==
    /\ rpc = "again"
    /\ IF cur \in tenants
       THEN OpenTenant(cur)
       ELSE /\ rpc' = "next" /\ cur' = NoTenant
            /\ UNCHANGED <<quota, hosts, left, totalsz, earliest>>
    /\ UNCHANGED <<now, tenants, recs, tnow, todo, removing>>

NextTenant ==
    /\ rpc = "hosts" /\ left = {}
    /\ ~(totalsz > quota /\ DayIsOver)
    /\ rpc' = "next" /\ cur' = NoTenant
    /\ hosts' = {} /\ totalsz' = 0 /\ earliest' = 0
    /\ UNCHANGED <<now, tenants, recs, tnow, todo, quota, left, removing>>

-----------------------------------------------------------------------------
(* The rest of the system. *)

(* The watcher saves a record. *)
SaveRecord(t, h) ==
    /\ t \in tenants /\ now \notin recs[t][h]
    /\ Cardinality(Records(t)) < MaxRecords
    /\ recs' = [recs EXCEPT ![t][h] = @ \cup {now}]
    /\ UNCHANGED <<now, tenants, reaper>>

(* The API removes a tenant, or creates one. *)
RemoveTenant(t) ==
    /\ t \in tenants
    /\ tenants' = tenants \ {t}
    /\ recs' = [recs EXCEPT ![t] = NoRecords]
    /\ UNCHANGED <<now, reaper>>

CreateTenant(t) ==
    /\ t \in Tenants \ tenants
    /\ tenants' = tenants \cup {t}
    /\ UNCHANGED <<now, recs, reaper>>

Tick ==
    /\ now < EndTime
    /\ now' = now + 1
    /\ UNCHANGED <<tenants, recs, reaper>>

ReaperNext ==
    \/ StartRound \/ EndRound \/ db_remove_host \/ Cull \/ Again \/ NextTenant
    \/ \E t \in Tenants : CheckTenant(t)
    \/ \E h \in AllHosts : CheckHost(h)

Next ==
    \/ ReaperNext \/ Tick
    \/ \E t \in Tenants :
          \/ RemoveTenant(t) \/ CreateTenant(t)
          \/ \E h \in HostsOf[t] : SaveRecord(t, h)

Spec == Init /\ [][Next]_vars

(* The reaper's thread gets to run. *)
FairSpec == Spec /\ WF_vars(ReaperNext)

-----------------------------------------------------------------------------
(* Type correctness. *)
TypeOK ==
    /\ now \in DayLen .. EndTime /\ tnow \in 0 .. now
    /\ tenants \subseteq Tenants /\ todo \subseteq Tenants
    /\ recs \in [Tenants -> [AllHosts -> SUBSET (DayLen .. now)]]
    /\ cur \in Tenants \cup {NoTenant}
    /\ left \cup removing \subseteq hosts /\ hosts \subseteq AllHosts
    /\ quota \in 0 .. Width - 1 /\ earliest \in 0 .. now
    /\ rpc \in {"sleep", "next", "hosts", "remove", "again"}

(* What a tenant may use: its quota, or the default. *)
Allowed(t) ==
    MB * (IF t \in Unreadable \/ Quota[t] = 0 THEN DefaultQuota
          ELSE Quota[t])

(* The step in which a tenant loses a day it has records of. *)
LosesDay == rpc = "hosts" /\ rpc' = "again" /\ recs' # recs

(* "If this is over the set quota, it starts culling days" (reaper_run):   *)
(* a tenant whose metadata can be read, with a quota that fits the         *)
(* variable, loses a day only while it has more than its quota in the      *)
(* database.  What the reaper has added up host by host may be out of date *)
(* by then, as hosts and tenants come and go, and so may be what it keeps  *)
(* from the tenant before, one without metadata perhaps.                   *)
CullsOverQuota ==
    [][LosesDay /\ cur \notin Unreadable /\ MB * Quota[cur] < Width =>
         Cardinality(Records(cur)) > Allowed(cur)]_vars

(* The same of a tenant whose metadata cannot be read, for which the       *)
(* default is meant ("if (!quota) quota = 128").  It does not hold.        *)
DefaultIsKept ==
    [][LosesDay /\ cur \in Unreadable =>
         Cardinality(Records(cur)) > Allowed(cur)]_vars

(* Its records from before the round. *)
OldRecords(t) == {r \in Records(t) : r[2] < tnow}

(* "... until the tenant is under quota again": the reaper leaves a tenant *)
(* whose metadata can be read when the records from before the round are   *)
(* within its quota, or all of them less than a day old, whatever was      *)
(* saved or removed meanwhile.                                             *)
LeavesWithinQuota ==
    [][cur # NoTenant /\ cur' = NoTenant /\ cur \notin Unreadable =>
         \/ Cardinality(OldRecords(cur)) <= Allowed(cur)
         \/ \A r \in OldRecords(cur) : tnow - r[2] < DayLen]_vars

(* A round ends: checking a tenant again after every culled day does not   *)
(* go on for ever, even while the watcher adds records.                    *)
RoundEnds == rpc # "sleep" ~> rpc = "sleep"
=============================================================================
