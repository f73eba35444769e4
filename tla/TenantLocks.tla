----------------------------- MODULE TenantLocks -----------------------------
(***************************************************************************)
(* The tenants and hosts in the collector's memory and the read-write      *)
(* locks the three threads that use them take: the packet thread, which    *)
(* finds and creates them (tenant_find, host_find) and updates a host by   *)
(* way of its session, the watcher thread, which visits every host and     *)
(* removes one that is stale and gone from the database, and the overview  *)
(* thread, which visits every host.  The reaper and the API remove hosts   *)
(* from the database, not from memory.                                     *)
(*                                                                         *)
(* A step is one lock operation with the work up to the next one.  A       *)
(* pthread read lock is granted while readers hold the lock, as glibc's    *)
(* default does; WriterFirst makes it wait for waiting writers, as POSIX   *)
(* allows.  Hosts in memory are objects, numbered as they are allocated.   *)
(***************************************************************************)
EXTENDS Integers, Sequences, SequencesExt, FiniteSets

CONSTANTS
    NTenants,     \* tenants the packets may be of: 1 .. NTenants
    Hosts,        \* host uuids
    TenantMaps,   \* the ways hosts may belong to tenants
    MaxObjects,   \* bound of the model: host objects ever allocated
    MaxTries,     \* 4: how often handle_meter_packet tries the host's lock
    WriterFirst   \* whether a reader waits for a waiting writer

ASSUME TenantLocksAssumption ==
    /\ NTenants \in Nat \ {0} /\ MaxObjects \in Nat /\ MaxTries \in Nat
    /\ TenantMaps \subseteq [Hosts -> 1 .. NTenants]
    /\ WriterFirst \in BOOLEAN

Procs == {"packet", "watcher", "overview"}
Walkers == {"watcher", "overview"}

VARIABLES
    tenantof, \* host uuid -> its tenant, as the agents are configured
    list,     \* TENANTS, first to last
    hosts,    \* tenant -> its host objects, first to last
    objs,     \* host object -> host uuid, for all ever allocated
    freed,    \* host objects that have been freed
    stale,    \* host objects without an update in the last 80 seconds
    session,  \* host uuid -> the object its session points to, 0 if none
    indb,     \* host uuids the database knows
    held,     \* thread -> the locks it holds, with their mode
    pc,       \* thread -> where it is
    cur,      \* thread -> the tenant it is at
    obj,      \* thread -> the host object it is at, 0 at the end
    nxt,      \* the watcher's ncrsr
    job,      \* the host uuid of the auth packet in hand
    tries     \* its tries of the host's lock

mem == <<list, hosts, objs, freed, stale, session, indb>>
local == <<cur, obj, nxt, job, tries>>
vars == <<tenantof, mem, held, pc, local>>

TENANTS == <<"list", 0>>
T(t) == <<"tenant", t>>
H(o) == <<"host", o>>

Init ==
    /\ tenantof \in TenantMaps
    /\ list = <<>> /\ hosts = [t \in 1 .. NTenants |-> <<>>]
    /\ objs = <<>> /\ freed = {} /\ stale = {}
    /\ session = [h \in Hosts |-> 0] /\ indb = {}
    /\ held = [p \in Procs |-> {}]
    /\ pc = [p \in Procs |-> "idle"]
    /\ cur = [p \in Procs |-> 0] /\ obj = [p \in Procs |-> 0]
    /\ nxt = 0 /\ job = 0 /\ tries = 0

-----------------------------------------------------------------------------
(* Mutant: a host is deleted under a read lock of its tenant. *)
ReadLockForDelete == "R"

(* The lock of the tenant that watchthread_handle_host deletes a host      *)
(* under.                                                                  *)
LockForDelete == "W"

(* Where an element of a list is in it. *)
PlaceOf(x, s) == SelectInSeq(s, LAMBDA y : y = x)

(* The lock a thread takes next and the mode, given where it is. *)
Wants(p) ==
    CASE \/ pc[p] = "idle" /\ p \in Walkers
         \/ pc[p] = "visit" /\ obj[p] = 0
         \/ pc[p] \in {"relockW", "relockR", "find"} -> {<<TENANTS, "R">>}
      [] pc[p] = "create" -> {<<TENANTS, "W">>}
      [] pc[p] = "firstTenant" /\ list # <<>> -> {<<T(list[1]), "R">>}
      [] pc[p] = "nextTenant" /\ cur[p] # Last(list) ->
            {<<T(list[PlaceOf(cur[p], list) + 1]), "R">>}
      [] pc[p] = "backTenant" -> {<<T(cur[p]), "R">>}
      [] pc[p] = "deleteTenant" -> {<<T(cur[p]), LockForDelete>>}
      [] pc[p] = "findTenant" -> {<<T(cur[p]), "W">>}
      [] pc[p] = "visit" /\ obj[p] # 0 ->
            {<<H(obj[p]), IF p = "watcher" THEN "W" ELSE "R">>}
      [] pc[p] = "tally" -> {<<H(obj[p]), "R">>}
      [] pc[p] = "touch" -> {<<H(obj[p]), "W">>}
      [] OTHER -> {}

(* The threads that keep p from a lock in a mode. *)
InTheWay(p, l, m) ==
    {q \in Procs :
        \/ <<l, "W">> \in held[q]
        \/ m = "W" /\ <<l, "R">> \in held[q]
        \/ WriterFirst /\ m = "R" /\ q # p /\ <<l, "W">> \in Wants(q)}

Free(p, l, m) == InTheWay(p, l, m) = {}

(* p gets the lock it wants, if any, gives others back and goes on at      *)
(* place.                                                                  *)
Locks(p, give, place) ==
    /\ \A w \in Wants(p) : Free(p, w[1], w[2])
    /\ held' = [held EXCEPT
                  ![p] = {w \in @ \cup Wants(p) : w[1] \notin give}]
    /\ pc' = [pc EXCEPT ![p] = place]

-----------------------------------------------------------------------------
(* tenant_first, tenant_next and the walk over a tenant's hosts, as both   *)
(* the watcher and the overview thread do it.                              *)

FirstOf(t) == IF hosts[t] = <<>> THEN 0 ELSE hosts[t][1]

(* host->next: the object after o in its tenant's list. *)
Following(o) ==
    LET s == hosts[tenantof[objs[o]]]
        i == PlaceOf(o, s)
    IN  IF i = Len(s) THEN 0 ELSE s[i + 1]

EnterTenant(p, t) ==
    /\ cur' = [cur EXCEPT ![p] = t]
    /\ obj' = [obj EXCEPT ![p] = FirstOf(t)]

StartRound(p) ==
    /\ pc[p] = "idle" /\ p \in Walkers
    /\ Locks(p, {}, "firstTenant")
    /\ UNCHANGED <<mem, local>>

tenant_first(p) ==
    /\ pc[p] = "firstTenant"
    /\ IF list = <<>>
       THEN /\ Locks(p, {TENANTS}, "idle")
            /\ UNCHANGED <<cur, obj>>
       ELSE /\ Locks(p, {TENANTS}, "visit")
            /\ EnterTenant(p, list[1])
    /\ UNCHANGED <<mem, nxt, job, tries>>

LastHostDone(p) ==
    /\ pc[p] = "visit" /\ obj[p] = 0
    /\ Locks(p, {}, "nextTenant")
    /\ UNCHANGED <<mem, local>>

(* Mutant: at the end of the list the last tenant stays locked. *)
NextKeepsLast(p) ==
    /\ pc[p] = "nextTenant"
    /\ IF cur[p] = Last(list)
       THEN /\ Locks(p, {TENANTS}, "idle")
            /\ cur' = [cur EXCEPT ![p] = 0]
            /\ UNCHANGED obj
       ELSE LET t == list[PlaceOf(cur[p], list) + 1]
            IN  /\ Locks(p, {TENANTS, T(cur[p])}, "visit")
                /\ EnterTenant(p, t)
    /\ UNCHANGED <<mem, nxt, job, tries>>

tenant_next(p) ==
    /\ pc[p] = "nextTenant"
    /\ IF cur[p] = Last(list)
       THEN /\ Locks(p, {TENANTS, T(cur[p])}, "idle")
            /\ cur' = [cur EXCEPT ![p] = 0]
            /\ UNCHANGED obj
       ELSE LET t == list[PlaceOf(cur[p], list) + 1]
            IN  /\ Locks(p, {TENANTS, T(cur[p])}, "visit")
                /\ EnterTenant(p, t)
    /\ UNCHANGED <<mem, nxt, job, tries>>

(* tenant_overview locks a host, reads it, and goes to the next. *)
OverviewHost ==
    /\ pc["overview"] = "visit" /\ obj["overview"] # 0
    /\ Locks("overview", {}, "reading")
    /\ UNCHANGED <<mem, local>>

OverviewNextHost ==
    /\ pc["overview"] = "reading"
    /\ Locks("overview", {H(obj["overview"])}, "visit")
    /\ obj' = [obj EXCEPT !["overview"] = Following(@)]
    /\ UNCHANGED <<mem, cur, nxt, job, tries>>

-----------------------------------------------------------------------------
(* watchthread_handle_host. *)

(* The watcher notes the next host before it locks this one. *)
WatchHost ==
    /\ pc["watcher"] = "visit" /\ obj["watcher"] # 0
    /\ Locks("watcher", {}, "watching")
    /\ nxt' = Following(obj["watcher"])
    /\ UNCHANGED <<mem, cur, obj, job, tries>>

(* A host with data, or a stale one the database has, is saved.  If the    *)
(* tenant's database cannot be opened it is kept without that.             *)
KeepHost(opened) ==
    LET o == obj["watcher"]
    IN  /\ pc["watcher"] = "watching"
        /\ opened /\ o \in stale => objs[o] \in indb
        /\ indb' = IF opened THEN indb \cup {objs[o]} ELSE indb
        /\ Locks("watcher", {H(o)}, "tally")
        /\ UNCHANGED <<list, hosts, objs, freed, stale, session, local>>

TallyHost ==
    /\ pc["watcher"] = "tally"
    /\ Locks("watcher", {}, "tallying")
    /\ UNCHANGED <<mem, local>>

WatchNextHost ==
    /\ pc["watcher"] = "tallying"
    /\ Locks("watcher", {H(obj["watcher"])}, "visit")
    /\ obj' = [obj EXCEPT !["watcher"] = nxt] /\ nxt' = 0
    /\ UNCHANGED <<mem, cur, job, tries>>

(* "Removing STALE host <...> that no longer exists in the database". *)
DropHost ==
    /\ pc["watcher"] = "watching"
    /\ obj["watcher"] \in stale /\ objs[obj["watcher"]] \notin indb
    /\ Locks("watcher", {H(obj["watcher"])}, "relockW")
    /\ UNCHANGED <<mem, local>>

(* Mutant: the tenant stays locked for reading. *)
RelockKeepsLock(from, to) ==
    /\ pc["watcher"] = from
    /\ Locks("watcher", {}, to)
    /\ UNCHANGED <<mem, local>>

(* tenant_relock up to the point where it waits for the tenant. *)
tenant_relock(from, to) ==
    /\ pc["watcher"] = from
    /\ Locks("watcher", {T(cur["watcher"])}, to)
    /\ UNCHANGED <<mem, local>>

(* With the tenant locked for writing, the host is unlinked and freed. *)
host_delete ==
    LET o == obj["watcher"]
        t == cur["watcher"]
    IN  /\ pc["watcher"] = "deleteTenant"
        /\ Locks("watcher", {TENANTS}, "relockR")
        /\ hosts' = [hosts EXCEPT ![t] = RemoveFirst(@, o)]
        /\ freed' = freed \cup {o} /\ stale' = stale \ {o}
        /\ obj' = [obj EXCEPT !["watcher"] = nxt] /\ nxt' = 0
        /\ UNCHANGED <<list, objs, session, indb, cur, job, tries>>

BackToTenant ==
    /\ pc["watcher"] = "backTenant"
    /\ Locks("watcher", {TENANTS}, "visit")
    /\ UNCHANGED <<mem, local>>

-----------------------------------------------------------------------------
(* The packet thread. *)

(* An auth packet: resolve_tenantkey looks up the tenant. *)
AuthPacket(h) ==
    /\ pc["packet"] = "idle"
    /\ job' = h
    /\ cur' = [cur EXCEPT !["packet"] = tenantof[h]]
    /\ obj' = [obj EXCEPT !["packet"] = 0]
    /\ pc' = [pc EXCEPT !["packet"] = "find"]
    /\ UNCHANGED <<mem, held, nxt, tries>>

(* tenant_find: under the list's read lock if the tenant is there.  If it  *)
(* is not, the lock is given back and taken for writing.                   *)
TenantFind ==
    /\ pc["packet"] = "find"
    /\ IF cur["packet"] \in ToSet(list)
       THEN Locks("packet", {}, "findTenant")
       ELSE Locks("packet", {TENANTS}, "create")
    /\ UNCHANGED <<mem, local>>

TenantCreate ==
    /\ pc["packet"] = "create"
    /\ Locks("packet", {}, "findTenant")
    /\ list' = Append(list, cur["packet"])
    /\ UNCHANGED <<hosts, objs, freed, stale, session, indb, local>>

TenantLocked ==
    /\ pc["packet"] = "findTenant"
    /\ Locks("packet", {TENANTS}, "haveTenant")
    /\ UNCHANGED <<mem, local>>

(* The object of host h in its tenant's list, 0 if there is none. *)
Lookup(h) ==
    LET s == hosts[tenantof[h]]
        i == SelectInSeq(s, LAMBDA o : objs[o] = h)
    IN  IF i = 0 THEN 0 ELSE s[i]

(* The packet thread's variables go out of use. *)
PacketDone ==
    /\ cur' = [cur EXCEPT !["packet"] = 0]
    /\ obj' = [obj EXCEPT !["packet"] = 0]
    /\ job' = 0 /\ tries' = 0

(* A packet that does not decrypt, or that repeats a serial of its         *)
(* session, is dropped once resolve_tenantkey has given the tenant back.   *)
AuthRefused ==
    /\ pc["packet"] = "haveTenant" /\ obj["packet"] = 0
    /\ Locks("packet", {T(cur["packet"])}, "idle")
    /\ PacketDone
    /\ UNCHANGED <<mem, nxt>>

(* resolve_tenantkey is done with the tenant.  With a session the packet   *)
(* thread goes on with its host, without one session_register calls        *)
(* host_find, which locks the tenant once more.                            *)
TenantKeyResolved ==
    /\ pc["packet"] = "haveTenant" /\ obj["packet"] = 0
    /\ IF session[job] # 0
       THEN /\ Locks("packet", {T(cur["packet"])}, "touch")
            /\ obj' = [obj EXCEPT !["packet"] = session[job]]
       ELSE /\ Locks("packet", {T(cur["packet"])}, "find")
            /\ obj' = [obj EXCEPT !["packet"] = -1]
    /\ UNCHANGED <<mem, cur, nxt, job, tries>>

(* host_find, with a new object if need be, whose lastmodified is 0, and   *)
(* the new session.                                                        *)
host_find ==
    /\ pc["packet"] = "haveTenant" /\ obj["packet"] = -1
    /\ Locks("packet", {T(cur["packet"])}, "touch")
    /\ IF Lookup(job) # 0
       THEN /\ obj' = [obj EXCEPT !["packet"] = Lookup(job)]
            /\ UNCHANGED <<hosts, objs, stale>>
       ELSE LET o == Len(objs) + 1
            IN  /\ o <= MaxObjects
                /\ objs' = Append(objs, job)
                /\ hosts' = [hosts EXCEPT ![cur["packet"]] = Append(@, o)]
                /\ stale' = stale \cup {o}
                /\ obj' = [obj EXCEPT !["packet"] = o]
    /\ session' = [session EXCEPT ![job] = obj'["packet"]]
    /\ UNCHANGED <<list, freed, indb, cur, nxt, job, tries>>

TouchHost ==
    /\ pc["packet"] = "touch"
    /\ Locks("packet", {}, "touching")
    /\ stale' = stale \ {obj["packet"]}
    /\ UNCHANGED <<list, hosts, objs, freed, session, indb, local>>

(* The host is released and sessions that have had no auth packet for 905  *)
(* seconds expire: any but the one just renewed.                           *)
AuthDone(expired) ==
    /\ pc["packet"] = "touching"
    /\ job \notin expired
    /\ Locks("packet", {H(obj["packet"])}, "idle")
    /\ session' = [h \in Hosts |-> IF h \in expired THEN 0 ELSE session[h]]
    /\ PacketDone
    /\ UNCHANGED <<list, hosts, objs, freed, stale, indb, nxt>>

(* A meter packet goes to the host its session points to. *)
MeterPacket(h) ==
    /\ pc["packet"] = "idle" /\ session[h] # 0
    /\ obj' = [obj EXCEPT !["packet"] = session[h]]
    /\ pc' = [pc EXCEPT !["packet"] = "try"]
    /\ UNCHANGED <<mem, held, cur, nxt, job, tries>>

(* The host's lock is tried MaxTries times, then the packet is dropped. *)
TryHost ==
    /\ pc["packet"] = "try"
    /\ Free("packet", H(obj["packet"]), "W")
    /\ held' = [held EXCEPT !["packet"] = @ \cup {<<H(obj["packet"]), "W">>}]
    /\ pc' = [pc EXCEPT !["packet"] = "updating"]
    /\ UNCHANGED <<mem, local>>

TryHostFails ==
    /\ pc["packet"] = "try"
    /\ ~Free("packet", H(obj["packet"]), "W")
    /\ IF tries + 1 < MaxTries
       THEN /\ tries' = tries + 1
            /\ UNCHANGED <<pc, cur, obj, job>>
       ELSE /\ pc' = [pc EXCEPT !["packet"] = "idle"]
            /\ PacketDone
    /\ UNCHANGED <<mem, held, nxt>>

MeterDone ==
    /\ pc["packet"] = "updating"
    /\ Locks("packet", {H(obj["packet"])}, "idle")
    /\ stale' = stale \ {obj["packet"]}
    /\ PacketDone
    /\ UNCHANGED <<list, hosts, objs, freed, session, indb, nxt>>

-----------------------------------------------------------------------------
(* Eighty seconds pass without an update of a host. *)
GoStale(o) ==
    /\ o \in 1 .. Len(objs) \ (stale \cup freed)
    /\ stale' = stale \cup {o}
    /\ UNCHANGED <<list, hosts, objs, freed, session, indb, held, pc, local>>

(* The API or the reaper removes a host from the database. *)
RemoveFromDb(h) ==
    /\ h \in indb
    /\ indb' = indb \ {h}
    /\ UNCHANGED <<list, hosts, objs, freed, stale, session, held, pc, local>>

Walk(p) ==
    StartRound(p) \/ tenant_first(p) \/ LastHostDone(p) \/ tenant_next(p)
Overview == Walk("overview") \/ OverviewHost \/ OverviewNextHost
Watcher ==
    \/ Walk("watcher")
    \/ \E opened \in BOOLEAN : KeepHost(opened)
    \/ WatchHost \/ TallyHost \/ WatchNextHost \/ DropHost
    \/ tenant_relock("relockW", "deleteTenant") \/ host_delete
    \/ tenant_relock("relockR", "backTenant") \/ BackToTenant
Packet ==
    \/ \E h \in Hosts : AuthPacket(h) \/ MeterPacket(h)
    \/ TenantFind \/ TenantCreate \/ TenantLocked \/ TenantKeyResolved
    \/ AuthRefused
    \/ host_find \/ TouchHost \/ TryHost \/ TryHostFails \/ MeterDone
    \/ \E expired \in SUBSET Hosts : AuthDone(expired)
Next ==
    /\ \/ Packet \/ Watcher \/ Overview
       \/ \E o \in 1 .. MaxObjects : GoStale(o)
       \/ \E h \in Hosts : RemoveFromDb(h)
    /\ UNCHANGED tenantof

Spec == Init /\ [][Next]_vars

-----------------------------------------------------------------------------
(* Type correctness, with the exclusion the locks stand for. *)
TypeOK ==
    /\ tenantof \in TenantMaps
    /\ ToSet(list) \subseteq 1 .. NTenants /\ Len(objs) <= MaxObjects
    /\ \A t \in 1 .. NTenants : ToSet(hosts[t]) \subseteq 1 .. Len(objs)
    /\ freed \subseteq 1 .. Len(objs) /\ stale \subseteq 1 .. Len(objs)
    /\ session \in [Hosts -> 0 .. Len(objs)]
    /\ indb \subseteq Hosts /\ job \in Hosts \cup {0}
    /\ tries \in 0 .. MaxTries
    /\ \A p, q \in Procs : \A w \in held[p] :
         p # q /\ w[2] = "W" => \A v \in held[q] : v[1] # w[1]

(* No set of threads, each waiting for a lock that another of them holds:  *)
(* the order TENANTS, tenant, host, which tenant_relock, tenant_next and   *)
(* the two walks keep, leaves no cycle.                                    *)
NoDeadlock ==
    \A D \in (SUBSET Procs) \ {{}} :
        \E p \in D :
            \A w \in Wants(p) : InTheWay(p, w[1], w[2]) \cap D = {}

(* A thread that is done with its round or its packet holds no lock,       *)
(* whichever way it came out of it.                                        *)
IdleHoldsNothing == \A p \in Procs : pc[p] = "idle" => held[p] = {}

(* Neither walk comes to a host that has been freed: host_delete has the   *)
(* tenant to itself, and the watcher's note of the next host outlives its  *)
(* giving the tenant up and taking it back.                                *)
WalksStayAlive ==
    \A p \in Walkers :
        pc[p] \in {"visit", "reading", "watching", "tally", "tallying"} =>
            obj[p] \notin freed
=============================================================================
