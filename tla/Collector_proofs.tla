--------------------------- MODULE Collector_proofs --------------------------
(***************************************************************************)
(* Proofs about three threads of the collector: the reaper, for any        *)
(* tenants, hosts, records and quotas; the watcher's badness, for any      *)
(* meters, watchers and matches; and the notifications that the watcher    *)
(* queues and the overview thread sends, for any hosts, statuses and       *)
(* addresses.                                                              *)
(*                                                                         *)
(* What the properties leave out they name: a tenant whose metadata cannot *)
(* be read, a quota that needs more than the width of the variable, a      *)
(* round that adds 30 points or more, the notifications that               *)
(* notifylist_link loses.                                                  *)
(***************************************************************************)
EXTENDS Reaper, HostStatus, Notify, FiniteSetTheorems, WellFoundedInduction,
        TLAPS

(* A set of numbers has a least one. *)
LEMMA LeastTime ==
    ASSUME NEW S \in SUBSET Nat, S # {}
    PROVE  Min(S) \in S /\ \A x \in S : Min(S) <= x
  <1>1. \E n \in S : \A m \in S : n <= m
    <2>1. PICK x \in S : \A y \in S : ~(<<y, x>> \in OpToRel(<, Nat))
      BY NatLessThanWellFounded, WFMin
    <2>2. \A y \in S : ~(y < x)
      BY <2>1 DEF OpToRel
    <2> QED
      BY <2>2
  <1> QED
    BY <1>1 DEF Min

-----------------------------------------------------------------------------
(* The reaper's quota. *)

AtTenant == {"hosts", "remove", "again"}

(* What the reaper makes of a tenant's quota.                              *)
Stands(q, t) ==
    t \notin Unreadable =>
        /\ q <= Allowed(t)
        /\ MB * Quota[t] < Width => q = Allowed(t)

(* What quota holds while a tenant is open.                                *)
QuotaInv ==
    /\ rpc \in {"sleep", "next"} \cup AtTenant
    /\ quota \in Nat
    /\ rpc \in AtTenant => cur \in Tenants /\ Stands(quota, cur)
    /\ tenants \subseteq Tenants /\ todo \subseteq Tenants

(* The width of the variable cuts a quota, it makes none larger, and where *)
(* metadata can be read nothing is left of the tenant before.              *)
LEMMA QuotaIsAllowed ==
    ASSUME NEW t \in Tenants, quota \in Nat
    PROVE  ReadQuota(t) \in Nat /\ Stands(ReadQuota(t), t)
  <1> DEFINE r == IF t \in Unreadable THEN quota ELSE Quota[t]
             q == IF r = 0 THEN DefaultQuota ELSE r
  <1>1. q \in Nat /\ MB \in Nat /\ Width \in Nat \ {0}
    BY ReaperAssumption
  <1>2. q * MB \in Nat /\ q * MB = MB * q
    BY <1>1
  <1>3. \A x \in Nat, w \in Nat \ {0} :
           x % w \in Nat /\ x % w <= x /\ (x < w => x % w = x)
    OBVIOUS
  <1>4. ReadQuota(t) = (q * MB) % Width
    BY DEF ReadQuota
  <1>5. ReadQuota(t) \in Nat /\ ReadQuota(t) <= MB * q
        /\ (MB * q < Width => ReadQuota(t) = MB * q)
    BY <1>1, <1>2, <1>3, <1>4
  <1>6. t \notin Unreadable => MB * q = Allowed(t)
    BY DEF Allowed
  <1>7. t \notin Unreadable /\ MB * Quota[t] < Width => MB * q < Width
    BY <1>2, ReaperAssumption
  <1> QED
    BY <1>5, <1>6, <1>7 DEF Stands

(* Opening a tenant puts its own quota in place of the previous one's.     *)
LEMMA OpensWithItsQuota ==
    ASSUME NEW t \in Tenants, quota \in Nat, OpenTenant(t)
    PROVE  /\ cur' = t /\ rpc' = "hosts"
           /\ quota' \in Nat /\ Stands(quota', t)
  BY QuotaIsAllowed DEF OpenTenant

(* Every step of the reaper, the watcher and the API keeps the invariant.  *)
LEMMA QuotaStep ==
    ASSUME QuotaInv, [Next]_vars
    PROVE  QuotaInv'
  <1> USE DEF QuotaInv, AtTenant
  <1>1. CASE StartRound
    BY <1>1 DEF StartRound
  <1>2. ASSUME NEW t \in Tenants, CheckTenant(t) PROVE QuotaInv'
    <2>1. CASE t \in tenants
      BY <1>2, <2>1, OpensWithItsQuota DEF CheckTenant
    <2>2. CASE t \notin tenants
      BY <1>2, <2>2 DEF CheckTenant
    <2> QED
      BY <2>1, <2>2
  <1>3. CASE EndRound
    BY <1>3 DEF EndRound
  <1>4. ASSUME NEW h \in AllHosts, CheckHost(h) PROVE QuotaInv'
    BY <1>4 DEF CheckHost
  <1>5. CASE db_remove_host
    BY <1>5 DEF db_remove_host
  <1>6. CASE Cull
    BY <1>6 DEF Cull
  <1>7. CASE Again
    <2>1. CASE cur \in tenants
      BY <1>7, <2>1, OpensWithItsQuota DEF Again
    <2>2. CASE cur \notin tenants
      BY <1>7, <2>2 DEF Again
    <2> QED
      BY <2>1, <2>2
  <1>8. CASE NextTenant
    BY <1>8 DEF NextTenant
  <1>9. ASSUME NEW t \in Tenants, NEW h \in HostsOf[t], SaveRecord(t, h)
        PROVE  QuotaInv'
    BY <1>9 DEF SaveRecord, reaper
  <1>10. ASSUME NEW t \in Tenants, RemoveTenant(t) PROVE QuotaInv'
    BY <1>10 DEF RemoveTenant, reaper
  <1>11. ASSUME NEW t \in Tenants, CreateTenant(t) PROVE QuotaInv'
    BY <1>11 DEF CreateTenant, reaper
  <1>12. CASE Tick
    BY <1>12 DEF Tick, reaper
  <1>13. CASE UNCHANGED vars
    BY <1>13 DEF vars, reaper
  <1> QED
    BY <1>1, <1>2, <1>3, <1>4, <1>5, <1>6, <1>7, <1>8, <1>9, <1>10, <1>11,
       <1>12, <1>13 DEF Next, ReaperNext

-----------------------------------------------------------------------------
(* What the reaper has added up when it leaves a tenant. *)

(* The clock, the records and the sums are numbers; the reaper is at a     *)
(* tenant, or at none; a tenant that is gone has no records.               *)
PlaceInv ==
    /\ now \in Nat /\ now >= DayLen /\ tnow \in Nat /\ tnow <= now
    /\ totalsz \in Nat /\ earliest \in Nat
    /\ recs \in [Tenants -> [AllHosts -> SUBSET (DayLen .. now)]]
    /\ \A t \in Tenants \ tenants : recs[t] = NoRecords
    /\ rpc \in {"sleep", "next"} => cur = NoTenant
    /\ rpc # "remove" => removing = {}

(* The records from before the round of the hosts that were looked at. *)
Seen == {r \in OldRecords(cur) : r[1] \notin left \cup removing}

(* They are in the sum, and none is earlier than what was noted.           *)
SeenInv ==
    rpc \in {"hosts", "remove"} =>
        /\ IsFiniteSet(Seen) /\ Cardinality(Seen) <= totalsz
        /\ \A r \in Seen : earliest # 0 /\ earliest <= r[2]

(* A record of a host.                                                     *)
LEMMA RecordOf ==
    ASSUME recs \in [Tenants -> [AllHosts -> SUBSET (DayLen .. now)]],
           NEW t \in Tenants, NEW r
    PROVE  r \in Records(t) <=>
             r = <<r[1], r[2]>> /\ r[1] \in AllHosts /\ r[2] \in recs[t][r[1]]
  BY DEF Records

(* A host has finitely many records. *)
LEMMA TimesAreFinite ==
    ASSUME now \in Nat, NEW S \in SUBSET (DayLen .. now)
    PROVE  IsFiniteSet(S) /\ Cardinality(S) \in Nat
  <1>1. DayLen \in Int /\ now \in Int
    BY ReaperAssumption
  <1>2. IsFiniteSet(DayLen .. now)
    BY <1>1, FS_Interval
  <1>3. IsFiniteSet(S)
    BY <1>2, FS_Subset
  <1> QED
    BY <1>3, FS_CardinalityType

(* What is seen only gets less: the sum still covers it. *)
LEMMA SeenShrinks ==
    ASSUME SeenInv, rpc \in {"hosts", "remove"}, Seen' \subseteq Seen,
           totalsz \in Nat, UNCHANGED <<totalsz, earliest>>
    PROVE  SeenInv'
  <1>1. IsFiniteSet(Seen) /\ Cardinality(Seen) <= totalsz
    BY DEF SeenInv
  <1>2. IsFiniteSet(Seen') /\ Cardinality(Seen') <= Cardinality(Seen)
    BY <1>1, FS_Subset
  <1>3. Cardinality(Seen) \in Nat /\ Cardinality(Seen') \in Nat
    BY <1>1, <1>2, FS_CardinalityType
  <1>4. Cardinality(Seen') <= totalsz
    BY <1>1, <1>2, <1>3
  <1> QED
    BY <1>2, <1>4 DEF SeenInv

(* Every step keeps the clock, the records and the place.                  *)
LEMMA PlaceStep ==
    ASSUME QuotaInv, PlaceInv, [Next]_vars
    PROVE  PlaceInv'
  <1> USE DEF PlaceInv, QuotaInv, AtTenant
  <1> USE ReaperAssumption
  <1>1. CASE StartRound
    BY <1>1 DEF StartRound
  <1>2. ASSUME NEW t \in Tenants, CheckTenant(t) PROVE PlaceInv'
    <2>1. CASE t \in tenants
      BY <1>2, <2>1 DEF CheckTenant, OpenTenant
    <2>2. CASE t \notin tenants
      BY <1>2, <2>2 DEF CheckTenant
    <2> QED
      BY <2>1, <2>2
  <1>3. CASE EndRound
    BY <1>3 DEF EndRound
  <1>4. ASSUME NEW h \in AllHosts, CheckHost(h) PROVE PlaceInv'
    <2> DEFINE times == recs[cur][h]
               stale == times # {} /\ tnow - Max(times) > DayLen
    <2> HIDE DEF stale
    <2>1. rpc = "hosts" /\ rpc' = (IF stale THEN "remove" ELSE "hosts")
          /\ removing' = (IF stale THEN {h} ELSE {})
          /\ UNCHANGED <<now, tenants, recs, tnow, todo, cur, quota, hosts>>
      BY <1>4 DEF CheckHost, stale
    <2>2. IF stale \/ times = {}
          THEN UNCHANGED <<totalsz, earliest>>
          ELSE /\ totalsz' = totalsz + Cardinality(times)
               /\ earliest' = Min(times \cup ({earliest} \ {0}))
      BY <1>4 DEF CheckHost, stale
    <2>3. times \subseteq DayLen .. now /\ cur \in Tenants
      BY <2>1
    <2>4. IsFiniteSet(times) /\ Cardinality(times) \in Nat
      BY <2>3, TimesAreFinite
    <2>5. times # {} => Min(times \cup ({earliest} \ {0})) \in Nat
      <3> DEFINE S == times \cup ({earliest} \ {0})
      <3>1. S \in SUBSET Nat /\ (times # {} => S # {})
        BY <2>3
      <3> QED
        BY <3>1, LeastTime
    <2>6. totalsz' \in Nat /\ earliest' \in Nat
      BY <2>2, <2>4, <2>5
    <2> QED
      BY <2>1, <2>6
  <1>5. CASE db_remove_host
    <2>1. recs' \in [Tenants -> [AllHosts -> SUBSET (DayLen .. now)]]
      BY <1>5 DEF db_remove_host
    <2>2. \A t \in Tenants \ tenants : recs'[t] = NoRecords
      BY <1>5 DEF db_remove_host, NoRecords
    <2> QED
      BY <1>5, <2>1, <2>2 DEF db_remove_host
  <1>6. CASE Cull
    <2>1. recs' \in [Tenants -> [AllHosts -> SUBSET (DayLen .. now)]]
      BY <1>6 DEF Cull
    <2>2. \A t \in Tenants \ tenants : recs'[t] = NoRecords
      BY <1>6 DEF Cull, NoRecords
    <2> QED
      BY <1>6, <2>1, <2>2 DEF Cull
  <1>7. CASE Again
    <2>1. CASE cur \in tenants
      BY <1>7, <2>1 DEF Again, OpenTenant
    <2>2. CASE cur \notin tenants
      BY <1>7, <2>2 DEF Again
    <2> QED
      BY <2>1, <2>2
  <1>8. CASE NextTenant
    BY <1>8 DEF NextTenant
  <1>9. ASSUME NEW t \in Tenants, NEW h \in HostsOf[t], SaveRecord(t, h)
        PROVE  PlaceInv'
    <2>1. h \in AllHosts
      BY DEF AllHosts
    <2>2. now \in DayLen .. now
      OBVIOUS
    <2>3. recs' \in [Tenants -> [AllHosts -> SUBSET (DayLen .. now)]]
      BY <1>9, <2>1, <2>2 DEF SaveRecord
    <2> QED
      BY <1>9, <2>3 DEF SaveRecord, reaper
  <1>10. ASSUME NEW t \in Tenants, RemoveTenant(t) PROVE PlaceInv'
    BY <1>10 DEF RemoveTenant, reaper, NoRecords
  <1>11. ASSUME NEW t \in Tenants, CreateTenant(t) PROVE PlaceInv'
    BY <1>11 DEF CreateTenant, reaper
  <1>12. CASE Tick
    <2>1. now + 1 \in Nat /\ tnow <= now + 1
          /\ DayLen .. now \subseteq DayLen .. (now + 1)
      OBVIOUS
    <2>2. recs' \in [Tenants -> [AllHosts -> SUBSET (DayLen .. now')]]
      BY <1>12, <2>1 DEF Tick
    <2> QED
      BY <1>12, <2>1, <2>2 DEF Tick, reaper
  <1>13. CASE UNCHANGED vars
    BY <1>13 DEF vars, reaper
  <1> QED
    BY <1>1, <1>2, <1>3, <1>4, <1>5, <1>6, <1>7, <1>8, <1>9, <1>10, <1>11,
       <1>12, <1>13 DEF Next, ReaperNext

(* A host that is not stale is added to the sum with all its records.      *)
LEMMA SeenGrows ==
    ASSUME QuotaInv, PlaceInv, SeenInv, NEW h \in AllHosts, CheckHost(h)
    PROVE  SeenInv'
  <1> DEFINE times == recs[cur][h]
             stale == times # {} /\ tnow - Max(times) > DayLen
             S == times \cup ({earliest} \ {0})
  <1> HIDE DEF stale, S
  <1>1. /\ rpc = "hosts" /\ h \in left /\ left' = left \ {h}
        /\ rpc' = (IF stale THEN "remove" ELSE "hosts")
        /\ removing = {} /\ removing' = (IF stale THEN {h} ELSE {})
        /\ UNCHANGED <<recs, tnow, cur>>
    BY DEF CheckHost, stale, PlaceInv
  <1>2. IF stale \/ times = {}
        THEN UNCHANGED <<totalsz, earliest>>
        ELSE /\ totalsz' = totalsz + Cardinality(times)
             /\ earliest' = Min(S)
    BY DEF CheckHost, stale, S
  <1>3. /\ IsFiniteSet(Seen) /\ Cardinality(Seen) <= totalsz
        /\ \A r \in Seen : earliest # 0 /\ earliest <= r[2]
    BY <1>1 DEF SeenInv
  <1>4. cur \in Tenants /\ times \in SUBSET (DayLen .. now) /\ now \in Nat
        /\ recs \in [Tenants -> [AllHosts -> SUBSET (DayLen .. now)]]
        /\ totalsz \in Nat /\ earliest \in Nat
    BY <1>1 DEF QuotaInv, PlaceInv, AtTenant
  <1>5. OldRecords(cur)' = OldRecords(cur)
    BY <1>1 DEF OldRecords, Records
  <1>6. CASE stale \/ times = {}
    <2>1. Seen' \subseteq Seen
      <3>1. CASE stale
        BY <1>1, <1>5, <3>1 DEF Seen
      <3>2. CASE times = {}
        <4>1. \A r \in OldRecords(cur) : r[1] # h
          BY <1>4, <3>2, RecordOf DEF OldRecords
        <4> QED
          BY <1>1, <1>5, <4>1 DEF Seen
      <3> QED
        BY <1>6, <3>1, <3>2
    <2> QED
      BY <1>1, <1>2, <1>4, <1>6, <2>1, SeenShrinks
  <1>7. CASE ~(stale \/ times = {})
    <2>1. totalsz' = totalsz + Cardinality(times) /\ earliest' = Min(S)
          /\ rpc' = "hosts" /\ removing' = {}
      BY <1>1, <1>2, <1>7
    <2>2. \A r \in Seen' : r \in Seen \/ r \in {h} \X times
      <3> SUFFICES ASSUME NEW r \in Seen', r \notin Seen
                   PROVE  r \in {h} \X times
        OBVIOUS
      <3>1. r \in OldRecords(cur) /\ r[1] \notin left \ {h} /\ r[1] \in left
        BY <1>1, <1>5, <2>1 DEF Seen
      <3>2. r = <<h, r[2]>> /\ r[2] \in times
        BY <1>4, <3>1, RecordOf DEF OldRecords
      <3> QED
        BY <3>2
    <2>3. IsFiniteSet(times) /\ Cardinality(times) \in Nat
      BY <1>4, TimesAreFinite
    <2>4. IsFiniteSet({h} \X times)
          /\ Cardinality({h} \X times) = Cardinality(times)
      <3>1. IsFiniteSet({h}) /\ Cardinality({h}) = 1
        BY FS_Singleton
      <3> QED
        BY <2>3, <3>1, FS_Product
    <2> DEFINE U == Seen \cup ({h} \X times)
    <2>5. IsFiniteSet(U) /\ Cardinality(U) = Cardinality(Seen)
             + Cardinality({h} \X times)
             - Cardinality(Seen \cap ({h} \X times))
      BY <1>3, <2>4, FS_Union
    <2>6. Cardinality(Seen) \in Nat
          /\ Cardinality(Seen \cap ({h} \X times)) \in Nat
      BY <1>3, FS_Intersection, FS_CardinalityType
    <2>7. Cardinality(U) \in Nat /\ Cardinality(U) <= totalsz'
      <3>1. \A a, b, i, t \in Nat :
               \A u : u = a + b - i /\ a <= t => u <= t + b
        OBVIOUS
      <3>2. Cardinality(U) \in Nat
        BY <2>5, FS_CardinalityType
      <3>3. Cardinality(U) = Cardinality(Seen) + Cardinality(times)
               - Cardinality(Seen \cap ({h} \X times))
        BY <2>4, <2>5
      <3> HIDE DEF U, times
      <3>4. Cardinality(U) <= totalsz + Cardinality(times)
        BY <1>3, <1>4, <2>3, <2>6, <3>1, <3>3
      <3> QED
        BY <2>1, <3>2, <3>4
    <2>8. Seen' \subseteq U
      BY <2>2
    <2>9. IsFiniteSet(Seen') /\ Cardinality(Seen') \in Nat
          /\ Cardinality(Seen') <= Cardinality(U)
      BY <2>5, <2>8, FS_Subset, FS_CardinalityType
    <2>10. Cardinality(Seen') <= totalsz'
      BY <1>4, <2>1, <2>3, <2>7, <2>9
    <2>11. S \in SUBSET (Nat \ {0}) /\ S # {}
      BY <1>4, <1>7, ReaperAssumption DEF S
    <2>12. earliest' \in S /\ \A x \in S : earliest' <= x
      BY <2>1, <2>11, LeastTime
    <2>13. ASSUME NEW r \in Seen' PROVE earliest' # 0 /\ earliest' <= r[2]
      <3>1. CASE r \in Seen
        <4>1. earliest # 0 /\ earliest <= r[2] /\ earliest \in S
          BY <1>3, <3>1 DEF S
        <4>2. r[2] \in Nat
          BY <1>4, <3>1, RecordOf, ReaperAssumption DEF Seen, OldRecords
        <4> QED
          BY <1>4, <2>11, <2>12, <4>1, <4>2
      <3>2. CASE r \in {h} \X times
        BY <2>11, <2>12, <3>2 DEF S
      <3> QED
        BY <2>2, <3>1, <3>2
    <2> QED
      BY <2>9, <2>10, <2>13 DEF SeenInv
  <1> QED
    BY <1>6, <1>7

(* When a tenant is opened, its hosts without a record have none to add.   *)
LEMMA NothingSeenYet ==
    ASSUME PlaceInv, PlaceInv', NEW t \in Tenants, OpenTenant(t),
           removing' = {}, UNCHANGED <<recs, tnow>>
    PROVE  SeenInv'
  <1>1. /\ cur' = t /\ left' = {h \in AllHosts : recs[t][h] # {}}
        /\ totalsz' = 0 /\ removing' = {}
    BY DEF OpenTenant
  <1>2. recs' \in [Tenants -> [AllHosts -> SUBSET (DayLen .. now')]]
    BY DEF PlaceInv
  <1>3. ASSUME NEW r \in Seen' PROVE FALSE
    <2>1. r \in Records(t)' /\ r[1] \notin left'
      BY <1>1, <1>3 DEF Seen, OldRecords
    <2>2. r[1] \in AllHosts /\ r[2] \in recs'[t][r[1]]
      BY <1>2, <2>1 DEF Records
    <2> QED
      BY <1>1, <2>1, <2>2
  <1>4. Seen' = {}
    BY <1>3
  <1> QED
    BY <1>1, <1>4, FS_EmptySet DEF SeenInv

(* Every step keeps the sum over what is left of the old records.          *)
LEMMA SeenStep ==
    ASSUME QuotaInv, PlaceInv, PlaceInv', SeenInv, [Next]_vars
    PROVE  SeenInv'
  <1> DEFINE Listing == rpc \in {"hosts", "remove"}
  <1>a. /\ now \in Nat /\ tnow \in Nat /\ tnow <= now /\ totalsz \in Nat
        /\ recs \in [Tenants -> [AllHosts -> SUBSET (DayLen .. now)]]
        /\ Listing => cur \in Tenants
    BY DEF PlaceInv, QuotaInv, AtTenant
  <1>b. ASSUME Listing,
               UNCHANGED <<tnow, cur, left, removing, totalsz, earliest>>,
               \A r \in Records(cur)' : r[2] < tnow => r \in Records(cur)
        PROVE  SeenInv'
    <2>1. Seen' \subseteq Seen
      BY <1>b DEF Seen, OldRecords
    <2> QED
      BY <1>a, <1>b, <2>1, SeenShrinks
  <1>c. ASSUME ~Listing, rpc' = rpc PROVE SeenInv'
    BY <1>c DEF SeenInv
  <1>1. CASE StartRound
    BY <1>1 DEF StartRound, SeenInv
  <1>2. ASSUME NEW t \in Tenants, CheckTenant(t) PROVE SeenInv'
    <2>1. CASE t \in tenants
      <3>1. OpenTenant(t) /\ removing' = {} /\ UNCHANGED <<recs, tnow>>
        BY <1>2, <2>1 DEF CheckTenant, PlaceInv
      <3> QED
        BY <3>1, NothingSeenYet
    <2>2. CASE t \notin tenants
      BY <1>2, <2>2 DEF CheckTenant, SeenInv
    <2> QED
      BY <2>1, <2>2
  <1>3. CASE EndRound
    BY <1>3 DEF EndRound, SeenInv
  <1>4. ASSUME NEW h \in AllHosts, CheckHost(h) PROVE SeenInv'
    BY <1>4, SeenGrows
  <1>5. CASE db_remove_host
    <2>1. Listing /\ removing' = {} /\ cur \in Tenants
          /\ UNCHANGED <<tnow, cur, left, totalsz, earliest>>
      BY <1>5, <1>a DEF db_remove_host
    <2>2. recs'[cur] =
            [h \in AllHosts |-> IF h \in removing THEN {} ELSE recs[cur][h]]
      BY <1>5, <1>a, <2>1 DEF db_remove_host
    <2>3. ASSUME NEW r \in Records(cur)'
          PROVE  r \in Records(cur) /\ r[1] \notin removing
      BY <2>1, <2>2, <2>3 DEF Records
    <2>4. Seen' \subseteq Seen
      BY <2>1, <2>3 DEF Seen, OldRecords
    <2> QED
      BY <1>a, <2>1, <2>4, SeenShrinks
  <1>6. CASE Cull
    BY <1>6 DEF Cull, SeenInv
  <1>7. CASE Again
    <2>1. CASE cur \in tenants
      <3>1. OpenTenant(cur) /\ removing' = {} /\ UNCHANGED <<recs, tnow>>
            /\ cur \in Tenants
        BY <1>7, <2>1 DEF Again, PlaceInv, QuotaInv
      <3> QED
        BY <3>1, NothingSeenYet
    <2>2. CASE cur \notin tenants
      BY <1>7, <2>2 DEF Again, SeenInv
    <2> QED
      BY <2>1, <2>2
  <1>8. CASE NextTenant
    BY <1>8 DEF NextTenant, SeenInv
  <1>9. ASSUME NEW t \in Tenants, NEW h \in HostsOf[t], SaveRecord(t, h)
        PROVE  SeenInv'
    <2>1. h \in AllHosts /\ UNCHANGED <<now, tenants, reaper>>
          /\ recs' = [recs EXCEPT ![t][h] = @ \cup {now}]
      BY <1>9 DEF SaveRecord, AllHosts
    <2>2. CASE Listing
      <3>1. ASSUME NEW r \in Records(cur)', r[2] < tnow
            PROVE  r \in Records(cur)
        <4>1. PICK g \in AllHosts : r \in {g} \X recs'[cur][g]
          BY <2>1, <3>1 DEF Records, reaper
        <4>2. r[2] \in recs'[cur][g] /\ r[2] # now
          BY <1>a, <3>1, <4>1
        <4>3. r[2] \in recs[cur][g]
          BY <1>a, <2>1, <2>2, <4>2
        <4> QED
          BY <4>1, <4>3 DEF Records
      <3> QED
        BY <1>b, <2>1, <2>2, <3>1 DEF reaper
    <2> QED
      BY <1>c, <2>1, <2>2 DEF reaper
  <1>10. ASSUME NEW t \in Tenants, RemoveTenant(t) PROVE SeenInv'
    <2>1. UNCHANGED <<now, reaper>> /\ recs' = [recs EXCEPT ![t] = NoRecords]
      BY <1>10 DEF RemoveTenant
    <2>2. CASE Listing
      <3>1. \A h \in AllHosts : recs'[cur][h] \subseteq recs[cur][h]
        BY <1>a, <2>1, <2>2 DEF NoRecords
      <3>2. \A r \in Records(cur)' : r \in Records(cur)
        BY <2>1, <3>1 DEF Records, reaper
      <3> QED
        BY <1>b, <2>1, <2>2, <3>2 DEF reaper
    <2> QED
      BY <1>c, <2>1, <2>2 DEF reaper
  <1>11. ASSUME NEW t \in Tenants, CreateTenant(t) PROVE SeenInv'
    BY <1>11, <1>b, <1>c DEF CreateTenant, reaper, Records
  <1>12. CASE Tick
    BY <1>12, <1>b, <1>c DEF Tick, reaper, Records
  <1>13. CASE UNCHANGED vars
    BY <1>13, <1>b, <1>c DEF vars, reaper, Records
  <1> QED
    BY <1>1, <1>2, <1>3, <1>4, <1>5, <1>6, <1>7, <1>8, <1>9, <1>10, <1>11,
       <1>12, <1>13 DEF Next, ReaperNext

(* What the reaper leaves behind, whichever way it leaves.                 *)
LEMMA LeavingStep ==
    ASSUME QuotaInv, PlaceInv, SeenInv, [Next]_vars,
           cur # NoTenant, cur' = NoTenant, cur \notin Unreadable
    PROVE  \/ Cardinality(OldRecords(cur)) <= Allowed(cur)
           \/ \A r \in OldRecords(cur) : tnow - r[2] < DayLen
  <1> DEFINE Goal == \/ Cardinality(OldRecords(cur)) <= Allowed(cur)
                     \/ \A r \in OldRecords(cur) : tnow - r[2] < DayLen
  <1>a. /\ rpc \in AtTenant /\ cur \in Tenants
        /\ quota \in Nat /\ quota <= Allowed(cur)
    BY DEF QuotaInv, PlaceInv, Stands
  <1>b. /\ now \in Nat /\ tnow \in Nat /\ totalsz \in Nat /\ earliest \in Nat
        /\ recs \in [Tenants -> [AllHosts -> SUBSET (DayLen .. now)]]
        /\ DayLen \in Nat
    BY ReaperAssumption DEF PlaceInv
  <1>c. Allowed(cur) \in Nat
    BY <1>a, ReaperAssumption DEF Allowed
  <1> HIDE DEF Goal
  <1>1. CASE NextTenant
    <2>1. rpc = "hosts" /\ left = {} /\ removing = {}
          /\ ~(totalsz > quota /\ tnow - earliest > DayLen - 1)
      BY <1>1 DEF NextTenant, DayIsOver, PlaceInv
    <2>2. Seen = OldRecords(cur)
      BY <2>1 DEF Seen
    <2>3. /\ IsFiniteSet(OldRecords(cur))
          /\ Cardinality(OldRecords(cur)) <= totalsz
          /\ \A r \in OldRecords(cur) : earliest # 0 /\ earliest <= r[2]
      BY <2>1, <2>2 DEF SeenInv
    <2>4. Cardinality(OldRecords(cur)) \in Nat
      BY <2>3, FS_CardinalityType
    <2>5. CASE totalsz <= quota
      <3>1. Cardinality(OldRecords(cur)) <= Allowed(cur)
        BY <1>a, <1>b, <1>c, <2>3, <2>4, <2>5
      <3> QED
        BY <3>1 DEF Goal
    <2>6. CASE ~(totalsz <= quota)
      <3>1. tnow - earliest < DayLen
        BY <1>a, <1>b, <1>c, <2>1, <2>6
      <3>2. ASSUME NEW r \in OldRecords(cur) PROVE tnow - r[2] < DayLen
        <4>1. r[2] \in Nat
          BY <1>a, <1>b, RecordOf DEF OldRecords
        <4> QED
          BY <1>b, <2>3, <3>1, <4>1
      <3> QED
        BY <3>2 DEF Goal
    <2> QED
      BY <2>5, <2>6
  <1>2. CASE Again
    <2>1. cur \notin tenants
      BY <1>2 DEF Again, OpenTenant
    <2>2. recs[cur] = NoRecords
      BY <1>a, <2>1 DEF PlaceInv
    <2>3. OldRecords(cur) = {}
      BY <2>2 DEF OldRecords, Records, NoRecords
    <2> QED
      BY <2>3 DEF Goal
  <1>3. ASSUME NEW t \in Tenants, CheckTenant(t) PROVE FALSE
    BY <1>3, <1>a DEF CheckTenant, AtTenant
  <1>4. CASE UNCHANGED cur
    BY <1>4
  <1>5. NextTenant \/ Again \/ (\E t \in Tenants : CheckTenant(t))
        \/ UNCHANGED cur
    BY DEF Next, ReaperNext, StartRound, EndRound, CheckHost, db_remove_host,
       Cull, SaveRecord, RemoveTenant, CreateTenant, Tick, vars, reaper
  <1> QED
    BY <1>1, <1>2, <1>3, <1>4, <1>5

(* The reaper leaves no tenant whose metadata can be read over its quota:  *)
(* what it had in the database when the round began fits its quota when    *)
(* the reaper goes on, or what is left is less than a day old, although    *)
(* the watcher saves records and the API removes and creates tenants all   *)
(* the while, and whatever quota a tenant without metadata left behind.    *)
THEOREM NobodyStaysOverQuota == Spec => LeavesWithinQuota
  <1> DEFINE RoundInv == QuotaInv /\ PlaceInv /\ SeenInv
             Leaves == cur # NoTenant /\ cur' = NoTenant
                         /\ cur \notin Unreadable =>
               \/ Cardinality(OldRecords(cur)) <= Allowed(cur)
               \/ \A r \in OldRecords(cur) : tnow - r[2] < DayLen
  <1>1. Init => RoundInv
    BY ReaperAssumption
       DEF Init, QuotaInv, AtTenant, PlaceInv, SeenInv, NoRecords
  <1>2. RoundInv /\ [Next]_vars => RoundInv'
    <2> SUFFICES ASSUME RoundInv, [Next]_vars PROVE RoundInv'
      OBVIOUS
    <2>1. QuotaInv'
      BY QuotaStep
    <2>2. PlaceInv'
      BY PlaceStep
    <2>3. SeenInv'
      BY <2>2, SeenStep
    <2> QED
      BY <2>1, <2>2, <2>3
  <1>3. RoundInv /\ [Next]_vars => [Leaves]_vars
    BY LeavingStep
  <1> HIDE DEF RoundInv
  <1> QED
    BY <1>1, <1>2, <1>3, PTL DEF Spec, LeavesWithinQuota

-----------------------------------------------------------------------------
(* When a day goes: what the reaper has added up is there, or the tenant   *)
(* has been removed meanwhile and has nothing as old as that day.          *)

(* The records of the hosts that were looked at. *)
Counted == {r \in Records(cur) : r[1] \notin left \cup removing}

(* All there is was saved during the round. *)
Renewed == \A r \in Records(cur) : r[2] >= tnow

Covered == totalsz <= Cardinality(Counted) \/ Renewed

FiniteInv == \A t \in Tenants : IsFiniteSet(Records(t))

CountInv == FiniteInv /\ (rpc \in {"hosts", "remove"} => Covered)

(* A step adds one record to a tenant at most.                             *)
LEMMA FiniteStep ==
    ASSUME QuotaInv, PlaceInv, FiniteInv, [Next]_vars
    PROVE  FiniteInv'
  <1>a. /\ recs \in [Tenants -> [AllHosts -> SUBSET (DayLen .. now)]]
        /\ rpc \in AtTenant => cur \in Tenants
    BY DEF PlaceInv, QuotaInv
  <1>b. ASSUME \A t \in Tenants, h \in AllHosts :
                  recs'[t][h] \subseteq recs[t][h]
        PROVE  FiniteInv'
    <2> SUFFICES ASSUME NEW t \in Tenants PROVE IsFiniteSet(Records(t)')
      BY DEF FiniteInv
    <2>1. Records(t)' \subseteq Records(t)
      BY <1>b DEF Records
    <2>2. IsFiniteSet(Records(t))
      BY DEF FiniteInv
    <2> QED
      BY <2>1, <2>2, FS_Subset
  <1>1. CASE db_remove_host
    BY <1>a, <1>b, <1>1 DEF db_remove_host, AtTenant
  <1>2. CASE Cull
    BY <1>a, <1>b, <1>2 DEF Cull, AtTenant
  <1>3. ASSUME NEW t \in Tenants, RemoveTenant(t) PROVE FiniteInv'
    BY <1>a, <1>b, <1>3 DEF RemoveTenant, NoRecords
  <1>4. ASSUME NEW t \in Tenants, NEW h \in HostsOf[t], SaveRecord(t, h)
        PROVE  FiniteInv'
    <2> SUFFICES ASSUME NEW u \in Tenants PROVE IsFiniteSet(Records(u)')
      BY DEF FiniteInv
    <2>1. \A g \in AllHosts : \A x \in recs'[u][g] :
             x \in recs[u][g] \/ <<g, x>> = <<h, now>>
      BY <1>a, <1>4 DEF SaveRecord
    <2>2. Records(u)' \subseteq Records(u) \cup {<<h, now>>}
      BY <2>1 DEF Records
    <2>3. IsFiniteSet(Records(u) \cup {<<h, now>>})
      BY FS_AddElement DEF FiniteInv
    <2> QED
      BY <2>2, <2>3, FS_Subset
  <1>5. CASE UNCHANGED recs
    BY <1>b, <1>5
  <1> QED
    BY <1>1, <1>2, <1>3, <1>4, <1>5
       DEF Next, ReaperNext, StartRound, EndRound, CheckTenant, CheckHost,
           Again, NextTenant, CreateTenant, Tick, vars

(* A larger set of counted records covers the sum as well.                 *)
LEMMA CoversMore ==
    ASSUME QuotaInv, CountInv, FiniteInv', cur \in Tenants,
           UNCHANGED <<cur, totalsz>>, totalsz \in Nat,
           totalsz <= Cardinality(Counted), Counted \subseteq Counted'
    PROVE  Covered'
  <1>1. IsFiniteSet(Records(cur)')
    BY DEF FiniteInv
  <1>2. IsFiniteSet(Counted')
    BY <1>1, FS_Subset DEF Counted
  <1>3. Cardinality(Counted) <= Cardinality(Counted')
        /\ Cardinality(Counted) \in Nat /\ Cardinality(Counted') \in Nat
    BY <1>2, FS_Subset, FS_CardinalityType
  <1> QED
    BY <1>3 DEF Covered

(* A host is counted with all its records.                                 *)
LEMMA CountGrows ==
    ASSUME QuotaInv, PlaceInv, CountInv, FiniteInv', NEW h \in AllHosts,
           CheckHost(h)
    PROVE  Covered'
  <1> DEFINE times == recs[cur][h]
             stale == times # {} /\ tnow - Max(times) > DayLen
  <1> HIDE DEF stale
  <1>1. /\ rpc = "hosts" /\ h \in left /\ left' = left \ {h}
        /\ removing = {} /\ removing' = (IF stale THEN {h} ELSE {})
        /\ UNCHANGED <<recs, tnow, cur>>
    BY DEF CheckHost, stale, PlaceInv
  <1>2. IF stale \/ times = {}
        THEN UNCHANGED totalsz
        ELSE totalsz' = totalsz + Cardinality(times)
    BY DEF CheckHost, stale
  <1>3. cur \in Tenants /\ times \in SUBSET (DayLen .. now) /\ now \in Nat
        /\ recs \in [Tenants -> [AllHosts -> SUBSET (DayLen .. now)]]
        /\ totalsz \in Nat /\ Covered
    BY <1>1 DEF QuotaInv, PlaceInv, CountInv, AtTenant
  <1>4. Records(cur)' = Records(cur)
    BY <1>1 DEF Records
  <1>5. CASE Renewed
    BY <1>1, <1>4, <1>5 DEF Renewed, Covered
  <1>6. CASE totalsz <= Cardinality(Counted) /\ (stale \/ times = {})
    <2>1. Counted \subseteq Counted'
      BY <1>1, <1>4 DEF Counted
    <2> QED
      BY <1>1, <1>2, <1>3, <1>6, <2>1, CoversMore
  <1>7. CASE totalsz <= Cardinality(Counted) /\ ~(stale \/ times = {})
    <2> DEFINE own == {h} \X times
    <2>1. IsFiniteSet(times) /\ Cardinality(times) \in Nat
      BY <1>3, TimesAreFinite
    <2>2. IsFiniteSet(own) /\ Cardinality(own) = Cardinality(times)
      <3>1. IsFiniteSet({h}) /\ Cardinality({h}) = 1
        BY FS_Singleton
      <3> QED
        BY <2>1, <3>1, FS_Product
    <2>3. IsFiniteSet(Counted)
      <3>1. IsFiniteSet(Records(cur))
        BY <1>3 DEF CountInv, FiniteInv
      <3> QED
        BY <3>1, FS_Subset DEF Counted
    <2>4. Counted \cap own = {}
      BY <1>1 DEF Counted
    <2>5. own \subseteq Counted' /\ Counted \subseteq Counted'
      <3>1. own \subseteq Records(cur)
        BY DEF Records
      <3> QED
        BY <1>1, <1>4, <1>7, <3>1 DEF Counted
    <2> HIDE DEF own
    <2>6. IsFiniteSet(Counted \cup own)
          /\ Cardinality(Counted \cup own)
               = Cardinality(Counted) + Cardinality(own)
      <3>1. /\ IsFiniteSet(Counted \cup own)
            /\ Cardinality(Counted \cup own) =
                 Cardinality(Counted) + Cardinality(own)
                   - Cardinality(Counted \cap own)
        BY <2>2, <2>3, FS_Union
      <3>2. Cardinality(Counted \cap own) = 0
        BY <2>4, FS_EmptySet
      <3>3. Cardinality(Counted) \in Nat /\ Cardinality(own) \in Nat
        BY <2>2, <2>3, FS_CardinalityType
      <3> QED
        BY <3>1, <3>2, <3>3
    <2>7. IsFiniteSet(Counted')
      <3>1. IsFiniteSet(Records(cur)')
        BY <1>1, <1>3 DEF FiniteInv
      <3> QED
        BY <3>1, FS_Subset DEF Counted
    <2>8. Cardinality(Counted \cup own) <= Cardinality(Counted')
      BY <2>5, <2>7, FS_Subset
    <2>9. /\ Cardinality(Counted) \in Nat /\ Cardinality(Counted') \in Nat
          /\ Cardinality(Counted \cup own) \in Nat
      BY <2>3, <2>6, <2>7, FS_CardinalityType
    <2> HIDE DEF times
    <2>10. totalsz' <= Cardinality(Counted')
      BY <1>2, <1>3, <1>7, <2>1, <2>2, <2>6, <2>8, <2>9
    <2> QED
      BY <2>10 DEF Covered
  <1> QED
    BY <1>3, <1>5, <1>6, <1>7 DEF Covered

(* Every step keeps the sum covered.                                       *)
LEMMA CountStep ==
    ASSUME QuotaInv, PlaceInv, PlaceInv', CountInv, [Next]_vars
    PROVE  CountInv'
  <1> DEFINE Listing == rpc \in {"hosts", "remove"}
  <1>a. /\ now \in Nat /\ tnow \in Nat /\ tnow <= now /\ totalsz \in Nat
        /\ recs \in [Tenants -> [AllHosts -> SUBSET (DayLen .. now)]]
        /\ Listing => cur \in Tenants
    BY DEF PlaceInv, QuotaInv, AtTenant
  <1>b. FiniteInv'
    BY FiniteStep DEF CountInv
  <1> SUFFICES Listing' => Covered'
    BY <1>b DEF CountInv
  <1>c. ASSUME Listing, UNCHANGED <<tnow, cur, left, totalsz>>,
               \A r \in Records(cur)' : r \in Records(cur) \/ r[2] >= tnow,
               Counted \subseteq Counted'
        PROVE  Covered'
    <2>1. CASE Renewed
      BY <1>c, <2>1 DEF Renewed, Covered
    <2>2. CASE totalsz <= Cardinality(Counted)
      BY <1>a, <1>b, <1>c, <2>2, CoversMore
    <2> QED
      BY <1>c, <2>1, <2>2 DEF CountInv, Covered
  <1>d. ASSUME UNCHANGED <<recs, reaper>>, Listing PROVE Covered'
    <2>1. Records(cur)' = Records(cur)
      BY <1>d DEF reaper, Records
    <2>2. Counted \subseteq Counted'
      BY <1>d, <2>1 DEF reaper, Counted
    <2> QED
      BY <1>c, <1>d, <2>1, <2>2 DEF reaper
  <1>e. ASSUME NEW t, OpenTenant(t) PROVE Covered'
    <2>1. totalsz' = 0 /\ cur' = t /\ rpc' = "hosts"
      BY <1>e DEF OpenTenant
    <2>2. t \in Tenants
      BY <1>e DEF OpenTenant, QuotaInv
    <2>3. IsFiniteSet(Records(t)')
      BY <1>b, <2>2 DEF FiniteInv
    <2>4. IsFiniteSet(Records(cur)')
      BY <2>1, <2>3 DEF Records
    <2>5. IsFiniteSet(Counted')
      BY <2>4, FS_Subset DEF Counted
    <2>6. Cardinality(Counted') \in Nat
      BY <2>5, FS_CardinalityType
    <2> QED
      BY <2>1, <2>6 DEF Covered
  <1>1. CASE StartRound
    BY <1>1 DEF StartRound
  <1>2. ASSUME NEW t \in Tenants, CheckTenant(t), Listing' PROVE Covered'
    BY <1>2, <1>e DEF CheckTenant
  <1>3. CASE EndRound
    BY <1>3 DEF EndRound
  <1>4. ASSUME NEW h \in AllHosts, CheckHost(h) PROVE Covered'
    BY <1>4, <1>b, CountGrows
  <1>5. CASE db_remove_host
    <2>1. Listing /\ removing' = {} /\ cur \in Tenants
          /\ UNCHANGED <<tnow, cur, left, totalsz>>
      BY <1>5, <1>a DEF db_remove_host
    <2>2. recs'[cur] =
            [h \in AllHosts |-> IF h \in removing THEN {} ELSE recs[cur][h]]
      BY <1>5, <1>a, <2>1 DEF db_remove_host
    <2>3. Records(cur)' = {r \in Records(cur) : r[1] \notin removing}
      <3>1. Records(cur)' = UNION {{h} \X recs'[cur][h] : h \in AllHosts}
        BY <2>1 DEF Records
      <3> QED
        BY <2>2, <3>1 DEF Records
    <2>4. Counted \subseteq Counted'
      BY <2>1, <2>3 DEF Counted
    <2> QED
      BY <1>c, <2>1, <2>3, <2>4
  <1>6. CASE Cull
    BY <1>6 DEF Cull
  <1>7. CASE Again /\ Listing'
    BY <1>7, <1>e DEF Again
  <1>8. CASE NextTenant
    BY <1>8 DEF NextTenant
  <1>9. ASSUME NEW t \in Tenants, NEW h \in HostsOf[t], SaveRecord(t, h),
               Listing'
        PROVE  Covered'
    <2>1. h \in AllHosts /\ UNCHANGED reaper /\ Listing
          /\ recs' = [recs EXCEPT ![t][h] = @ \cup {now}]
      BY <1>9 DEF SaveRecord, AllHosts, reaper
    <2>2. \A g \in AllHosts : recs'[cur][g] = recs[cur][g]
             \/ recs'[cur][g] = recs[cur][g] \cup {now}
      BY <1>a, <2>1
    <2>3. Records(cur)' = UNION {{g} \X recs'[cur][g] : g \in AllHosts}
      BY <2>1 DEF Records, reaper
    <2>4. Records(cur) \subseteq Records(cur)'
      BY <2>2, <2>3 DEF Records
    <2>5. \A r \in Records(cur)' : r \in Records(cur) \/ r[2] = now
      BY <2>2, <2>3 DEF Records
    <2>6. Counted \subseteq Counted'
      BY <2>1, <2>4 DEF Counted, reaper
    <2> QED
      BY <1>a, <1>c, <2>1, <2>5, <2>6 DEF reaper
  <1>10. ASSUME NEW t \in Tenants, RemoveTenant(t), Listing' PROVE Covered'
    <2>1. UNCHANGED reaper /\ recs' = [recs EXCEPT ![t] = NoRecords]
          /\ Listing
      BY <1>10 DEF RemoveTenant, reaper
    <2>2. Records(cur)' = UNION {{g} \X recs'[cur][g] : g \in AllHosts}
      BY <2>1 DEF Records, reaper
    <2>3. CASE t = cur
      <3>1. Records(cur)' = {}
        BY <1>a, <2>1, <2>2, <2>3 DEF NoRecords
      <3> QED
        BY <3>1 DEF Renewed, Covered
    <2>4. CASE t # cur
      <3>1. Records(cur)' = Records(cur)
        BY <1>a, <2>1, <2>2, <2>4 DEF Records
      <3>2. Counted \subseteq Counted'
        BY <2>1, <3>1 DEF Counted, reaper
      <3> QED
        BY <1>c, <2>1, <3>1, <3>2 DEF reaper
    <2> QED
      BY <2>3, <2>4
  <1>11. ASSUME NEW t \in Tenants, CreateTenant(t), Listing' PROVE Covered'
    BY <1>11, <1>d DEF CreateTenant, reaper
  <1>12. CASE Tick /\ Listing'
    BY <1>12, <1>d DEF Tick, reaper
  <1>13. CASE UNCHANGED vars /\ Listing'
    BY <1>13, <1>d DEF vars, reaper
  <1> QED
    BY <1>1, <1>2, <1>3, <1>4, <1>5, <1>6, <1>7, <1>8, <1>9, <1>10, <1>11,
       <1>12, <1>13 DEF Next, ReaperNext

(* Two times a day apart are of two days.                                  *)
LEMMA DaysDiffer ==
    ASSUME NEW a \in Nat, NEW b \in Nat, NEW d \in Nat \ {0}, b - a >= d
    PROVE  a \div d # b \div d
  <1> DEFINE p == a \div d
             q == b \div d
             r == a % d
             s == b % d
  <1>1. /\ p \in Int /\ q \in Int /\ r \in 0 .. d - 1 /\ s \in 0 .. d - 1
        /\ a = d * p + r /\ b = d * q + s
    OBVIOUS
  <1> HIDE DEF p, q, r, s
  <1>2. ASSUME p = q PROVE FALSE
    <2> DEFINE e == d * p
    <2>1. e \in Int /\ a = e + r /\ b = e + s
      BY <1>1, <1>2
    <2> HIDE DEF e
    <2> QED
      BY <1>1, <2>1
  <1> QED
    BY <1>2 DEF p, q

(* A day that goes with records in it: the tenant is what it was counted.  *)
LEMMA LossStep ==
    ASSUME QuotaInv, PlaceInv, CountInv, [Next]_vars, LosesDay,
           cur \notin Unreadable, MB * Quota[cur] < Width
    PROVE  Cardinality(Records(cur)) > Allowed(cur)
  <1>1. Cull
    BY DEF LosesDay, Next, ReaperNext, StartRound, EndRound, db_remove_host,
       Again, NextTenant, CheckTenant, OpenTenant, CheckHost, RemoveTenant,
       CreateTenant, SaveRecord, Tick, vars, reaper
  <1>2. /\ rpc = "hosts" /\ totalsz > quota /\ tnow - earliest > DayLen - 1
        /\ recs' = [recs EXCEPT ![cur] = [h \in AllHosts |->
                      IF h \in hosts
                      THEN {r \in @[h] : time2date(r) # CullDay} ELSE @[h]]]
    BY <1>1 DEF Cull, DayIsOver
  <1>3. /\ cur \in Tenants /\ quota = Allowed(cur) /\ quota \in Nat
        /\ now \in Nat /\ tnow \in Nat /\ totalsz \in Nat /\ earliest \in Nat
        /\ recs \in [Tenants -> [AllHosts -> SUBSET (DayLen .. now)]]
        /\ DayLen \in Nat \ {0} /\ Covered
    BY <1>2, ReaperAssumption
       DEF QuotaInv, Stands, PlaceInv, AtTenant, CountInv
  <1>4. \E h \in AllHosts : \E x \in recs[cur][h] : time2date(x) = CullDay
    <2> SUFFICES ASSUME \A h \in AllHosts : \A x \in recs[cur][h] :
                           time2date(x) # CullDay
                 PROVE  recs' = recs
      BY DEF LosesDay
    <2> DEFINE kept == [h \in AllHosts |->
                  IF h \in hosts
                  THEN {r \in recs[cur][h] : time2date(r) # CullDay}
                  ELSE recs[cur][h]]
    <2>1. recs' = [recs EXCEPT ![cur] = kept]
      BY <1>2
    <2>2. \A h \in AllHosts : kept[h] = recs[cur][h]
      OBVIOUS
    <2>3. kept = recs[cur]
      BY <1>3, <2>2
    <2> HIDE DEF kept
    <2> QED
      BY <1>3, <2>1, <2>3
  <1>h. PICK h \in AllHosts : \E x \in recs[cur][h] : time2date(x) = CullDay
    BY <1>4
  <1>5. PICK x \in recs[cur][h] : time2date(x) = CullDay
    BY <1>h
  <1>6. <<h, x>> \in Records(cur) /\ x \in Nat
    BY <1>3, <1>5 DEF Records
  <1>7. ~Renewed
    <2> SUFFICES ASSUME x >= tnow PROVE FALSE
      BY <1>6 DEF Renewed
    <2>1. x - earliest >= DayLen
      BY <1>2, <1>3, <1>6
    <2> QED
      BY <1>3, <1>5, <1>6, <2>1, DaysDiffer DEF time2date, CullDay
  <1>8. IsFiniteSet(Records(cur))
    BY <1>3 DEF CountInv, FiniteInv
  <1>9. Counted \subseteq Records(cur)
    BY DEF Counted
  <1>10. /\ Cardinality(Counted) <= Cardinality(Records(cur))
         /\ Cardinality(Counted) \in Nat /\ Cardinality(Records(cur)) \in Nat
    BY <1>8, <1>9, FS_Subset, FS_CardinalityType
  <1> QED
    BY <1>2, <1>3, <1>7, <1>10 DEF Covered

(* A tenant whose metadata can be read, with a quota that fits the         *)
(* variable, loses a day only while it has more than its quota in the      *)
(* database: neither the hosts, records and tenants that come and go       *)
(* during the reaper's walk nor what it keeps from another tenant make it  *)
(* cull one that is within its quota.                                      *)
THEOREM OnlyOverQuotaIsCulled == Spec => CullsOverQuota
  <1> DEFINE CullInv == QuotaInv /\ PlaceInv /\ CountInv
             Over == LosesDay /\ cur \notin Unreadable
                       /\ MB * Quota[cur] < Width =>
                         Cardinality(Records(cur)) > Allowed(cur)
  <1>1. Init => CullInv
    <2> SUFFICES ASSUME Init PROVE CullInv
      OBVIOUS
    <2>1. \A t \in Tenants : Records(t) = {}
      BY DEF Init, Records, NoRecords
    <2>2. CountInv
      BY <2>1, FS_EmptySet DEF Init, CountInv, FiniteInv
    <2> QED
      BY <2>2, ReaperAssumption
         DEF Init, QuotaInv, AtTenant, PlaceInv, NoRecords
  <1>2. CullInv /\ [Next]_vars => CullInv'
    <2> SUFFICES ASSUME CullInv, [Next]_vars PROVE CullInv'
      OBVIOUS
    <2>1. QuotaInv'
      BY QuotaStep
    <2>2. PlaceInv'
      BY PlaceStep
    <2>3. CountInv'
      BY <2>2, CountStep
    <2> QED
      BY <2>1, <2>2, <2>3
  <1>3. CullInv /\ [Next]_vars => [Over]_vars
    BY LossStep
  <1> HIDE DEF CullInv
  <1> QED
    BY <1>1, <1>2, <1>3, PTL DEF Spec, CullsOverQuota

-----------------------------------------------------------------------------
(* The watcher's badness.  It is a sum over the watchers in force, which   *)
(* FiniteSetsExt defines by recursion over the subsets of a set.           *)

(* What the matches of a watcher add. *)
Points(hits, w) == hits[w] * Weight[w[2]]

(* They are whole half points. *)
LEMMA PointsAreNumbers ==
    ASSUME NEW hits \in [Watches -> Nat], NEW w \in Watches
    PROVE  Points(hits, w) \in Nat
  <1>1. w[2] \in Levels
    BY DEF Watches
  <1>2. Weight[w[2]] \in Nat
    BY <1>1 DEF Weight, Levels
  <1> QED
    BY <1>2 DEF Points

(* One turn of the recursion by which a sum over a set is defined. *)
Turn(hits, S, f) ==
   [s \in SUBSET S |-> IF s = {} THEN 0
      ELSE LET x == CHOOSE x \in s : TRUE IN Points(hits, x) + f[s \ {x}]]

(* The recursion has a solution: as many turns as the set has elements are *)
(* enough, from whatever function they start.                              *)
LEMMA SumExists ==
    ASSUME NEW S \in SUBSET Watches, IsFiniteSet(S),
           NEW hits \in [Watches -> Nat]
    PROVE  \E f \in [SUBSET S -> Nat] : f = Turn(hits, S, f)
  <1> DEFINE Upto(n) == \E f \in [SUBSET S -> Nat] :
                \A s \in SUBSET S :
                   Cardinality(s) <= n => f[s] = Turn(hits, S, f)[s]
             Bad == {n \in Nat : ~Upto(n)}
  <1>1. \A s \in SUBSET S : IsFiniteSet(s) /\ Cardinality(s) \in Nat
                              /\ Cardinality(s) <= Cardinality(S)
    BY FS_Subset, FS_CardinalityType
  <1>2. ASSUME NEW f \in [SUBSET S -> Nat]
        PROVE  Turn(hits, S, f) \in [SUBSET S -> Nat]
    <2>1. ASSUME NEW s \in SUBSET S, s # {}
          PROVE  Points(hits, CHOOSE x \in s : TRUE)
                    + f[s \ {CHOOSE x \in s : TRUE}] \in Nat
      <3> DEFINE x == CHOOSE x \in s : TRUE
      <3>1. x \in s
        BY <2>1
      <3> HIDE DEF x
      <3>2. x \in S /\ s \ {x} \in SUBSET S
        BY <3>1
      <3>3. Points(hits, x) \in Nat /\ f[s \ {x}] \in Nat
        BY <3>2, PointsAreNumbers
      <3> QED
        BY <3>3 DEF x
    <2> QED
      BY <2>1 DEF Turn
  <1>3. Upto(0)
    <2> DEFINE z == [s \in SUBSET S |-> 0]
    <2>1. ASSUME NEW s \in SUBSET S, Cardinality(s) <= 0
          PROVE  z[s] = Turn(hits, S, z)[s]
      <3>1. s = {}
        BY <1>1, <2>1, FS_EmptySet
      <3> QED
        BY <3>1 DEF Turn
    <2> QED
      BY <2>1
  <1>4. ASSUME NEW n \in Nat, Upto(n) PROVE Upto(n + 1)
    <2>1. PICK f \in [SUBSET S -> Nat] : \A s \in SUBSET S :
             Cardinality(s) <= n => f[s] = Turn(hits, S, f)[s]
      BY <1>4
    <2> DEFINE h == Turn(hits, S, f)
    <2>2. h \in [SUBSET S -> Nat]
      BY <1>2
    <2>3. ASSUME NEW s \in SUBSET S, Cardinality(s) <= n + 1
          PROVE  h[s] = Turn(hits, S, h)[s]
      <3>1. CASE s = {}
        BY <3>1 DEF Turn
      <3>2. CASE s # {}
        <4> DEFINE x == CHOOSE x \in s : TRUE
        <4>1. x \in s
          BY <3>2
        <4>2. /\ h[s] = Points(hits, x) + f[s \ {x}]
              /\ Turn(hits, S, h)[s] = Points(hits, x) + h[s \ {x}]
          BY <3>2 DEF Turn
        <4> HIDE DEF x, h
        <4>3. s \ {x} \in SUBSET S /\ Cardinality(s \ {x}) <= n
          BY <1>1, <2>3, <4>1, FS_RemoveElement
        <4>4. f[s \ {x}] = h[s \ {x}]
          BY <2>1, <4>3 DEF h
        <4> QED
          BY <4>2, <4>4
      <3> QED
        BY <3>1, <3>2
    <2> HIDE DEF h
    <2> QED
      BY <2>2, <2>3
  <1> HIDE DEF Upto
  <1>5. Bad = {}
    <2> SUFFICES ASSUME Bad # {} PROVE FALSE
      OBVIOUS
    <2>1. PICK n \in Bad : \A m \in Bad : n <= m
      BY LeastTime
    <2>2. n \in Nat \ {0} /\ n - 1 \in Nat /\ n - 1 \notin Bad
      BY <1>3, <2>1
    <2>3. Upto((n - 1) + 1) /\ (n - 1) + 1 = n
      BY <1>4, <2>2
    <2> QED
      BY <2>1, <2>3
  <1>6. Upto(Cardinality(S))
    BY <1>1, <1>5
  <1>7. PICK f \in [SUBSET S -> Nat] : \A s \in SUBSET S :
             Cardinality(s) <= Cardinality(S) => f[s] = Turn(hits, S, f)[s]
    BY <1>6 DEF Upto
  <1>8. Turn(hits, S, f) \in [SUBSET S -> Nat]
    BY <1>2
  <1>9. f = Turn(hits, S, f)
    BY <1>1, <1>7, <1>8
  <1> QED
    BY <1>9

(* Whichever solution the definition chooses, its values are numbers: there *)
(* is no smallest set for which they are not.                              *)
LEMMA SumsAreNumbers ==
    ASSUME NEW S \in SUBSET Watches, IsFiniteSet(S),
           NEW hits \in [Watches -> Nat], NEW f, f = Turn(hits, S, f)
    PROVE  f[S] \in Nat
  <1> DEFINE Bad == {n \in Nat :
                \E s \in SUBSET S : Cardinality(s) = n /\ f[s] \notin Nat}
  <1>1. \A s \in SUBSET S : IsFiniteSet(s) /\ Cardinality(s) \in Nat
    BY FS_Subset, FS_CardinalityType
  <1>2. CASE Bad # {}
    <2>1. PICK n \in Bad : \A m \in Bad : n <= m
      BY <1>2, LeastTime
    <2>2. PICK s \in SUBSET S : Cardinality(s) = n /\ f[s] \notin Nat
      BY <2>1
    <2>3. s # {}
      BY <2>2 DEF Turn
    <2> DEFINE x == CHOOSE x \in s : TRUE
    <2>4. x \in s
      BY <2>3
    <2>5. f[s] = Points(hits, x) + f[s \ {x}]
      BY <2>3 DEF Turn
    <2> HIDE DEF x
    <2>6. Cardinality(s \ {x}) = n - 1 /\ n - 1 \in Nat
          /\ s \ {x} \in SUBSET S
      BY <1>1, <2>2, <2>4, FS_RemoveElement
    <2>7. f[s \ {x}] \in Nat
      BY <2>1, <2>6
    <2>8. Points(hits, x) \in Nat
      BY <2>4, PointsAreNumbers
    <2> QED
      BY <2>2, <2>5, <2>7, <2>8
  <1>3. CASE Bad = {}
    BY <1>1, <1>3
  <1> QED
    BY <1>2, <1>3

(* The badness that a set of watchers adds up to is a number.              *)
LEMMA BadnessIsNumber ==
    ASSUME NEW S \in SUBSET Watches, IsFiniteSet(S),
           NEW hits \in [Watches -> Nat]
    PROVE  MapThenSumSet(LAMBDA w : hits[w] * Weight[w[2]], S) \in Nat
  <1> DEFINE it == CHOOSE f : f = Turn(hits, S, f)
  <1>1. it = Turn(hits, S, it)
    BY SumExists
  <1>2. MapThenSumSet(LAMBDA w : hits[w] * Weight[w[2]], S) = it[S]
    BY DEF MapThenSumSet, MapThenFoldSet, Turn, Points
  <1>3. it[S] \in Nat
    BY <1>1, SumsAreNumbers
  <1> QED
    BY <1>2, <1>3

(* What the rounds keep: badness is a number. *)
BadnessInv == badness \in Nat

(* What a round finds is a number, whichever watchers are in force.        *)
LEMMA RoundAdds ==
    ASSUME IsFiniteSet(Meters), NEW hits \in [Watches -> HitCounts]
    PROVE  calculate_badness(hits) \in Nat
  <1>1. IsFiniteSet(Levels)
    <2>1. IsFiniteSet({"WARN"})
      BY FS_Singleton
    <2>2. IsFiniteSet({"WARN"} \cup {"ALERT"})
      BY <2>1, FS_AddElement
    <2>3. IsFiniteSet(({"WARN"} \cup {"ALERT"}) \cup {"CRIT"})
      BY <2>2, FS_AddElement
    <2>4. Levels = ({"WARN"} \cup {"ALERT"}) \cup {"CRIT"}
      BY DEF Levels
    <2> QED
      BY <2>3, <2>4
  <1>2. IsFiniteSet(Watches)
    BY <1>1, FS_Product DEF Watches
  <1>3. InForce \in SUBSET Watches
    BY DEF InForce
  <1>4. IsFiniteSet(InForce)
    BY <1>2, <1>3, FS_Subset
  <1>5. hits \in [Watches -> Nat]
    BY HostStatusAssumption
  <1> QED
    BY <1>3, <1>4, <1>5, BadnessIsNumber DEF calculate_badness

(* A round with fresh data: the caps, the decay and the thresholds.        *)
LEMMA RoundStep ==
    ASSUME IsFiniteSet(Meters), BadnessInv,
           NEW hits \in [Watches -> HitCounts], HandleHost(hits)
    PROVE  /\ BadnessInv'
           /\ badness' > badness /\ badness' - badness < Gap =>
                /\ condition' = "WARN" => status' \notin {"ALERT", "CRIT"}
                /\ condition' = "ALERT" => status' # "CRIT"
  <1> DEFINE trigger == maxtrigger(hits)
             total == calculate_badness(hits)
             added == Cap(badness, total, trigger)
             new == IF trigger = "NONE" THEN Recover(badness + added)
                    ELSE Decay(badness + added, added)
  <1>1. badness' = new /\ status' = StatusOf(new) /\ condition' = trigger
    BY DEF HandleHost
  <1>2. total \in Nat /\ badness \in Nat
    BY RoundAdds DEF BadnessInv
  <1>3. trigger \in {"NONE", "WARN", "ALERT", "CRIT"}
    BY DEF maxtrigger
  <1> HIDE DEF trigger, total
  <1>5. added \in Nat /\ added \in {0, total}
    BY <1>2, <1>3 DEF Cap
  <1>6. /\ trigger = "WARN" /\ added # 0 => badness <= 100
        /\ trigger = "ALERT" /\ added # 0 => badness <= 180
    BY <1>2 DEF Cap
  <1> HIDE DEF added
  <1>7. new \in Nat
    BY <1>2, <1>5 DEF Recover, Decay
  <1>8. ASSUME new > badness, new - badness < 60, trigger \in {"WARN", "ALERT"}
        PROVE  /\ trigger = "WARN" => new < 160
               /\ trigger = "ALERT" => new < 240
    <2>1. added # 0
      BY <1>2, <1>8 DEF Decay
    <2>2. new = badness + added
      BY <1>8, <2>1 DEF Decay
    <2> HIDE DEF new
    <2> QED
      BY <1>2, <1>5, <1>6, <1>8, <2>1, <2>2
  <1> HIDE DEF new
  <1>9. /\ new < 160 => StatusOf(new) \notin {"ALERT", "CRIT"}
        /\ new < 240 => StatusOf(new) # "CRIT"
    BY <1>7 DEF StatusOf
  <1> QED
    BY <1>1, <1>7, <1>8, <1>9 DEF BadnessInv, Gap

(* However many elements match, and whatever badness a condition starts    *)
(* from, WARN problems make an ALERT of a host, and ALERT problems a CRIT, *)
(* only by a single round that adds 30 points or more.                     *)
THEOREM ConditionsStayInTheirLevel ==
    ASSUME IsFiniteSet(Meters)
    PROVE  StatusSpec => NoOverreach
  <1> DEFINE Stays ==
               badness' > badness /\ badness' - badness < Gap =>
                  /\ condition' = "WARN" => status' \notin {"ALERT", "CRIT"}
                  /\ condition' = "ALERT" => status' # "CRIT"
  <1>1. StatusInit => BadnessInv
    BY DEF StatusInit, BadnessInv
  <1>2. BadnessInv /\ [StatusNext]_statusVars
          => BadnessInv' /\ [Stays]_statusVars
    <2> SUFFICES ASSUME BadnessInv, [StatusNext]_statusVars
                 PROVE  BadnessInv' /\ Stays
      OBVIOUS
    <2>1. ASSUME NEW hits \in [Watches -> HitCounts], HandleHost(hits)
          PROVE  BadnessInv' /\ Stays
      BY <2>1, RoundStep
    <2>2. CASE UNCHANGED badness
      BY <2>2 DEF BadnessInv
    <2> QED
      BY <2>1, <2>2 DEF StatusNext, Round, HandleStaleHost,
         watchlist_populate, statusVars
  <1> QED
    BY <1>1, <1>2, PTL DEF StatusSpec, NoOverreach

-----------------------------------------------------------------------------
(* A tenant's notifications.                                               *)

(* A list that is one, whatever its pointers have come to.                 *)
Sound(list) ==
    /\ list = [first |-> list.first, last |-> list.last, mem |-> list.mem]
    /\ {list.first, list.last} \subseteq Slots \cup {NULL}
    /\ Allocated(list) \subseteq Slots
    /\ list.mem \in [Allocated(list) -> Notification]

(* S has the first object and, with each, the one after it.                *)
Closed(list, S) ==
    /\ list.first \in Allocated(list) => list.first \in S
    /\ \A p \in S :
          list.mem[p].next \in Allocated(list) => list.mem[p].next \in S

(* The objects a walk from the first one comes by.                         *)
Reach(list) ==
    {p \in Allocated(list) :
        \A S \in SUBSET Allocated(list) : Closed(list, S) => p \in S}

(* What the list says of the hosts: of each in one place, and its present  *)
(* status.                                                                 *)
Tells(list) ==
    /\ \A p, q \in Reach(list) :
          list.mem[p].hostid = list.mem[q].hostid => p = q
    /\ \A p \in Reach(list) :
          hoststatus[list.mem[p].hostid] # "UNSET" =>
             list.mem[p].status = hoststatus[list.mem[p].hostid]

NotifyInv ==
    Sound(notify) /\ Tells(notify) /\ hoststatus \in [Hosts -> Statuses]

(* There are addresses from 1.                                             *)
LEMMA Addresses ==
    /\ NULL \notin Slots /\ Slots \subseteq Nat
    /\ 0 .. Cardinality(Slots) \subseteq Nat
    /\ 0 \in 0 .. Cardinality(Slots) /\ Cardinality(Slots) \in Nat
  <1>1. Cardinality(Slots) \in Nat
    BY NotifyListAssumption, FS_CardinalityType
  <1> QED
    BY <1>1, NotifyListAssumption DEF NULL

LEMMA ReachCloses ==
    ASSUME NEW list
    PROVE  /\ Closed(list, Reach(list))
           /\ Reach(list) \subseteq Allocated(list)
           /\ \A S \in SUBSET Allocated(list) :
                 Closed(list, S) => Reach(list) \subseteq S
  BY DEF Reach, Closed

(* One turn of a walk.                                                     *)
After(list, p) == IF p \in Allocated(list) THEN list.mem[p].next ELSE NULL

(* A walk goes from each object to the one its next leads to.              *)
LEMMA Walk ==
    ASSUME NEW list
    PROVE  /\ Cursor(list)[0] = list.first
           /\ \A k \in 1 .. Cardinality(Slots) :
                 Cursor(list)[k] = After(list, Cursor(list)[k - 1])
  <1> DEFINE N == Cardinality(Slots)
             Look(c, k) == IF k = 0 THEN list.first
                           ELSE IF c[k - 1] \in Allocated(list)
                           THEN list.mem[c[k - 1]].next ELSE NULL
             Walks(c, n) == c = [k \in 0 .. n |-> Look(c, k)]
             Bad == {n \in Nat : ~\E c : Walks(c, n)}
  <1>1. N \in Nat
    BY Addresses
  <1>2. Bad = {}
    <2> SUFFICES ASSUME Bad # {} PROVE FALSE
      OBVIOUS
    <2> DEFINE m == Min(Bad)
    <2>1. m \in Bad /\ \A x \in Bad : m <= x
      BY LeastTime
    <2> HIDE DEF m
    <2>2. m # 0
      <3> DEFINE c == [k \in 0 .. 0 |-> list.first]
      <3>1. c = [k \in 0 .. 0 |-> Look(c, k)]
        OBVIOUS
      <3>2. Walks(c, 0)
        BY <3>1
      <3> HIDE DEF Walks, c
      <3> QED
        BY <2>1, <3>2
    <2>3. m \in Nat /\ m - 1 \in Nat /\ m - 1 \notin Bad
      BY <2>1, <2>2
    <2>4. PICK c : Walks(c, m - 1)
      BY <2>3
    <2> DEFINE d == [k \in 0 .. m |-> IF k = m THEN After(list, c[m - 1])
                                      ELSE c[k]]
    <2>5. \A k \in 0 .. m : d[k] = Look(d, k)
      <3>1. \A k \in 0 .. m : k # 0 => k - 1 \in 0 .. m /\ k - 1 # m
        BY <2>3
      <3>2. \A k \in 0 .. m : k # m => k \in 0 .. m - 1
        BY <2>3
      <3>3. \A k \in 0 .. m - 1 : c[k] = Look(c, k)
        BY <2>4
      <3>4. d[m] = Look(d, m)
        BY <2>2, <2>3, <3>1 DEF After
      <3>5. ASSUME NEW k \in 0 .. m, k # m PROVE d[k] = Look(d, k)
        BY <3>1, <3>2, <3>3, <3>5
      <3> QED
        BY <3>4, <3>5
    <2>6. d = [k \in 0 .. m |-> d[k]]
      OBVIOUS
    <2> HIDE DEF d
    <2>7. Walks(d, m)
      BY <2>5, <2>6
    <2> HIDE DEF Walks
    <2> QED
      BY <2>1, <2>3, <2>7
  <1>3. \E c : Walks(c, N)
    BY <1>1, <1>2
  <1>4. Cursor(list) = CHOOSE c : Walks(c, N)
    BY DEF Cursor
  <1>5. Walks(Cursor(list), N)
    <2> HIDE DEF Walks
    <2> QED
      BY <1>3, <1>4
  <1>6. \A k \in 0 .. N : Cursor(list)[k] = Look(Cursor(list), k)
    BY <1>5
  <1>7. \A k \in 1 .. N : k \in 0 .. N /\ k # 0
    BY <1>1
  <1> QED
    BY <1>1, <1>6, <1>7, Addresses DEF After

(* So it comes by nothing else ...                                         *)
LEMMA WalkReaches ==
    ASSUME NEW list, NEW k \in 0 .. Cardinality(Slots),
           Cursor(list)[k] \in Allocated(list), Sound(list)
    PROVE  Cursor(list)[k] \in Reach(list)
  <1> DEFINE N == Cardinality(Slots)
             c == Cursor(list)
             Bad == {n \in 0 .. N : c[n] \in Allocated(list)
                                      /\ c[n] \notin Reach(list)}
  <1>1. N \in Nat /\ NULL \notin Allocated(list)
    BY Addresses DEF Sound
  <1>2. c[0] = list.first /\ \A n \in 1 .. N : c[n] = After(list, c[n - 1])
    BY Walk
  <1> HIDE DEF c
  <1>3. Bad = {}
    <2> SUFFICES ASSUME Bad # {} PROVE FALSE
      OBVIOUS
    <2> DEFINE m == Min(Bad)
    <2>1. m \in Bad /\ \A x \in Bad : m <= x
      BY <1>1, LeastTime
    <2> HIDE DEF m
    <2>2. m # 0
      BY <1>2, <2>1, ReachCloses DEF Closed
    <2>3. m \in 1 .. N /\ m - 1 \in 0 .. N /\ m - 1 \notin Bad
      BY <1>1, <2>1, <2>2
    <2>4. c[m] = After(list, c[m - 1])
      BY <1>2, <2>3
    <2>5. c[m - 1] \in Reach(list)
      BY <1>1, <2>1, <2>3, <2>4 DEF After
    <2> QED
      BY <2>1, <2>4, <2>5, ReachCloses DEF After, Closed
  <1> QED
    BY <1>3 DEF c

(* ... and by all of it: as many turns as there are addresses have come to *)
(* an end or to where they have been before.                               *)
LEMMA WalkComesBy ==
    ASSUME NEW list, Sound(list), NEW p \in Reach(list)
    PROVE  \E k \in 0 .. Cardinality(Slots) : Cursor(list)[k] = p
  <1> DEFINE N == Cardinality(Slots)
             c == Cursor(list)
             Stops(m) == \/ c[m] \notin Allocated(list)
                         \/ \E i \in 0 .. m - 1 : c[i] = c[m]
  <1>1. N \in Nat /\ NULL \notin Allocated(list)
    BY Addresses DEF Sound
  <1>2. c[0] = list.first /\ \A n \in 1 .. N : c[n] = After(list, c[n - 1])
    BY Walk
  <1> HIDE DEF c
  <1>3. \E m \in 0 .. N : Stops(m)
    <2> SUFFICES ASSUME \A m \in 0 .. N : c[m] \in Allocated(list)
                 PROVE  \E m \in 0 .. N : Stops(m)
      OBVIOUS
    <2> DEFINE f == [m \in 0 .. N |-> c[m]]
    <2>1. f \in [0 .. N -> Slots]
      BY DEF Sound
    <2>2. IsFiniteSet(0 .. N) /\ Cardinality(0 .. N) = N + 1
      BY <1>1, FS_Interval
    <2>3. IsFiniteSet(Slots) /\ Cardinality(Slots) < Cardinality(0 .. N)
      BY <1>1, <2>2, NotifyListAssumption
    <2> HIDE DEF f
    <2>4. \E x, y \in 0 .. N : x # y /\ f[x] = f[y]
      BY <2>1, <2>2, <2>3, FS_PigeonHole
    <2>5. PICK x, y \in 0 .. N : x # y /\ c[x] = c[y]
      BY <2>4 DEF f
    <2>6. CASE x < y
      <3>1. x \in 0 .. y - 1
        BY <1>1, <2>6
      <3> QED
        BY <2>5, <3>1
    <2>7. CASE y < x
      <3>1. y \in 0 .. x - 1
        BY <1>1, <2>7
      <3> QED
        BY <2>5, <3>1
    <2> QED
      BY <1>1, <2>5, <2>6, <2>7
  <1>4. PICK m \in 0 .. N : Stops(m)
    BY <1>3
  <1> DEFINE S == {c[i] : i \in 0 .. m - 1} \cap Allocated(list)
  <1>5. list.first \in Allocated(list) => list.first \in S
    <2>1. m # 0 => 0 \in 0 .. m - 1
      BY <1>1
    <2>2. m = 0 => 0 .. m - 1 = {}
      OBVIOUS
    <2> QED
      BY <1>2, <1>4, <2>1, <2>2
  <1>6. ASSUME NEW q \in S, list.mem[q].next \in Allocated(list)
        PROVE  list.mem[q].next \in S
    <2>1. PICK i \in 0 .. m - 1 : q = c[i]
      BY <1>6
    <2>2. /\ i + 1 \in 1 .. N /\ (i + 1) - 1 = i
          /\ i + 1 = m \/ i + 1 \in 0 .. m - 1
      BY <1>1, <2>1
    <2>3. c[i + 1] = list.mem[q].next
      BY <1>2, <1>6, <2>1, <2>2 DEF After
    <2> QED
      BY <1>4, <1>6, <2>2, <2>3
  <1>7. S \in SUBSET Allocated(list) /\ Closed(list, S)
    BY <1>5, <1>6 DEF Closed
  <1>8. p \in S
    BY <1>7, ReachCloses
  <1>9. \A i \in 0 .. m - 1 : i \in 0 .. N
    BY <1>1
  <1> QED
    BY <1>8, <1>9 DEF c

(* What the search finds.                                                  *)
LEMMA Finds ==
    ASSUME NEW list, Sound(list), NEW h
    PROVE  /\ notifylist_find(list, h) = NULL =>
                 \A p \in Reach(list) : list.mem[p].hostid # h
           /\ notifylist_find(list, h) # NULL =>
                 /\ notifylist_find(list, h) \in Reach(list)
                 /\ list.mem[notifylist_find(list, h)].hostid = h
  <1> DEFINE found == {k \in 0 .. Cardinality(Slots) :
                         /\ Cursor(list)[k] \in Allocated(list)
                         /\ list.mem[Cursor(list)[k]].hostid = h}
  <1>1. NULL \notin Allocated(list) /\ found \in SUBSET Nat
    BY Addresses DEF Sound
  <1>2. notifylist_find(list, h)
           = IF found = {} THEN NULL ELSE Cursor(list)[Min(found)]
    BY DEF notifylist_find
  <1>3. found # {} => Min(found) \in found
    BY <1>1, LeastTime
  <1>4. \A k \in found : /\ Cursor(list)[k] \in Reach(list)
                         /\ Cursor(list)[k] # NULL
    BY <1>1, WalkReaches
  <1>5. ASSUME NEW p \in Reach(list), list.mem[p].hostid = h
        PROVE  found # {}
    <2>1. PICK k \in 0 .. Cardinality(Slots) : Cursor(list)[k] = p
      BY WalkComesBy
    <2>2. p \in Allocated(list)
      BY ReachCloses
    <2> QED
      BY <1>5, <2>1, <2>2
  <1> DEFINE j == Min(found)
  <1> HIDE DEF j
  <1>6. CASE found = {}
    BY <1>2, <1>5, <1>6
  <1>7. CASE found # {}
    <2>1. j \in found
      BY <1>3, <1>7 DEF j
    <2>2. notifylist_find(list, h) = Cursor(list)[j]
      BY <1>2, <1>7 DEF j
    <2> QED
      BY <1>4, <2>1, <2>2
  <1> QED
    BY <1>6, <1>7

(* A list with the same ends and links as another comes by the same.        *)
LEMMA MapReaches ==
    ASSUME NEW list, Sound(list), NEW m \in [Allocated(list) -> Notification],
           \A p \in Allocated(list) : m[p].next = list.mem[p].next,
           NEW new, new = [list EXCEPT !.mem = m]
    PROVE  /\ Sound(new) /\ Allocated(new) = Allocated(list) /\ new.mem = m
           /\ Reach(new) = Reach(list)
  <1>1. new = [first |-> list.first, last |-> list.last, mem |-> m]
    BY DEF Sound
  <1>2. Allocated(new) = Allocated(list)
    BY <1>1 DEF Allocated
  <1>3. Sound(new)
    BY <1>1, <1>2 DEF Sound
  <1>4. new.first = list.first /\ new.mem = m
    BY <1>1
  <1>5. \A S \in SUBSET Allocated(list) : Closed(new, S) <=> Closed(list, S)
    BY <1>2, <1>4 DEF Closed
  <1> QED
    BY <1>2, <1>3, <1>4, <1>5 DEF Reach

(* The notification at an address is another one.                           *)
Changed(list, p, n) == [list EXCEPT !.mem = [list.mem EXCEPT ![p] = n]]

LEMMA ChangeReaches ==
    ASSUME NEW list, Sound(list), NEW p \in Allocated(list),
           NEW n \in Notification, n.next = list.mem[p].next
    PROVE  /\ Sound(Changed(list, p, n)) /\ Changed(list, p, n).mem[p] = n
           /\ Allocated(Changed(list, p, n)) = Allocated(list)
           /\ \A q \in Allocated(list) \ {p} :
                 Changed(list, p, n).mem[q] = list.mem[q]
           /\ Reach(Changed(list, p, n)) = Reach(list)
  <1> DEFINE m == [list.mem EXCEPT ![p] = n]
  <1>1. /\ m \in [Allocated(list) -> Notification] /\ m[p] = n
        /\ \A q \in Allocated(list) \ {p} : m[q] = list.mem[q]
    BY DEF Sound
  <1>2. \A q \in Allocated(list) : m[q].next = list.mem[q].next
    BY <1>1
  <1>3. Changed(list, p, n) = [list EXCEPT !.mem = m]
    BY DEF Changed
  <1> HIDE DEF m
  <1> QED
    BY <1>1, <1>2, <1>3, MapReaches

(* Assigning to next and prev leaves what is said of the host.              *)
SameSaid(f, g) ==
    \A p \in DOMAIN f : f[p].hostid = g[p].hostid /\ f[p].status = g[p].status

LEMMA Assignments ==
    ASSUME NEW A, NEW f \in [A -> Notification], NEW p,
           NEW q \in Slots \cup {NULL}
    PROVE  /\ SetNext(f, p, q) \in [A -> Notification]
           /\ SameSaid(SetNext(f, p, q), f)
           /\ \A r \in A : SetNext(f, p, q)[r].next
                             = IF r = p THEN q ELSE f[r].next
           /\ SetPrev(f, p, q) \in [A -> Notification]
           /\ SameSaid(SetPrev(f, p, q), f)
           /\ \A r \in A : SetPrev(f, p, q)[r].next = f[r].next
  <1>1. \A n \in Notification :
           LET x == [n EXCEPT !.next = q]
           IN  /\ x \in Notification /\ x.hostid = n.hostid
               /\ x.status = n.status /\ x.next = q
    BY DEF Notification
  <1>2. \A n \in Notification :
           LET x == [n EXCEPT !.prev = q]
           IN  /\ x \in Notification /\ x.hostid = n.hostid
               /\ x.status = n.status /\ x.next = n.next
    BY DEF Notification
  <1>3. CASE p \in A
    <2>1. SetNext(f, p, q) = [f EXCEPT ![p] = [f[p] EXCEPT !.next = q]]
          /\ SetPrev(f, p, q) = [f EXCEPT ![p] = [f[p] EXCEPT !.prev = q]]
      BY <1>3 DEF SetNext, SetPrev
    <2> DEFINE x == [f[p] EXCEPT !.next = q]
               y == [f[p] EXCEPT !.prev = q]
    <2>2. /\ x \in Notification /\ x.hostid = f[p].hostid
          /\ x.status = f[p].status /\ x.next = q
          /\ y \in Notification /\ y.hostid = f[p].hostid
          /\ y.status = f[p].status /\ y.next = f[p].next
      BY <1>1, <1>2, <1>3
    <2> HIDE DEF x, y
    <2>3. SetNext(f, p, q) = [f EXCEPT ![p] = x]
          /\ SetPrev(f, p, q) = [f EXCEPT ![p] = y]
      BY <2>1 DEF x, y
    <2> QED
      BY <1>3, <2>2, <2>3 DEF SameSaid
  <1>4. CASE p \notin A
    <2>1. SetNext(f, p, q) = f /\ SetPrev(f, p, q) = f
      BY <1>4 DEF SetNext, SetPrev
    <2> QED
      BY <1>4, <2>1 DEF SameSaid
  <1> QED
    BY <1>3, <1>4

(* A new object is all that linking it adds: it may take what came after   *)
(* the last one out of reach, but brings nothing back.                     *)
LEMMA LinkReaches ==
    ASSUME NEW list, Sound(list), NEW q \in Slots \ Allocated(list),
           NEW n \in Notification,
           NEW new, new = notifylist_link(list, q, n)
    PROVE  /\ Sound(new) /\ Allocated(new) = Allocated(list) \cup {q}
           /\ Reach(new) \subseteq Reach(list) \cup {q}
           /\ \A p \in Allocated(list) :
                 /\ new.mem[p].hostid = list.mem[p].hostid
                 /\ new.mem[p].status = list.mem[p].status
           /\ new.mem[q].hostid = n.hostid /\ new.mem[q].status = n.status
  <1> DEFINE A == Allocated(list) \cup {q}
             own == [n EXCEPT !.next = NULL, !.prev = list.last]
             f == [p \in A |-> IF p = q THEN own ELSE list.mem[p]]
  <1>1. NULL \notin Slots /\ NULL \notin A
    BY Addresses DEF Sound
  <1>2. own \in Notification /\ own.next = NULL /\ own.hostid = n.hostid
        /\ own.status = n.status
    BY DEF Notification, Sound
  <1> HIDE DEF own
  <1>3. f \in [A -> Notification] /\ f[q] = own
        /\ \A p \in Allocated(list) : f[p] = list.mem[p]
    BY <1>2 DEF Sound
  <1> HIDE DEF f
  <1> DEFINE g == SetNext(f, list.last, q)
  <1>4. /\ g \in [A -> Notification] /\ SameSaid(g, f)
        /\ \A r \in A : g[r].next = IF r = list.last THEN q ELSE f[r].next
    BY <1>3, Assignments
  <1>5. /\ new.first \in {list.first, q} /\ new.last \in Slots \cup {NULL}
        /\ new = [first |-> new.first, last |-> new.last, mem |-> new.mem]
        /\ new.mem \in {f, g}
    <2>1. new = IF list.last # NULL THEN [list EXCEPT !.mem = g]
                ELSE [list EXCEPT !.mem = f, !.first = q, !.last = q]
      BY DEF notifylist_link, f, own
    <2> HIDE DEF g
    <2> QED
      BY <2>1 DEF Sound
  <1> HIDE DEF g
  <1>6. /\ new.mem \in [A -> Notification]
        /\ \A p \in A : /\ new.mem[p].hostid = f[p].hostid
                        /\ new.mem[p].status = f[p].status
                        /\ new.mem[p].next \in {f[p].next, q}
    BY <1>3, <1>4, <1>5 DEF SameSaid
  <1>7. Allocated(new) = A
    BY <1>6 DEF Allocated
  <1>8. Sound(new)
    <2>1. A \subseteq Slots
      BY DEF Sound
    <2> QED
      BY <1>5, <1>6, <1>7, <2>1 DEF Sound
  <1> DEFINE S == Reach(list) \cup {q}
  <1>9. Closed(new, S)
    <2>1. new.first \in Allocated(new) => new.first \in S
      BY <1>5, <1>7, ReachCloses DEF Closed
    <2>2. ASSUME NEW p \in S, new.mem[p].next \in Allocated(new)
          PROVE  new.mem[p].next \in S
      <3>1. p \in A
        BY ReachCloses
      <3>2. CASE p = q
        BY <1>1, <1>2, <1>3, <1>6, <1>7, <2>2, <3>1, <3>2
      <3>3. CASE p # q
        <4>1. p \in Reach(list) /\ p \in Allocated(list)
          BY <3>3, ReachCloses
        <4>2. new.mem[p].next \in {list.mem[p].next, q}
          BY <1>3, <1>6, <3>1, <4>1
        <4> QED
          BY <1>7, <2>2, <4>1, <4>2, ReachCloses DEF Closed
      <3> QED
        BY <3>2, <3>3
    <2> QED
      BY <2>1, <2>2 DEF Closed
  <1>10. S \in SUBSET Allocated(new)
    BY <1>7, ReachCloses
  <1>11. Reach(new) \subseteq S
    BY <1>9, <1>10, ReachCloses
  <1> QED
    BY <1>2, <1>3, <1>6, <1>7, <1>8, <1>11

(* Nor does removing one.                                                  *)
LEMMA RemoveReaches ==
    ASSUME NEW list, Sound(list), NEW p \in Reach(list),
           NEW new, new = notifylist_remove(list, p)
    PROVE  /\ Sound(new) /\ Allocated(new) = Allocated(list) \ {p}
           /\ Reach(new) \subseteq Reach(list) \ {p}
           /\ \A q \in Allocated(new) :
                 /\ new.mem[q].hostid = list.mem[q].hostid
                 /\ new.mem[q].status = list.mem[q].status
  <1> DEFINE A == Allocated(list) \ {p}
             n == list.mem[p]
             f == [q \in A |-> list.mem[q]]
             g == SetNext(f, n.prev, n.next)
             m == SetPrev(g, n.next, n.prev)
  <1>1. p \in Allocated(list) /\ A \subseteq Slots
    BY ReachCloses DEF Sound
  <1>2. n \in Notification /\ n.next \in Slots \cup {NULL}
        /\ n.prev \in Slots \cup {NULL}
    BY <1>1 DEF Sound, Notification
  <1>3. new = [first |-> IF n.prev = NULL THEN n.next ELSE list.first,
               last |-> IF n.next # NULL THEN list.last ELSE n.prev,
               mem |-> m]
    BY DEF notifylist_remove
  <1> HIDE DEF n
  <1>4. f \in [A -> Notification] /\ \A q \in A : f[q] = list.mem[q]
    BY DEF Sound
  <1> HIDE DEF f
  <1>5. /\ g \in [A -> Notification] /\ SameSaid(g, f)
        /\ \A r \in A : g[r].next = IF r = n.prev THEN n.next ELSE f[r].next
    BY <1>2, <1>4, Assignments
  <1> HIDE DEF g
  <1>6. /\ m \in [A -> Notification] /\ SameSaid(m, g)
        /\ \A r \in A : m[r].next = g[r].next
    BY <1>2, <1>5, Assignments
  <1> HIDE DEF m
  <1>7. /\ new.mem = m /\ new.first \in {n.next, list.first}
        /\ new.last \in Slots \cup {NULL}
        /\ new = [first |-> new.first, last |-> new.last, mem |-> new.mem]
    BY <1>2, <1>3 DEF Sound
  <1>8. Allocated(new) = A
    BY <1>6, <1>7 DEF Allocated
  <1>9. new.first \in Slots \cup {NULL}
    BY <1>2, <1>7 DEF Sound
  <1>10. Sound(new)
    BY <1>1, <1>6, <1>7, <1>8, <1>9 DEF Sound
  <1>11. \A q \in A : /\ m[q].hostid = list.mem[q].hostid
                      /\ m[q].status = list.mem[q].status
                      /\ m[q].next \in {n.next, list.mem[q].next}
    BY <1>4, <1>5, <1>6 DEF SameSaid
  <1> DEFINE S == Reach(list) \ {p}
  <1>12. n.next \in A => n.next \in S
    BY <1>1, ReachCloses DEF n, Closed
  <1>13. Closed(new, S)
    <2>1. new.first \in A => new.first \in S
      BY <1>7, <1>12, ReachCloses DEF Closed
    <2>2. ASSUME NEW q \in S, m[q].next \in A
          PROVE  m[q].next \in S
      BY <1>11, <1>12, <2>2, ReachCloses DEF Closed
    <2> QED
      BY <1>7, <1>8, <2>1, <2>2 DEF Closed
  <1>14. S \in SUBSET Allocated(new)
    BY <1>8, ReachCloses
  <1>15. Reach(new) \subseteq S
    BY <1>13, <1>14, ReachCloses
  <1> QED
    BY <1>7, <1>8, <1>10, <1>11, <1>15

(* What becomes of a notification that is there already.                   *)
LEMMA Requeued ==
    ASSUME NEW list, Sound(list), NEW p \in Allocated(list),
           NEW isproblem \in BOOLEAN
    PROVE  \/ Requeue(list, p, isproblem) = list
           \/ Requeue(list, p, isproblem) = notifylist_remove(list, p)
           \/ \E n \in Notification :
                /\ n.hostid = list.mem[p].hostid
                /\ n.status = list.mem[p].status
                /\ n.next = list.mem[p].next
                /\ Requeue(list, p, isproblem) = Changed(list, p, n)
  <1> DEFINE f == list.mem
             e == [f[p] EXCEPT !.age = 0]
             n == [e EXCEPT !.notified = FALSE]
             half == [list EXCEPT !.mem = [f EXCEPT ![p] = e]]
  <1>1. f[p] \in Notification
    BY DEF Sound
  <1>2. /\ n \in Notification /\ n.hostid = f[p].hostid
        /\ n.status = f[p].status /\ n.next = f[p].next
    <2>1. 0 \in 0 .. MaxAge
      BY NotifyListAssumption DEF MaxAge
    <2>2. \A x \in Notification :
             LET y == [x EXCEPT !.age = 0]
             IN  /\ y \in Notification /\ y.hostid = x.hostid
                 /\ y.status = x.status /\ y.next = x.next
      BY <2>1 DEF Notification
    <2>3. \A x \in Notification :
             LET y == [x EXCEPT !.notified = FALSE]
             IN  /\ y \in Notification /\ y.hostid = x.hostid
                 /\ y.status = x.status /\ y.next = x.next
      BY DEF Notification
    <2> QED
      BY <1>1, <2>2, <2>3
  <1>3. half.mem = [f EXCEPT ![p] = e] /\ half.mem[p] = e
    BY DEF Sound, Allocated
  <1>4. [half EXCEPT !.mem = [half.mem EXCEPT ![p] = n]]
          = [list EXCEPT !.mem = [f EXCEPT ![p] = n]]
    <2> HIDE DEF n
    <2>1. [half.mem EXCEPT ![p] = n] = [f EXCEPT ![p] = n]
      BY <1>3
    <2> HIDE DEF f
    <2> DEFINE g == [f EXCEPT ![p] = n]
    <2> HIDE DEF g
    <2>2. [half EXCEPT !.mem = g] = [list EXCEPT !.mem = g]
      OBVIOUS
    <2> QED
      BY <2>1, <2>2 DEF g
  <1>5. [list EXCEPT !.mem[p].age = 0, !.mem[p].notified = FALSE] =
        [half EXCEPT !.mem = [half.mem EXCEPT ![p] =
            [half.mem[p] EXCEPT !.notified = FALSE]]]
    OBVIOUS
  <1>6. f[p].isproblem \in BOOLEAN
    BY <1>1 DEF Notification
  <1>7. [list EXCEPT !.mem[p].age = 0, !.mem[p].notified = FALSE] =
        [list EXCEPT !.mem = [f EXCEPT ![p] = n]]
    <2> HIDE DEF e
    <2>1. [half.mem[p] EXCEPT !.notified = FALSE] = n
      BY <1>3
    <2> HIDE DEF n, half
    <2> QED
      BY <2>1, <1>4, <1>5
  <1> HIDE DEF n, half, e
  <1>8. CASE f[p].isproblem = isproblem
    BY <1>8 DEF Requeue
  <1>9. CASE f[p].isproblem # isproblem /\ f[p].isproblem /\ ~f[p].notified
    BY <1>6, <1>9 DEF Requeue
  <1>10. CASE /\ f[p].isproblem # isproblem
              /\ ~(f[p].isproblem /\ ~f[p].notified)
    BY <1>2, <1>7, <1>10 DEF Requeue, Changed
  <1> QED
    BY <1>8, <1>9, <1>10

(* A host's status is s now.  Of those that are in reach, that host's      *)
(* notification says so, and the others are what they were.                *)
LEMMA TellsOfChange ==
    ASSUME NotifyInv, NEW h \in Hosts, NEW s \in Statuses, Sound(notify'),
           hoststatus' = [hoststatus EXCEPT ![h] = s],
           \A p, q \in Reach(notify') :
              notify'.mem[p].hostid = h /\ notify'.mem[q].hostid = h => p = q,
           \A p \in Reach(notify') :
              notify'.mem[p].hostid = h => notify'.mem[p].status = s,
           \A p \in Reach(notify') : notify'.mem[p].hostid # h =>
              /\ p \in Reach(notify)
              /\ notify'.mem[p].hostid = notify.mem[p].hostid
              /\ notify'.mem[p].status = notify.mem[p].status
    PROVE  NotifyInv'
  <1>1. /\ hoststatus' \in [Hosts -> Statuses] /\ hoststatus'[h] = s
        /\ \A g \in Hosts : g # h => hoststatus'[g] = hoststatus[g]
    BY DEF NotifyInv
  <1>2. \A p \in Reach(notify) : notify.mem[p].hostid \in Hosts
    BY ReachCloses DEF NotifyInv, Sound, Notification
  <1>3. \A p, q \in Reach(notify') :
           notify'.mem[p].hostid = notify'.mem[q].hostid => p = q
    BY DEF NotifyInv, Tells
  <1>4. ASSUME NEW p \in Reach(notify'),
               hoststatus'[notify'.mem[p].hostid] # "UNSET"
        PROVE  notify'.mem[p].status = hoststatus'[notify'.mem[p].hostid]
    BY <1>1, <1>2, <1>4 DEF NotifyInv, Tells
  <1> QED
    BY <1>1, <1>3, <1>4 DEF NotifyInv, Tells

(* The watcher sees a change.                                              *)
LEMMA WatchStep ==
    ASSUME NotifyInv, NEW h \in Hosts, NEW s \in Statuses, Watch(h, s)
    PROVE  NotifyInv'
  <1> DEFINE found == notifylist_find(notify, h)
             isproblem == s \in Trouble
  <1>1. /\ notify' \in tenant_set_notification(notify, isproblem, s, h)
        /\ hoststatus' = [hoststatus EXCEPT ![h] = s]
    BY DEF Watch
  <1>2. Sound(notify) /\ Tells(notify)
    BY DEF NotifyInv
  <1>3. isproblem \in BOOLEAN
    OBVIOUS
  <1>4. CASE found = NULL
    <2>1. \A p \in Reach(notify) : notify.mem[p].hostid # h
      BY <1>2, <1>4, Finds
    <2>2. CASE isproblem
      <3> DEFINE n == notification_create(h, s, isproblem)
      <3>1. PICK q \in Slots \ Allocated(notify) :
               notify' = notifylist_link(notify, q, n)
        BY <1>1, <1>4, <2>2 DEF tenant_set_notification
      <3>2. n \in Notification /\ n.hostid = h /\ n.status = s
        BY <2>2, NotifyListAssumption
           DEF notification_create, Notification, MaxAge
      <3> HIDE DEF n
      <3>3. /\ Sound(notify')
            /\ Reach(notify') \subseteq Reach(notify) \cup {q}
            /\ \A p \in Allocated(notify) :
                  /\ notify'.mem[p].hostid = notify.mem[p].hostid
                  /\ notify'.mem[p].status = notify.mem[p].status
            /\ notify'.mem[q].hostid = h /\ notify'.mem[q].status = s
        BY <1>2, <3>1, <3>2, LinkReaches
      <3>4. \A p \in Reach(notify') : p # q =>
               /\ p \in Reach(notify)
               /\ notify'.mem[p].hostid = notify.mem[p].hostid
               /\ notify'.mem[p].status = notify.mem[p].status
               /\ notify'.mem[p].hostid # h
        BY <2>1, <3>3, ReachCloses
      <3>5. \A p \in Reach(notify') : notify'.mem[p].hostid = h => p = q
        BY <3>4
      <3>6. /\ \A p, r \in Reach(notify') :
                  notify'.mem[p].hostid = h /\ notify'.mem[r].hostid = h
                    => p = r
            /\ \A p \in Reach(notify') :
                  notify'.mem[p].hostid = h => notify'.mem[p].status = s
            /\ \A p \in Reach(notify') : notify'.mem[p].hostid # h =>
                  /\ p \in Reach(notify)
                  /\ notify'.mem[p].hostid = notify.mem[p].hostid
                  /\ notify'.mem[p].status = notify.mem[p].status
        BY <3>3, <3>4, <3>5
      <3>7. hoststatus' = [hoststatus EXCEPT ![h] = s]
        BY <1>1
      <3> HIDE DEF found, isproblem
      <3> QED
        BY <3>3, <3>6, <3>7, TellsOfChange
    <2>3. CASE ~isproblem
      <3>1. notify' = notify
        BY <1>1, <1>4, <2>3 DEF tenant_set_notification
      <3>2. Sound(notify') /\ Reach(notify') = Reach(notify)
        BY <1>2, <3>1
      <3>3. \A p \in Reach(notify') : notify'.mem[p].hostid # h
        BY <2>1, <3>1
      <3>4. /\ \A p, r \in Reach(notify') :
                  notify'.mem[p].hostid = h /\ notify'.mem[r].hostid = h
                    => p = r
            /\ \A p \in Reach(notify') :
                  notify'.mem[p].hostid = h => notify'.mem[p].status = s
            /\ \A p \in Reach(notify') : notify'.mem[p].hostid # h =>
                  /\ p \in Reach(notify)
                  /\ notify'.mem[p].hostid = notify.mem[p].hostid
                  /\ notify'.mem[p].status = notify.mem[p].status
        BY <3>1, <3>2, <3>3
      <3> HIDE DEF found, isproblem
      <3>5. hoststatus' = [hoststatus EXCEPT ![h] = s]
        BY <1>1
      <3> QED
        BY <3>2, <3>4, <3>5, TellsOfChange
    <2> QED
      BY <2>2, <2>3
  <1>5. CASE found # NULL
    <2> DEFINE p == found
               m == UpdateStatus(notify.mem[p], s)
               list == [notify EXCEPT !.mem[p] = UpdateStatus(@, s)]
    <2>1. p \in Reach(notify) /\ notify.mem[p].hostid = h
      BY <1>2, <1>5, Finds
    <2>2. p \in Allocated(notify) /\ notify.mem[p] \in Notification
      BY <1>2, <2>1, ReachCloses DEF Sound
    <2>3. notify' = Requeue(list, p, isproblem)
      BY <1>1, <1>5 DEF tenant_set_notification
    <2> HIDE DEF p, isproblem
    <2>4. /\ m \in Notification /\ m.hostid = h /\ m.status = s
          /\ m.next = notify.mem[p].next
      BY <2>1, <2>2 DEF UpdateStatus, Notification
    <2>5. list = Changed(notify, p, m)
      BY DEF Changed
    <2> HIDE DEF list, m
    <2>6. /\ Sound(list) /\ Allocated(list) = Allocated(notify)
          /\ Reach(list) = Reach(notify) /\ list.mem[p] = m
          /\ \A q \in Allocated(notify) \ {p} : list.mem[q] = notify.mem[q]
      BY <1>2, <2>2, <2>4, <2>5, ChangeReaches
    <2>7. \A q \in Reach(notify) : q # p => notify.mem[q].hostid # h
      BY <1>2, <2>1 DEF Tells
    <2>8. ASSUME Sound(notify'), Reach(notify') \subseteq Reach(list),
                 \A q \in Reach(notify') :
                    /\ notify'.mem[q].hostid = list.mem[q].hostid
                    /\ notify'.mem[q].status = list.mem[q].status
          PROVE  NotifyInv'
      <3>1. \A q \in Reach(notify') : q # p =>
               /\ q \in Reach(notify)
               /\ notify'.mem[q].hostid = notify.mem[q].hostid
               /\ notify'.mem[q].status = notify.mem[q].status
               /\ notify'.mem[q].hostid # h
        BY <2>6, <2>7, <2>8, ReachCloses
      <3>2. p \in Reach(notify') =>
               notify'.mem[p].hostid = h /\ notify'.mem[p].status = s
        BY <2>4, <2>6, <2>8
      <3>3. \A q \in Reach(notify') : notify'.mem[q].hostid = h => q = p
        BY <3>1
      <3>4. /\ \A q, r \in Reach(notify') :
                  notify'.mem[q].hostid = h /\ notify'.mem[r].hostid = h
                    => q = r
            /\ \A q \in Reach(notify') :
                  notify'.mem[q].hostid = h => notify'.mem[q].status = s
            /\ \A q \in Reach(notify') : notify'.mem[q].hostid # h =>
                  /\ q \in Reach(notify)
                  /\ notify'.mem[q].hostid = notify.mem[q].hostid
                  /\ notify'.mem[q].status = notify.mem[q].status
        BY <3>1, <3>2, <3>3
      <3> QED
        BY <1>1, <2>8, <3>4, TellsOfChange
    <2>9. CASE notify' = list
      BY <2>6, <2>8, <2>9
    <2>10. CASE notify' = notifylist_remove(list, p)
      <3>1. p \in Reach(list)
        BY <2>1, <2>6
      <3>2. /\ Sound(notify') /\ Reach(notify') \subseteq Reach(list)
            /\ \A q \in Allocated(notify') :
                  /\ notify'.mem[q].hostid = list.mem[q].hostid
                  /\ notify'.mem[q].status = list.mem[q].status
        BY <2>6, <2>10, <3>1, RemoveReaches
      <3> QED
        BY <2>8, <3>2, ReachCloses
    <2>11. ASSUME NEW n \in Notification, n.hostid = list.mem[p].hostid,
                  n.status = list.mem[p].status, n.next = list.mem[p].next,
                  notify' = Changed(list, p, n)
           PROVE  NotifyInv'
      <3>1. p \in Allocated(list)
        BY <2>2, <2>6
      <3>2. /\ Sound(notify') /\ Reach(notify') = Reach(list)
            /\ notify'.mem[p] = n
            /\ \A q \in Allocated(list) \ {p} : notify'.mem[q] = list.mem[q]
        BY <2>6, <2>11, <3>1, ChangeReaches
      <3>3. \A q \in Reach(notify') :
               /\ notify'.mem[q].hostid = list.mem[q].hostid
               /\ notify'.mem[q].status = list.mem[q].status
        BY <2>11, <3>2, ReachCloses
      <3> QED
        BY <2>8, <3>2, <3>3
    <2>12. \/ notify' = list
           \/ notify' = notifylist_remove(list, p)
           \/ \E n \in Notification :
                /\ n.hostid = list.mem[p].hostid
                /\ n.status = list.mem[p].status
                /\ n.next = list.mem[p].next
                /\ notify' = Changed(list, p, n)
      <3>1. p \in Allocated(list)
        BY <2>2, <2>6
      <3> QED
        BY <1>3, <2>3, <2>6, <3>1, Requeued DEF isproblem
    <2> QED
      BY <2>9, <2>10, <2>11, <2>12
  <1> QED
    BY <1>4, <1>5

(* The watcher gives a host up.                                            *)
LEMMA RemoveStep ==
    ASSUME NotifyInv, NEW h \in Hosts, RemoveHost(h)
    PROVE  NotifyInv'
  <1>1. /\ notify' = notify
        /\ hoststatus' = [hoststatus EXCEPT ![h] = "UNSET"]
    BY DEF RemoveHost
  <1>2. /\ hoststatus' \in [Hosts -> Statuses] /\ hoststatus'[h] = "UNSET"
        /\ \A g \in Hosts : g # h => hoststatus'[g] = hoststatus[g]
    BY <1>1, TroubleAssumption DEF NotifyInv
  <1>3. \A p \in Reach(notify) : notify.mem[p].hostid \in Hosts
    BY ReachCloses DEF NotifyInv, Sound, Notification
  <1> QED
    BY <1>1, <1>2, <1>3 DEF NotifyInv, Tells

(* A step that only touches what the notifications say of time.            *)
LEMMA TimeStep ==
    ASSUME NotifyInv, NEW m \in [Allocated(notify) -> Notification],
           notify' = [notify EXCEPT !.mem = m],
           \A p \in Allocated(notify) :
              /\ m[p].hostid = notify.mem[p].hostid
              /\ m[p].status = notify.mem[p].status
              /\ m[p].next = notify.mem[p].next,
           UNCHANGED hoststatus
    PROVE  NotifyInv'
  <1>1. Sound(notify)
    BY DEF NotifyInv
  <1>2. /\ Sound(notify') /\ Reach(notify') = Reach(notify)
        /\ notify'.mem = m
    BY <1>1, MapReaches
  <1>3. Reach(notify) \subseteq Allocated(notify)
    BY ReachCloses
  <1> QED
    BY <1>2, <1>3 DEF NotifyInv, Tells

(* The overview thread makes up a message.                                 *)
LEMMA CheckStep ==
    ASSUME NotifyInv, tenant_check_notification
    PROVE  NotifyInv'
  <1> DEFINE due == IF notifylist_check_actionable(notify)
                    THEN notifylist_find_overdue(notify) ELSE {}
             m == [p \in Allocated(notify) |->
                     IF p \in due
                     THEN [notify.mem[p] EXCEPT !.notified = TRUE]
                     ELSE notify.mem[p]]
  <1>1. notify' = [notify EXCEPT !.mem = m] /\ UNCHANGED hoststatus
    BY DEF tenant_check_notification
  <1> HIDE DEF due
  <1>2. \A x \in Notification :
           LET y == [x EXCEPT !.notified = TRUE]
           IN  /\ y \in Notification /\ y.hostid = x.hostid
               /\ y.status = x.status /\ y.next = x.next
    BY DEF Notification
  <1>3. \A p \in Allocated(notify) : notify.mem[p] \in Notification
    BY DEF NotifyInv, Sound
  <1>4. \A p \in Allocated(notify) :
          /\ m[p] \in Notification /\ m[p].hostid = notify.mem[p].hostid
          /\ m[p].status = notify.mem[p].status
          /\ m[p].next = notify.mem[p].next
    BY <1>2, <1>3
  <1>5. m \in [Allocated(notify) -> Notification]
    BY <1>4
  <1> HIDE DEF m
  <1> QED
    BY <1>1, <1>4, <1>5, TimeStep

(* A unit of time passes.                                                  *)
LEMMA TickStep ==
    ASSUME NotifyInv, NotifyTick
    PROVE  NotifyInv'
  <1> DEFINE older(x) == [x EXCEPT !.age = IF @ = MaxAge THEN @ ELSE @ + 1]
             m == [p \in Allocated(notify) |-> older(notify.mem[p])]
  <1>1. notify' = [notify EXCEPT !.mem = m] /\ UNCHANGED hoststatus
    BY DEF NotifyTick, Older
  <1>2. ASSUME NEW x \in Notification
        PROVE  /\ older(x) \in Notification /\ older(x).hostid = x.hostid
               /\ older(x).status = x.status /\ older(x).next = x.next
    <2>1. MaxAge \in Nat /\ x.age \in 0 .. MaxAge
      BY NotifyListAssumption DEF Notification, MaxAge
    <2>2. (IF x.age = MaxAge THEN x.age ELSE x.age + 1) \in 0 .. MaxAge
      BY <2>1
    <2> QED
      BY <2>2 DEF Notification
  <1>3. \A p \in Allocated(notify) : notify.mem[p] \in Notification
    BY DEF NotifyInv, Sound
  <1>4. \A p \in Allocated(notify) : m[p] = older(notify.mem[p])
    OBVIOUS
  <1>5. m = [p \in Allocated(notify) |-> m[p]]
    OBVIOUS
  <1> HIDE DEF m, older
  <1>6. \A p \in Allocated(notify) :
          /\ m[p] \in Notification /\ m[p].hostid = notify.mem[p].hostid
          /\ m[p].status = notify.mem[p].status
          /\ m[p].next = notify.mem[p].next
    BY <1>2, <1>3, <1>4
  <1>7. m \in [Allocated(notify) -> Notification]
    BY <1>5, <1>6
  <1> QED
    BY <1>1, <1>6, <1>7, TimeStep

(* A list of nothing.                                                      *)
LEMMA Nothing ==
    Sound(notifylist_init) /\ Reach(notifylist_init) = {}
  <1>1. Allocated(notifylist_init) = {}
    BY DEF notifylist_init, Allocated
  <1>2. notifylist_init.mem = [p \in {} |-> notifylist_init.mem[p]]
    BY DEF notifylist_init
  <1>3. Reach(notifylist_init) = {}
    BY <1>1, ReachCloses
  <1> QED
    BY <1>1, <1>2, <1>3 DEF Sound, notifylist_init

(* The collector starts again.                                             *)
LEMMA RestartStep ==
    ASSUME NotifyInv, NEW back \in SUBSET Hosts, CollectorRestart(back)
    PROVE  NotifyInv'
  <1>1. /\ notify' = notifylist_init
        /\ hoststatus' =
             [h \in Hosts |-> IF h \in back THEN hoststatus[h] ELSE "UNSET"]
    BY DEF CollectorRestart
  <1>2. hoststatus' \in [Hosts -> Statuses]
    BY <1>1, TroubleAssumption DEF NotifyInv
  <1>3. Sound(notify') /\ Reach(notify') = {}
    BY <1>1, Nothing
  <1> QED
    BY <1>2, <1>3 DEF NotifyInv, Tells

(* Every step keeps it.                                                    *)
LEMMA NotifyKeeps ==
    ASSUME NotifyInv, [NotifyNext]_notifyVars
    PROVE  NotifyInv'
  <1>1. CASE \E h \in Hosts, s \in Statuses : Watch(h, s)
    BY <1>1, WatchStep
  <1>2. CASE \E h \in Hosts : RemoveHost(h)
    BY <1>2, RemoveStep
  <1>3. CASE tenant_check_notification
    BY <1>3, CheckStep
  <1>4. CASE NotifyTick
    BY <1>4, TickStep
  <1>5. CASE \E back \in SUBSET Hosts : CollectorRestart(back)
    BY <1>5, RestartStep
  <1>6. CASE UNCHANGED notifyVars
    <2>1. notify' = notify /\ hoststatus' = hoststatus
      BY <1>6 DEF notifyVars
    <2> QED
      BY <2>1 DEF NotifyInv, Tells
  <1> QED
    BY <1>1, <1>2, <1>3, <1>4, <1>5, <1>6 DEF NotifyNext

(* tenant_set_notification leaves no old status in a notification that     *)
(* notifylist_find finds, in whatever order the hosts of a tenant come     *)
(* into trouble and out of it: the objects that notifylist_link loses are  *)
(* never found again, and no host is in the list twice.                    *)
THEOREM ListedStatusStaysCurrent == NotifySpec => []ListedStatusIsCurrent
  <1>1. NotifyInit => NotifyInv
    <2> SUFFICES ASSUME NotifyInit PROVE NotifyInv
      OBVIOUS
    <2>1. hoststatus \in [Hosts -> Statuses]
      BY TroubleAssumption DEF NotifyInit
    <2>2. Sound(notify) /\ Reach(notify) = {}
      BY Nothing DEF NotifyInit
    <2> QED
      BY <2>1, <2>2 DEF NotifyInv, Tells
  <1>2. NotifyInv /\ [NotifyNext]_notifyVars => NotifyInv'
    BY NotifyKeeps
  <1>3. NotifyInv => ListedStatusIsCurrent
    BY Finds DEF NotifyInv, Tells, ListedStatusIsCurrent
  <1> QED
    BY <1>1, <1>2, <1>3, PTL DEF NotifySpec
==============================================================================
