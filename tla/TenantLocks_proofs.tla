------------------------- MODULE TenantLocks_proofs -------------------------
(***************************************************************************)
(* Proofs about TenantLocks, for any tenants, hosts and ways hosts belong  *)
(* to tenants, and any number of removals and returns.  That no threads    *)
(* wait for each other is proved for read locks that do not wait for       *)
(* waiting writers, glibc's default.                                       *)
(***************************************************************************)
EXTENDS TenantLocks, SequenceTheorems, TLAPS

------------------------------------------------------------------------------
(* Lists without repetitions. *)

Distinct(s) == \A i, j \in 1 .. Len(s) : s[i] = s[j] => i = j

(* The least of one. *)
LEMMA MinOfOne ==
    ASSUME NEW k \in Int
    PROVE  Min({k}) = k
  BY DEF Min

(* The place of an element of such a list.                                 *)
LEMMA PlaceInList ==
    ASSUME NEW S, NEW s \in Seq(S), Distinct(s), NEW k \in 1 .. Len(s)
    PROVE  PlaceOf(s[k], s) = k
  <1>1. {i \in 1 .. Len(s) : s[i] = s[k]} = {k}
    BY DEF Distinct
  <1> QED
    BY <1>1, MinOfOne DEF SelectInSeq, PlaceOf

(* What follows an element is another one. *)
LEMMA NextInList ==
    ASSUME NEW S, NEW s \in Seq(S), Distinct(s), NEW x \in ToSet(s)
    PROVE  /\ PlaceOf(x, s) # Len(s) =>
                 s[PlaceOf(x, s) + 1] \in ToSet(s) \ {x}
           /\ x # Last(s) => PlaceOf(x, s) # Len(s)
  <1>1. PICK k \in 1 .. Len(s) : s[k] = x
    BY DEF ToSet
  <1>2. PlaceOf(x, s) = k
    BY <1>1, PlaceInList
  <1>3. k # Len(s) => k + 1 \in 1 .. Len(s) /\ s[k + 1] # x
    BY <1>1 DEF Distinct
  <1> QED
    BY <1>1, <1>2, <1>3 DEF ToSet, Last

(* Unlinking an element.                                                   *)
LEMMA UnlinkedList ==
    ASSUME NEW S, NEW s \in Seq(S), Distinct(s), NEW o \in ToSet(s)
    PROVE  /\ RemoveFirst(s, o) \in Seq(S)
           /\ ToSet(RemoveFirst(s, o)) = ToSet(s) \ {o}
           /\ Distinct(RemoveFirst(s, o))
  <1>1. PICK k \in 1 .. Len(s) : s[k] = o
    BY DEF ToSet
  <1>2. RemoveFirst(s, o) = SubSeq(s, 1, k - 1) \o SubSeq(s, k + 1, Len(s))
    <2>1. {i \in 1 .. Len(s) : s[i] = o} = {k}
      BY <1>1 DEF Distinct
    <2>2. Min({k}) = k
      BY MinOfOne
    <2> QED
      BY <1>1, <2>1, <2>2 DEF RemoveFirst, RemoveAt, SelectInSeq
  <1> DEFINE a == SubSeq(s, 1, k - 1)
             b == SubSeq(s, k + 1, Len(s))
             u == a \o b
  <1>3. /\ a \in Seq(S) /\ Len(a) = k - 1
        /\ \A i \in 1 .. k - 1 : a[i] = s[i]
    OBVIOUS
  <1>4. /\ b \in Seq(S) /\ Len(b) = Len(s) - k
        /\ \A i \in 1 .. Len(s) - k : b[i] = s[i + k]
    OBVIOUS
  <1>5. /\ u \in Seq(S) /\ Len(u) = Len(s) - 1 /\ Len(s) \in Nat
        /\ \A i \in 1 .. Len(s) - 1 :
              u[i] = IF i < k THEN s[i] ELSE s[i + 1]
    <2> HIDE DEF a, b
    <2>1. /\ u \in Seq(S) /\ Len(u) = Len(a) + Len(b)
          /\ \A i \in 1 .. Len(a) + Len(b) :
                u[i] = IF i <= Len(a) THEN a[i] ELSE b[i - Len(a)]
      BY <1>3, <1>4, ConcatProperties
    <2>2. Len(s) \in Nat
      OBVIOUS
    <2> HIDE DEF u
    <2>3. ASSUME NEW i \in 1 .. Len(s) - 1
          PROVE  u[i] = IF i < k THEN s[i] ELSE s[i + 1]
      <3>1. CASE i < k
        BY <1>3, <2>1, <2>2, <3>1
      <3>2. CASE i >= k
        <4>1. i - (k - 1) \in 1 .. Len(s) - k /\ i - (k - 1) + k = i + 1
          BY <2>2, <3>2
        <4>2. u[i] = b[i - (k - 1)]
          <5>1. Len(a) = k - 1 /\ Len(a) + Len(b) = Len(s) - 1
            BY <1>3, <1>4, <2>2
          <5>2. i \in 1 .. Len(a) + Len(b) /\ ~(i <= Len(a))
            BY <2>2, <3>2, <5>1
          <5> QED
            BY <2>1, <5>1, <5>2
        <4>3. b[i - (k - 1)] = s[i + 1]
          BY <1>4, <4>1
        <4> QED
          BY <3>2, <4>2, <4>3
      <3> QED
        BY <2>2, <3>1, <3>2
    <2> QED
      BY <1>3, <1>4, <2>1, <2>2, <2>3
  <1> HIDE DEF u
  <1>6. Distinct(u)
    BY <1>5 DEF Distinct
  <1>7. ToSet(u) = ToSet(s) \ {o}
    <2>1. ASSUME NEW i \in 1 .. Len(u) PROVE u[i] \in ToSet(s) \ {o}
      BY <1>1, <1>5 DEF ToSet, Distinct
    <2>2. ASSUME NEW i \in 1 .. Len(s), s[i] # o PROVE s[i] \in ToSet(u)
      <3>1. \/ i < k /\ u[i] = s[i] /\ i \in 1 .. Len(u)
            \/ i > k /\ u[i - 1] = s[i] /\ i - 1 \in 1 .. Len(u)
        BY <1>1, <1>5, <2>2
      <3> QED
        BY <1>5, <3>1 DEF ToSet
    <2> QED
      BY <1>5, <2>1, <2>2 DEF ToSet
  <1> QED
    BY <1>2, <1>5, <1>6, <1>7 DEF u

(* A list and one more.                                                    *)
LEMMA LongerList ==
    ASSUME NEW S, NEW s \in Seq(S), Distinct(s), NEW o \in S
    PROVE  /\ Append(s, o) \in Seq(S)
           /\ ToSet(Append(s, o)) = ToSet(s) \cup {o}
           /\ o \notin ToSet(s) => Distinct(Append(s, o))
  <1>1. /\ Len(Append(s, o)) = Len(s) + 1 /\ Len(s) \in Nat
        /\ \A i \in 1 .. Len(s) : Append(s, o)[i] = s[i]
        /\ Append(s, o)[Len(s) + 1] = o
        /\ Append(s, o) \in Seq(S)
    OBVIOUS
  <1>2. ToSet(Append(s, o)) = ToSet(s) \cup {o}
    <2>1. Append(s, o)[Len(s) + 1] \in ToSet(Append(s, o))
      BY <1>1 DEF ToSet
    <2> QED
      BY <1>1, <2>1 DEF ToSet
  <1>3. o \notin ToSet(s) => Distinct(Append(s, o))
    BY <1>1 DEF ToSet, Distinct
  <1> QED
    BY <1>1, <1>2, <1>3

------------------------------------------------------------------------------
(* Which locks a thread holds is a matter of where it is. *)

Places(p) ==
    CASE p = "overview" ->
           {"idle", "firstTenant", "visit", "nextTenant", "reading"}
      [] p = "watcher" ->
           {"idle", "firstTenant", "visit", "nextTenant", "watching", "tally",
            "tallying", "relockW", "deleteTenant", "relockR", "backTenant"}
      [] p = "packet" ->
           {"idle", "find", "create", "findTenant", "haveTenant", "touch",
            "touching", "try", "updating"}

Keeps(p) ==
    CASE pc[p] \in {"firstTenant", "deleteTenant", "backTenant",
                    "findTenant"} -> {<<TENANTS, "R">>}
      [] pc[p] \in {"visit", "tally", "relockW"} -> {<<T(cur[p]), "R">>}
      [] pc[p] = "nextTenant" -> {<<T(cur[p]), "R">>, <<TENANTS, "R">>}
      [] pc[p] \in {"reading", "tallying"} ->
           {<<T(cur[p]), "R">>, <<H(obj[p]), "R">>}
      [] pc[p] = "watching" -> {<<T(cur[p]), "R">>, <<H(obj[p]), "W">>}
      [] pc[p] \in {"relockR", "haveTenant"} -> {<<T(cur[p]), "W">>}
      [] pc[p] \in {"touching", "updating"} -> {<<H(obj[p]), "W">>}
      [] OTHER -> {}

(* tenant_find has the list for writing if it has created the tenant.      *)
Holds(p) ==
    \/ held[p] = Keeps(p)
    \/ pc[p] = "findTenant" /\ held[p] = {<<TENANTS, "W">>}

IsLock(w) == w = <<w[1], w[2]>> /\ w[2] \in {"R", "W"}

Exclusion ==
    \A p, q \in Procs : \A w \in held[p] :
        p # q /\ w[2] = "W" => \A v \in held[q] : v[1] # w[1]

(* A walker at a tenant is at one of the list; the packet thread creates   *)
(* the tenant of its packet if it is not there.                            *)
ListInv ==
    /\ tenantof \in [Hosts -> 1 .. NTenants]
    /\ list \in Seq(1 .. NTenants) /\ Distinct(list)
    /\ \A p \in Walkers :
          pc[p] \notin {"idle", "firstTenant"} => cur[p] \in ToSet(list)
    /\ pc["packet"] \in {"find", "create", "findTenant", "haveTenant"} =>
          job \in Hosts /\ cur["packet"] = tenantof[job]
    /\ pc["packet"] = "create" => cur["packet"] \notin ToSet(list)

LockInv ==
    /\ DOMAIN held = Procs /\ DOMAIN pc = Procs
    /\ DOMAIN cur = Procs /\ DOMAIN obj = Procs
    /\ \A p \in Procs : pc[p] \in Places(p) /\ Holds(p)
    /\ \A p \in Procs : \A w \in held[p] : IsLock(w)
    /\ Exclusion

(* The locks of the list, of tenants and of hosts are different locks.     *)
LEMMA LockNames ==
    /\ \A t : TENANTS # T(t) /\ TENANTS # H(t)
    /\ \A s, t : T(s) # H(t)
    /\ \A s, t : T(s) = T(t) => s = t
    /\ \A s, t : H(s) = H(t) => s = t
  BY DEF TENANTS, T, H

(* The lock a thread wants, by where it is.                                *)
LEMMA WantsAt ==
    ASSUME NEW p \in Procs
    PROVE  /\ pc[p] = "idle" /\ p \in Walkers => Wants(p) = {<<TENANTS, "R">>}
           /\ pc[p] = "visit" =>
                 IF obj[p] = 0 THEN Wants(p) = {<<TENANTS, "R">>}
                 ELSE /\ p = "watcher" => Wants(p) = {<<H(obj[p]), "W">>}
                      /\ p # "watcher" => Wants(p) = {<<H(obj[p]), "R">>}
           /\ pc[p] \in {"relockW", "relockR", "find"} =>
                 Wants(p) = {<<TENANTS, "R">>}
           /\ pc[p] = "create" => Wants(p) = {<<TENANTS, "W">>}
           /\ pc[p] = "firstTenant" =>
                 Wants(p) = IF list = <<>> THEN {} ELSE {<<T(list[1]), "R">>}
           /\ pc[p] = "nextTenant" =>
                 Wants(p) = IF cur[p] = Last(list) THEN {}
                            ELSE {<<T(list[PlaceOf(cur[p], list) + 1]), "R">>}
           /\ pc[p] = "backTenant" => Wants(p) = {<<T(cur[p]), "R">>}
           /\ pc[p] \in {"deleteTenant", "findTenant"} =>
                 Wants(p) = {<<T(cur[p]), "W">>}
           /\ pc[p] = "tally" => Wants(p) = {<<H(obj[p]), "R">>}
           /\ pc[p] = "touch" => Wants(p) = {<<H(obj[p]), "W">>}
           /\ pc[p] = "idle" /\ p = "packet" => Wants(p) = {}
           /\ pc[p] \in {"reading", "watching", "tallying", "haveTenant",
                         "touching", "try", "updating"} => Wants(p) = {}
  BY DEF Wants, Walkers, LockForDelete

(* Whatever is wanted is a lock. *)
LEMMA WantsLocks ==
    ASSUME NEW p \in Procs, NEW w \in Wants(p), pc[p] \in Places(p)
    PROVE  IsLock(w)
  BY WantsAt DEF IsLock, Places, Walkers, Procs

(* A lock operation, for the thread and for the others.                    *)
LEMMA LocksTaken ==
    ASSUME LockInv, NEW p \in Procs, NEW give, NEW place,
           Locks(p, give, place)
    PROVE  /\ DOMAIN held' = Procs
           /\ DOMAIN pc' = Procs
           /\ held'[p] = {w \in held[p] \cup Wants(p) : w[1] \notin give}
           /\ pc'[p] = place
           /\ \A q \in Procs \ {p} : held'[q] = held[q] /\ pc'[q] = pc[q]
           /\ \A w \in Wants(p) : \A q \in Procs :
                 /\ <<w[1], "W">> \notin held[q]
                 /\ w[2] = "W" => <<w[1], "R">> \notin held[q]
  BY DEF LockInv, Locks, Free, InTheWay

(* A lock operation that leaves the thread with the locks of its place.    *)
LEMMA LocksKept ==
    ASSUME LockInv, NEW p \in Procs, NEW give, NEW place \in Places(p),
           Locks(p, give, place),
           DOMAIN cur' = Procs, DOMAIN obj' = Procs,
           \A q \in Procs \ {p} : cur'[q] = cur[q] /\ obj'[q] = obj[q],
           Holds(p)'
    PROVE  LockInv'
  <1>1. /\ DOMAIN held' = Procs
        /\ DOMAIN pc' = Procs
        /\ held'[p] \subseteq held[p] \cup Wants(p)
        /\ pc'[p] = place
        /\ \A q \in Procs \ {p} : held'[q] = held[q] /\ pc'[q] = pc[q]
        /\ \A w \in Wants(p) : \A q \in Procs :
              /\ <<w[1], "W">> \notin held[q]
              /\ w[2] = "W" => <<w[1], "R">> \notin held[q]
    BY LocksTaken
  <1>2. \A q \in Procs : pc'[q] \in Places(q)
    BY <1>1 DEF LockInv
  <1>3. \A q \in Procs : Holds(q)'
    BY <1>1 DEF LockInv, Holds, Keeps
  <1>4. \A q \in Procs : \A w \in held'[q] : IsLock(w)
    BY <1>1, WantsLocks DEF LockInv
  <1>5. ASSUME NEW w \in Wants(p), NEW q \in Procs, NEW v \in held[q],
               v[1] = w[1]
        PROVE  v[2] = "R" /\ w[2] = "R"
    <2>1. v = <<w[1], v[2]>> /\ v[2] \in {"R", "W"} /\ w[2] \in {"R", "W"}
      BY <1>5, WantsLocks DEF LockInv, IsLock
    <2>2. v # <<w[1], "W">> /\ (w[2] = "W" => v # <<w[1], "R">>)
      BY <1>1
    <2> QED
      BY <2>1, <2>2
  <1>6. Exclusion'
    BY <1>1, <1>5 DEF LockInv, Exclusion
  <1> QED
    BY <1>1, <1>2, <1>3, <1>4, <1>6 DEF LockInv, Places

(* Both walks keep to the locks of their places, in what they share ...    *)
LEMMA WalkLocks ==
    ASSUME LockInv, ListInv, NEW p \in Walkers, Walk(p)
    PROVE  LockInv'
  <1>1. p \in Procs /\ DOMAIN cur = Procs
        /\ DOMAIN obj = Procs /\ p \in {"watcher", "overview"}
    BY DEF Walkers, Procs, LockInv
  <1>2. \A place \in {"idle", "firstTenant", "visit", "nextTenant"} :
            place \in Places(p)
    BY <1>1 DEF Places
  <1>3. CASE StartRound(p)
    <2>1. held[p] = {} /\ Wants(p) = {<<TENANTS, "R">>}
      BY <1>1, <1>3, WantsAt DEF StartRound, Holds, Keeps, LockInv
    <2>2. held'[p] = {<<TENANTS, "R">>} /\ pc'[p] = "firstTenant"
      BY <1>1, <1>3, <2>1, LocksTaken, LockNames DEF StartRound
    <2>3. Holds(p)'
      BY <1>3, <2>2 DEF Holds, Keeps, StartRound, local
    <2> QED
      BY <1>1, <1>2, <1>3, <2>3, LocksKept DEF StartRound, local
  <1>4. CASE tenant_first(p)
    <2>1. held[p] = {<<TENANTS, "R">>}
      BY <1>1, <1>4 DEF tenant_first, Holds, Keeps, LockInv
    <2>2. CASE list = <<>>
      <3>1. Wants(p) = {}
        BY <1>1, <1>4, <2>2, WantsAt DEF tenant_first
      <3>2. held'[p] = {} /\ pc'[p] = "idle"
        BY <1>1, <1>4, <2>1, <2>2, <3>1, LocksTaken DEF tenant_first
      <3>3. Holds(p)'
        BY <3>2 DEF Holds, Keeps
      <3> QED
        BY <1>1, <1>2, <1>4, <2>2, <3>3, LocksKept DEF tenant_first
    <2>3. CASE list # <<>>
      <3>1. /\ Locks(p, {TENANTS}, "visit") /\ pc[p] = "firstTenant"
            /\ cur' = [cur EXCEPT ![p] = list[1]]
            /\ obj' = [obj EXCEPT ![p] = FirstOf(list[1])]
        BY <1>4, <2>3 DEF tenant_first, EnterTenant
      <3>2. Wants(p) = {<<T(list[1]), "R">>}
        BY <1>1, <2>3, <3>1, WantsAt
      <3>3. held'[p] = {<<T(list[1]), "R">>} /\ pc'[p] = "visit"
        BY <1>1, <2>1, <3>1, <3>2, LocksTaken, LockNames
      <3>4. Holds(p)'
        BY <1>1, <3>1, <3>3 DEF Holds, Keeps
      <3> QED
        BY <1>1, <1>2, <3>1, <3>4, LocksKept
    <2> QED
      BY <2>2, <2>3
  <1>5. CASE LastHostDone(p)
    <2>1. held[p] = {<<T(cur[p]), "R">>} /\ Wants(p) = {<<TENANTS, "R">>}
      BY <1>1, <1>5, WantsAt DEF LastHostDone, Holds, Keeps, LockInv
    <2>2. /\ held'[p] = {<<T(cur[p]), "R">>, <<TENANTS, "R">>}
          /\ pc'[p] = "nextTenant"
      BY <1>1, <1>5, <2>1, LocksTaken, LockNames DEF LastHostDone
    <2>3. Holds(p)'
      BY <1>5, <2>2 DEF Holds, Keeps, LastHostDone, local
    <2> QED
      BY <1>1, <1>2, <1>5, <2>3, LocksKept DEF LastHostDone, local
  <1>6. CASE tenant_next(p)
    <2>1. held[p] = {<<T(cur[p]), "R">>, <<TENANTS, "R">>}
      BY <1>1, <1>6 DEF tenant_next, Holds, Keeps, LockInv
    <2>2. CASE cur[p] = Last(list)
      <3>1. Wants(p) = {}
        BY <1>1, <1>6, <2>2, WantsAt DEF tenant_next
      <3>2. held'[p] = {} /\ pc'[p] = "idle"
        BY <1>1, <1>6, <2>1, <2>2, <3>1, LocksTaken DEF tenant_next
      <3>3. Holds(p)'
        BY <3>2 DEF Holds, Keeps
      <3> QED
        BY <1>1, <1>2, <1>6, <2>2, <3>3, LocksKept DEF tenant_next
    <2>3. CASE cur[p] # Last(list)
      <3> DEFINE t == list[PlaceOf(cur[p], list) + 1]
      <3>1. /\ Locks(p, {TENANTS, T(cur[p])}, "visit")
            /\ pc[p] = "nextTenant"
            /\ cur' = [cur EXCEPT ![p] = t]
            /\ obj' = [obj EXCEPT ![p] = FirstOf(t)]
        BY <1>6, <2>3 DEF tenant_next, EnterTenant
      <3>2. Wants(p) = {<<T(t), "R">>}
        BY <1>1, <2>3, <3>1, WantsAt
      <3>3. t # cur[p]
        BY <1>1, <2>3, <3>1, NextInList DEF ListInv
      <3>4. held'[p] = {<<T(t), "R">>} /\ pc'[p] = "visit"
        BY <1>1, <2>1, <3>1, <3>2, <3>3, LocksTaken, LockNames
      <3>5. Holds(p)'
        BY <1>1, <3>1, <3>4 DEF Holds, Keeps
      <3> QED
        BY <1>1, <1>2, <3>1, <3>5, LocksKept
    <2> QED
      BY <2>2, <2>3
  <1> QED
    BY <1>3, <1>4, <1>5, <1>6 DEF Walk

(* ... and the overview thread in its own steps.                            *)
LEMMA OverviewLocks ==
    ASSUME LockInv, ListInv, Overview
    PROVE  LockInv'
  <1> DEFINE tenant(m) == <<T(cur["overview"]), m>>
             host(m) == <<H(obj["overview"]), m>>
  <1>1. "overview" \in Procs /\ DOMAIN cur = Procs
        /\ DOMAIN obj = Procs
    BY DEF Procs, LockInv
  <1>2. \A place \in {"visit", "reading"} : place \in Places("overview")
    BY DEF Places
  <1>3. CASE OverviewHost
    <2>1. held["overview"] = {tenant("R")} /\ Wants("overview") = {host("R")}
      BY <1>1, <1>3, WantsAt DEF OverviewHost, Holds, Keeps, LockInv
    <2>2. /\ held'["overview"] = {tenant("R"), host("R")}
          /\ pc'["overview"] = "reading"
      BY <1>1, <1>3, <2>1, LocksTaken, LockNames DEF OverviewHost
    <2>3. Holds("overview")'
      BY <1>1, <1>3, <2>2 DEF Holds, Keeps, OverviewHost, local
    <2> QED
      BY <1>1, <1>2, <1>3, <2>3, LocksKept DEF OverviewHost, local
  <1>4. CASE OverviewNextHost
    <2>1. held["overview"] = {tenant("R"), host("R")} /\ Wants("overview") = {}
      BY <1>1, <1>4, WantsAt DEF OverviewNextHost, Holds, Keeps, LockInv
    <2>2. held'["overview"] = {tenant("R")} /\ pc'["overview"] = "visit"
      BY <1>1, <1>4, <2>1, LocksTaken, LockNames DEF OverviewNextHost
    <2>3. Holds("overview")'
      BY <1>1, <1>4, <2>2 DEF Holds, Keeps, OverviewNextHost
    <2> QED
      BY <1>1, <1>2, <1>4, <2>3, LocksKept DEF OverviewNextHost
  <1> QED
    BY <1>3, <1>4, WalkLocks DEF Overview, Walkers

(* The watcher may have a host for itself, and gives its tenant back       *)
(* before it takes it for writing.                                         *)
LEMMA WatcherLocks ==
    ASSUME LockInv, ListInv, Watcher
    PROVE  LockInv'
  <1> DEFINE tenant(m) == <<T(cur["watcher"]), m>>
             host(m) == <<H(obj["watcher"]), m>>
  <1>1. "watcher" \in Procs /\ DOMAIN cur = Procs
        /\ DOMAIN obj = Procs
    BY DEF Procs, LockInv
  <1>2. \A place \in {"visit", "watching", "tally", "tallying",
                         "relockW", "deleteTenant", "relockR", "backTenant"} :
            place \in Places("watcher")
    BY DEF Places
  <1>3. CASE WatchHost
    <2>1. held["watcher"] = {tenant("R")} /\ Wants("watcher") = {host("W")}
      BY <1>1, <1>3, WantsAt DEF WatchHost, Holds, Keeps, LockInv
    <2>2. /\ held'["watcher"] = {tenant("R"), host("W")}
          /\ pc'["watcher"] = "watching"
      BY <1>1, <1>3, <2>1, LocksTaken, LockNames DEF WatchHost
    <2>3. Holds("watcher")'
      BY <1>1, <1>3, <2>2 DEF Holds, Keeps, WatchHost
    <2> QED
      BY <1>1, <1>2, <1>3, <2>3, LocksKept DEF WatchHost
  <1>4. ASSUME NEW opened \in BOOLEAN, KeepHost(opened)
        PROVE  LockInv'
    <2>1. held["watcher"] = {tenant("R"), host("W")} /\ Wants("watcher") = {}
      BY <1>1, <1>4, WantsAt DEF KeepHost, Holds, Keeps, LockInv
    <2>2. held'["watcher"] = {tenant("R")} /\ pc'["watcher"] = "tally"
      BY <1>1, <1>4, <2>1, LocksTaken, LockNames DEF KeepHost
    <2>3. Holds("watcher")'
      BY <1>1, <1>4, <2>2 DEF Holds, Keeps, KeepHost, local
    <2> QED
      BY <1>1, <1>2, <1>4, <2>3, LocksKept DEF KeepHost, local
  <1>5. CASE TallyHost
    <2>1. held["watcher"] = {tenant("R")} /\ Wants("watcher") = {host("R")}
      BY <1>1, <1>5, WantsAt DEF TallyHost, Holds, Keeps, LockInv
    <2>2. /\ held'["watcher"] = {tenant("R"), host("R")}
          /\ pc'["watcher"] = "tallying"
      BY <1>1, <1>5, <2>1, LocksTaken, LockNames DEF TallyHost
    <2>3. Holds("watcher")'
      BY <1>1, <1>5, <2>2 DEF Holds, Keeps, TallyHost, local
    <2> QED
      BY <1>1, <1>2, <1>5, <2>3, LocksKept DEF TallyHost, local
  <1>6. CASE WatchNextHost
    <2>1. held["watcher"] = {tenant("R"), host("R")} /\ Wants("watcher") = {}
      BY <1>1, <1>6, WantsAt DEF WatchNextHost, Holds, Keeps, LockInv
    <2>2. held'["watcher"] = {tenant("R")} /\ pc'["watcher"] = "visit"
      BY <1>1, <1>6, <2>1, LocksTaken, LockNames DEF WatchNextHost
    <2>3. Holds("watcher")'
      BY <1>1, <1>6, <2>2 DEF Holds, Keeps, WatchNextHost
    <2> QED
      BY <1>1, <1>2, <1>6, <2>3, LocksKept DEF WatchNextHost
  <1>7. CASE DropHost
    <2>1. held["watcher"] = {tenant("R"), host("W")} /\ Wants("watcher") = {}
      BY <1>1, <1>7, WantsAt DEF DropHost, Holds, Keeps, LockInv
    <2>2. held'["watcher"] = {tenant("R")} /\ pc'["watcher"] = "relockW"
      BY <1>1, <1>7, <2>1, LocksTaken, LockNames DEF DropHost
    <2>3. Holds("watcher")'
      BY <1>1, <1>7, <2>2 DEF Holds, Keeps, DropHost, local
    <2> QED
      BY <1>1, <1>2, <1>7, <2>3, LocksKept DEF DropHost, local
  <1>8. CASE tenant_relock("relockW", "deleteTenant")
    <2>1. /\ held["watcher"] = {tenant("R")}
          /\ Wants("watcher") = {<<TENANTS, "R">>}
      BY <1>1, <1>8, WantsAt DEF tenant_relock, Holds, Keeps, LockInv
    <2>2. /\ held'["watcher"] = {<<TENANTS, "R">>}
          /\ pc'["watcher"] = "deleteTenant"
      BY <1>1, <1>8, <2>1, LocksTaken, LockNames DEF tenant_relock
    <2>3. Holds("watcher")'
      BY <1>1, <1>8, <2>2 DEF Holds, Keeps, tenant_relock, local
    <2> QED
      BY <1>1, <1>2, <1>8, <2>3, LocksKept DEF tenant_relock, local
  <1>9. CASE host_delete
    <2>1. /\ held["watcher"] = {<<TENANTS, "R">>}
          /\ Wants("watcher") = {tenant("W")}
      BY <1>1, <1>9, WantsAt DEF host_delete, Holds, Keeps, LockInv
    <2>2. held'["watcher"] = {tenant("W")} /\ pc'["watcher"] = "relockR"
      BY <1>1, <1>9, <2>1, LocksTaken, LockNames DEF host_delete
    <2>3. Holds("watcher")'
      BY <1>1, <1>9, <2>2 DEF Holds, Keeps, host_delete
    <2> QED
      BY <1>1, <1>2, <1>9, <2>3, LocksKept DEF host_delete
  <1>10. CASE tenant_relock("relockR", "backTenant")
    <2>1. /\ held["watcher"] = {tenant("W")}
          /\ Wants("watcher") = {<<TENANTS, "R">>}
      BY <1>1, <1>10, WantsAt DEF tenant_relock, Holds, Keeps, LockInv
    <2>2. /\ held'["watcher"] = {<<TENANTS, "R">>}
          /\ pc'["watcher"] = "backTenant"
      BY <1>1, <1>10, <2>1, LocksTaken, LockNames DEF tenant_relock
    <2>3. Holds("watcher")'
      BY <1>1, <1>10, <2>2 DEF Holds, Keeps, tenant_relock, local
    <2> QED
      BY <1>1, <1>2, <1>10, <2>3, LocksKept DEF tenant_relock, local
  <1>11. CASE BackToTenant
    <2>1. /\ held["watcher"] = {<<TENANTS, "R">>}
          /\ Wants("watcher") = {tenant("R")}
      BY <1>1, <1>11, WantsAt DEF BackToTenant, Holds, Keeps, LockInv
    <2>2. held'["watcher"] = {tenant("R")} /\ pc'["watcher"] = "visit"
      BY <1>1, <1>11, <2>1, LocksTaken, LockNames DEF BackToTenant
    <2>3. Holds("watcher")'
      BY <1>1, <1>11, <2>2 DEF Holds, Keeps, BackToTenant, local
    <2> QED
      BY <1>1, <1>2, <1>11, <2>3, LocksKept DEF BackToTenant, local
  <1> QED
    BY <1>3, <1>4, <1>5, <1>6, <1>7, <1>8, <1>9, <1>10, <1>11, WalkLocks
       DEF Watcher, Walkers

(* The packet thread has one tenant or one host at a time.                 *)
LEMMA PacketLocks ==
    ASSUME LockInv, ListInv, Packet
    PROVE  LockInv'
  <1> DEFINE tenant(m) == <<T(cur["packet"]), m>>
             host(m) == <<H(obj["packet"]), m>>
             tenants(m) == <<TENANTS, m>>
  <1>1. "packet" \in Procs /\ DOMAIN cur = Procs
        /\ DOMAIN obj = Procs
        /\ DOMAIN held = Procs /\ DOMAIN pc = Procs
    BY DEF Procs, LockInv
  <1>2. \A place \in {"idle", "find", "create", "findTenant",
                         "haveTenant", "touch", "touching", "try",
                         "updating"} :
            place \in Places("packet")
    BY DEF Places
  <1>3. ASSUME NEW h \in Hosts, AuthPacket(h) \/ MeterPacket(h)
        PROVE  LockInv'
    <2> DEFINE Begins ==
          /\ held' = held
          /\ pc["packet"] = "idle" /\ pc'["packet"] \in {"find", "try"}
          /\ DOMAIN pc' = Procs
          /\ DOMAIN cur' = Procs
          /\ DOMAIN obj' = Procs
          /\ \A q \in Procs \ {"packet"} :
                pc'[q] = pc[q] /\ cur'[q] = cur[q] /\ obj'[q] = obj[q]
    <2>1. AuthPacket(h) => Begins
      BY <1>1 DEF AuthPacket, Procs
    <2>2. MeterPacket(h) => Begins
      BY <1>1 DEF MeterPacket, Procs
    <2>3. Begins /\ held["packet"] = {}
      <3>1. Begins
        BY <1>3, <2>1, <2>2
      <3>2. held["packet"] = {}
        BY <1>1, <3>1 DEF LockInv, Holds, Keeps
      <3> QED
        BY <3>1, <3>2
    <2>4. \A q \in Procs : pc'[q] \in Places(q) /\ Holds(q)'
      BY <1>1, <1>2, <2>3 DEF LockInv, Holds, Keeps
    <2>5. /\ DOMAIN held' = Procs
          /\ \A q \in Procs : \A w \in held'[q] : IsLock(w)
      BY <1>1, <2>3 DEF LockInv
    <2>6. Exclusion'
      BY <1>1, <2>3 DEF LockInv, Exclusion
    <2> QED
      BY <2>3, <2>4, <2>5, <2>6 DEF LockInv, Places
  <1>4. CASE TenantFind
    <2>1. held["packet"] = {} /\ Wants("packet") = {tenants("R")}
      BY <1>1, <1>4, WantsAt DEF TenantFind, Holds, Keeps, LockInv
    <2>2. \/ held'["packet"] = {tenants("R")} /\ pc'["packet"] = "findTenant"
          \/ held'["packet"] = {} /\ pc'["packet"] = "create"
      BY <1>1, <1>4, <2>1, LocksTaken, LockNames DEF TenantFind
    <2>3. Holds("packet")'
      BY <2>2 DEF Holds, Keeps
    <2> QED
      BY <1>1, <1>2, <1>4, <2>3, LocksKept DEF TenantFind, local
  <1>5. CASE TenantCreate
    <2>1. held["packet"] = {} /\ Wants("packet") = {tenants("W")}
      BY <1>1, <1>5, WantsAt DEF TenantCreate, Holds, Keeps, LockInv
    <2>2. held'["packet"] = {tenants("W")} /\ pc'["packet"] = "findTenant"
      BY <1>1, <1>5, <2>1, LocksTaken, LockNames DEF TenantCreate
    <2>3. Holds("packet")'
      BY <1>1, <1>5, <2>2 DEF Holds, Keeps, TenantCreate, local
    <2> QED
      BY <1>1, <1>2, <1>5, <2>3, LocksKept DEF TenantCreate, local
  <1>6. CASE TenantLocked
    <2>1. /\ \/ held["packet"] = {tenants("R")}
             \/ held["packet"] = {tenants("W")}
          /\ Wants("packet") = {tenant("W")}
      BY <1>1, <1>6, WantsAt DEF TenantLocked, Holds, Keeps, LockInv
    <2>2. held'["packet"] = {tenant("W")} /\ pc'["packet"] = "haveTenant"
      BY <1>1, <1>6, <2>1, LocksTaken, LockNames DEF TenantLocked
    <2>3. Holds("packet")'
      BY <1>6, <2>2 DEF Holds, Keeps, TenantLocked, local
    <2> QED
      BY <1>1, <1>2, <1>6, <2>3, LocksKept DEF TenantLocked, local
  <1>7. CASE TenantKeyResolved
    <2>1. held["packet"] = {tenant("W")} /\ Wants("packet") = {}
      BY <1>1, <1>7, WantsAt DEF TenantKeyResolved, Holds, Keeps, LockInv
    <2>2. held'["packet"] = {} /\ pc'["packet"] \in {"touch", "find"}
      BY <1>1, <1>7, <2>1, LocksTaken DEF TenantKeyResolved
    <2>3. Holds("packet")'
      BY <2>2 DEF Holds, Keeps
    <2> QED
      BY <1>1, <1>2, <1>7, <2>3, LocksKept DEF TenantKeyResolved
  <1>8. CASE AuthRefused
    <2>1. held["packet"] = {tenant("W")} /\ Wants("packet") = {}
      BY <1>1, <1>8, WantsAt DEF AuthRefused, Holds, Keeps, LockInv
    <2>2. held'["packet"] = {} /\ pc'["packet"] = "idle"
      BY <1>1, <1>8, <2>1, LocksTaken, LockNames DEF AuthRefused
    <2>3. Holds("packet")'
      BY <1>1, <1>8, <2>2 DEF Holds, Keeps, AuthRefused
    <2> QED
      BY <1>1, <1>2, <1>8, <2>3, LocksKept DEF AuthRefused, PacketDone
  <1>9. CASE host_find
    <2>1. held["packet"] = {tenant("W")} /\ Wants("packet") = {}
      BY <1>1, <1>9, WantsAt DEF host_find, Holds, Keeps, LockInv
    <2>2. held'["packet"] = {} /\ pc'["packet"] = "touch"
      BY <1>1, <1>9, <2>1, LocksTaken, LockNames DEF host_find
    <2>3. Holds("packet")'
      BY <1>1, <1>9, <2>2 DEF Holds, Keeps, host_find
    <2> QED
      BY <1>1, <1>2, <1>9, <2>3, LocksKept DEF host_find
  <1>10. CASE TouchHost
    <2>1. held["packet"] = {} /\ Wants("packet") = {host("W")}
      BY <1>1, <1>10, WantsAt DEF TouchHost, Holds, Keeps, LockInv
    <2>2. held'["packet"] = {host("W")} /\ pc'["packet"] = "touching"
      BY <1>1, <1>10, <2>1, LocksTaken, LockNames DEF TouchHost
    <2>3. Holds("packet")'
      BY <1>1, <1>10, <2>2 DEF Holds, Keeps, TouchHost, local
    <2> QED
      BY <1>1, <1>2, <1>10, <2>3, LocksKept DEF TouchHost, local
  <1>11. ASSUME NEW expired \in SUBSET Hosts, AuthDone(expired)
         PROVE  LockInv'
    <2>1. held["packet"] = {host("W")} /\ Wants("packet") = {}
      BY <1>1, <1>11, WantsAt DEF AuthDone, Holds, Keeps, LockInv
    <2>2. held'["packet"] = {} /\ pc'["packet"] = "idle"
      BY <1>1, <1>11, <2>1, LocksTaken, LockNames DEF AuthDone
    <2>3. Holds("packet")'
      BY <1>1, <1>11, <2>2 DEF Holds, Keeps, AuthDone
    <2> QED
      BY <1>1, <1>2, <1>11, <2>3, LocksKept DEF AuthDone, PacketDone
  <1>12. CASE TryHost
    <2>1. held["packet"] = {}
      BY <1>1, <1>12 DEF TryHost, Holds, Keeps, LockInv
    <2>2. /\ held'["packet"] = {host("W")}
          /\ pc'["packet"] = "updating"
          /\ DOMAIN held' = Procs
          /\ DOMAIN pc' = Procs
          /\ cur' = cur /\ obj' = obj
          /\ \A q \in Procs \ {"packet"} :
                pc'[q] = pc[q] /\ held'[q] = held[q]
      BY <1>1, <1>12, <2>1 DEF TryHost, local, Procs
    <2>3. \A q \in Procs : host("W") \notin held[q] /\ host("R") \notin held[q]
      BY <1>12 DEF TryHost, Free, InTheWay
    <2>4. \A q \in Procs : pc'[q] \in Places(q) /\ Holds(q)'
      BY <1>1, <1>2, <2>1, <2>2 DEF LockInv, Holds, Keeps
    <2>5. \A q \in Procs : \A w \in held'[q] : IsLock(w)
      BY <1>1, <2>2 DEF LockInv, IsLock
    <2>6. ASSUME NEW q \in Procs, NEW w \in held[q], w[1] = H(obj["packet"])
          PROVE  FALSE
      BY <2>3, <2>6 DEF LockInv, IsLock
    <2>7. Exclusion'
      BY <1>1, <2>2, <2>6 DEF LockInv, Exclusion
    <2> QED
      BY <1>1, <2>2, <2>4, <2>5, <2>7 DEF LockInv, Places
  <1>13. CASE TryHostFails
    <2>1. held["packet"] = {}
      BY <1>1, <1>13 DEF TryHostFails, Holds, Keeps, LockInv
    <2>2. /\ held' = held
          /\ pc'["packet"] \in {"try", "idle"}
          /\ DOMAIN pc' = Procs
          /\ DOMAIN cur' = Procs
          /\ DOMAIN obj' = Procs
          /\ \A q \in Procs \ {"packet"} :
                pc'[q] = pc[q] /\ cur'[q] = cur[q] /\ obj'[q] = obj[q]
      BY <1>1, <1>13 DEF TryHostFails, PacketDone, Procs
    <2>3. \A q \in Procs : pc'[q] \in Places(q) /\ Holds(q)'
      BY <1>1, <1>2, <2>1, <2>2 DEF LockInv, Holds, Keeps
    <2>4. /\ DOMAIN held' = Procs
          /\ \A q \in Procs : \A w \in held'[q] : IsLock(w)
      BY <1>1, <2>2 DEF LockInv
    <2>5. Exclusion'
      BY <1>1, <2>2 DEF LockInv, Exclusion
    <2> QED
      BY <2>2, <2>3, <2>4, <2>5 DEF LockInv, Places
  <1>14. CASE MeterDone
    <2>1. held["packet"] = {host("W")} /\ Wants("packet") = {}
      BY <1>1, <1>14, WantsAt DEF MeterDone, Holds, Keeps, LockInv
    <2>2. held'["packet"] = {} /\ pc'["packet"] = "idle"
      BY <1>1, <1>14, <2>1, LocksTaken, LockNames DEF MeterDone
    <2>3. Holds("packet")'
      BY <1>1, <1>14, <2>2 DEF Holds, Keeps, MeterDone
    <2> QED
      BY <1>1, <1>2, <1>14, <2>3, LocksKept DEF MeterDone, PacketDone
  <1> QED
    BY <1>3, <1>4, <1>5, <1>6, <1>7, <1>8, <1>9, <1>10, <1>11, <1>12, <1>13,
       <1>14 DEF Packet

(* The steps that take no lock.                                            *)
LEMMA OtherLocks ==
    ASSUME LockInv, UNCHANGED <<held, pc, cur, obj>>
    PROVE  LockInv'
  BY DEF LockInv, Exclusion, Holds, Keeps

(* At the start nobody holds a lock, and nobody should.                    *)
LEMMA LockInit ==
    ASSUME Init
    PROVE  LockInv
  <1>1. /\ DOMAIN held = Procs /\ DOMAIN pc = Procs
        /\ DOMAIN cur = Procs /\ DOMAIN obj = Procs
        /\ \A p \in Procs : held[p] = {} /\ pc[p] = "idle"
    BY DEF Init
  <1>2. \A p \in Procs : pc[p] \in Places(p) /\ Holds(p)
    BY <1>1 DEF Places, Holds, Keeps, Procs
  <1> QED
    BY <1>1, <1>2 DEF LockInv, Exclusion

(* Every step leaves each thread with the locks of its place.              *)
LEMMA LockStep ==
    ASSUME LockInv, ListInv, [Next]_vars
    PROVE  LockInv'
  <1>1. CASE Packet
    BY <1>1, PacketLocks
  <1>2. CASE Watcher
    BY <1>2, WatcherLocks
  <1>3. CASE Overview
    BY <1>3, OverviewLocks
  <1>4. CASE \E o \in 1 .. MaxObjects : GoStale(o)
    BY <1>4, OtherLocks DEF GoStale, local
  <1>5. CASE \E h \in Hosts : RemoveFromDb(h)
    BY <1>5, OtherLocks DEF RemoveFromDb, local
  <1>6. CASE UNCHANGED vars
    BY <1>6, OtherLocks DEF vars, local
  <1> QED
    BY <1>1, <1>2, <1>3, <1>4, <1>5, <1>6 DEF Next

------------------------------------------------------------------------------
(* The list of tenants. *)

(* The walkers come to the tenants of the list. *)
LEMMA WalkList ==
    ASSUME LockInv, ListInv, NEW p \in Walkers, Walk(p), tenantof' = tenantof
    PROVE  ListInv'
  <1>1. /\ p \in Procs /\ DOMAIN cur = Procs /\ p # "packet"
        /\ "packet" \in Procs /\ Walkers \subseteq Procs
    BY DEF Walkers, Procs, LockInv
  <1>2. list' = list /\ job' = job
    BY DEF Walk, StartRound, tenant_first, LastHostDone, tenant_next, mem,
           local
  <1>3. \A q \in Procs \ {p} : pc'[q] = pc[q] /\ cur'[q] = cur[q]
    BY <1>1, LocksTaken
       DEF Walk, StartRound, tenant_first, LastHostDone, tenant_next, local,
           EnterTenant
  <1>4. pc'[p] \notin {"idle", "firstTenant"} => cur'[p] \in ToSet(list)
    <2>1. CASE StartRound(p)
      BY <1>1, <2>1, LocksTaken DEF StartRound
    <2>2. CASE tenant_first(p)
      <3>1. CASE list = <<>>
        BY <1>1, <2>2, <3>1, LocksTaken DEF tenant_first
      <3>2. CASE list # <<>>
        <4>1. list[1] \in ToSet(list)
          BY <3>2 DEF ListInv, ToSet
        <4> QED
          BY <1>1, <2>2, <3>2, <4>1 DEF tenant_first, EnterTenant
      <3> QED
        BY <3>1, <3>2
    <2>3. CASE LastHostDone(p)
      BY <1>1, <2>3 DEF LastHostDone, local, ListInv
    <2>4. CASE tenant_next(p)
      <3>1. CASE cur[p] = Last(list)
        BY <1>1, <2>4, <3>1, LocksTaken DEF tenant_next
      <3>2. CASE cur[p] # Last(list)
        <4>1. cur[p] \in ToSet(list)
          BY <2>4 DEF tenant_next, ListInv
        <4>2. list[PlaceOf(cur[p], list) + 1] \in ToSet(list)
          BY <3>2, <4>1, NextInList DEF ListInv
        <4> QED
          BY <1>1, <2>4, <3>2, <4>2 DEF tenant_next, EnterTenant
      <3> QED
        BY <3>1, <3>2
    <2> QED
      BY <2>1, <2>2, <2>3, <2>4 DEF Walk
  <1> QED
    BY <1>1, <1>2, <1>3, <1>4 DEF ListInv

(* The rest of a walk is at the tenant it is at.                           *)
LEMMA VisitList ==
    ASSUME LockInv, ListInv, NEW p \in Walkers, NEW give, NEW place,
           pc[p] \notin {"idle", "firstTenant"}, Locks(p, give, place),
           UNCHANGED <<tenantof, list, job, cur>>
    PROVE  ListInv'
  <1>1. p \in Procs /\ p # "packet" /\ "packet" \in Procs
    BY DEF Walkers, Procs
  <1>2. \A q \in Procs \ {p} : pc'[q] = pc[q]
    BY <1>1, LocksTaken
  <1> QED
    BY <1>1, <1>2 DEF ListInv, Walkers, Procs

(* At the start the list is empty.                                         *)
LEMMA ListInit ==
    ASSUME Init
    PROVE  ListInv
  BY TenantLocksAssumption DEF Init, ListInv, Walkers, Procs, Distinct

(* tenant_find adds the tenant that is not there.                          *)
LEMMA PacketList ==
    ASSUME LockInv, ListInv, Packet, tenantof' = tenantof
    PROVE  ListInv'
  <1>1. /\ "packet" \in Procs /\ "packet" \notin Walkers
        /\ Walkers \subseteq Procs
        /\ DOMAIN pc = Procs /\ DOMAIN cur = Procs
    BY DEF Walkers, Procs, LockInv
  <1>2. ASSUME \A q \in Walkers : pc'[q] = pc[q] /\ cur'[q] = cur[q],
               list' = list,
               pc'["packet"] \in {"find", "findTenant", "haveTenant",
                                  "create"} =>
                  job' \in Hosts /\ cur'["packet"] = tenantof[job'],
               pc'["packet"] = "create" => cur'["packet"] \notin ToSet(list)
        PROVE  ListInv'
    BY <1>2 DEF ListInv
  <1>3. ASSUME NEW give, NEW place, Locks("packet", give, place)
        PROVE  pc'["packet"] = place /\ \A q \in Walkers : pc'[q] = pc[q]
    BY <1>1, <1>3, LocksTaken
  <1>4. ASSUME NEW h \in Hosts, AuthPacket(h) \/ MeterPacket(h) PROVE ListInv'
    <2>1. CASE AuthPacket(h)
      BY <1>1, <1>2, <2>1 DEF AuthPacket, mem
    <2>2. CASE MeterPacket(h)
      BY <1>1, <1>2, <2>2 DEF MeterPacket, mem
    <2> QED
      BY <1>4, <2>1, <2>2
  <1>5. CASE TenantFind
    BY <1>1, <1>2, <1>3, <1>5 DEF TenantFind, mem, local, ListInv
  <1>6. CASE TenantCreate
    <2>1. /\ cur["packet"] \notin ToSet(list) /\ job \in Hosts
          /\ cur["packet"] = tenantof[job]
          /\ cur["packet"] \in 1 .. NTenants
      BY <1>6 DEF TenantCreate, ListInv
    <2>2. /\ list' \in Seq(1 .. NTenants) /\ Distinct(list')
          /\ ToSet(list) \subseteq ToSet(list')
      <3>1. list' = Append(list, cur["packet"])
        BY <1>6 DEF TenantCreate
      <3> DEFINE S == 1 .. NTenants
      <3>2. list \in Seq(S) /\ Distinct(list) /\ cur["packet"] \in S
        BY <2>1 DEF ListInv
      <3> HIDE DEF S
      <3>3. /\ Append(list, cur["packet"]) \in Seq(S)
            /\ ToSet(Append(list, cur["packet"]))
                  = ToSet(list) \cup {cur["packet"]}
            /\ Distinct(Append(list, cur["packet"]))
        BY <2>1, <3>2, LongerList
      <3> QED
        BY <3>1, <3>3 DEF S
    <2>3. pc'["packet"] = "findTenant" /\ \A q \in Walkers : pc'[q] = pc[q]
      BY <1>3, <1>6 DEF TenantCreate
    <2> QED
      BY <1>1, <1>6, <2>1, <2>2, <2>3 DEF TenantCreate, ListInv, local
  <1>7. CASE TenantLocked
    BY <1>1, <1>2, <1>3, <1>7 DEF TenantLocked, mem, local, ListInv
  <1>8. CASE TenantKeyResolved
    BY <1>1, <1>2, <1>3, <1>8 DEF TenantKeyResolved, mem, local, ListInv
  <1>9. CASE AuthRefused
    BY <1>1, <1>2, <1>3, <1>9 DEF AuthRefused, mem, PacketDone
  <1>10. CASE host_find
    BY <1>1, <1>2, <1>3, <1>10 DEF host_find
  <1>11. CASE TouchHost
    BY <1>1, <1>2, <1>3, <1>11 DEF TouchHost, local
  <1>12. CASE \E expired \in SUBSET Hosts : AuthDone(expired)
    BY <1>1, <1>2, <1>3, <1>12 DEF AuthDone, PacketDone
  <1>13. CASE TryHost
    BY <1>1, <1>2, <1>13 DEF TryHost, mem, local
  <1>14. CASE TryHostFails
    BY <1>1, <1>2, <1>14 DEF TryHostFails, mem, PacketDone
  <1>15. CASE MeterDone
    BY <1>1, <1>2, <1>3, <1>15 DEF MeterDone, PacketDone
  <1> QED
    BY <1>4, <1>5, <1>6, <1>7, <1>8, <1>9, <1>10, <1>11, <1>12, <1>13,
       <1>14, <1>15 DEF Packet

(* Every step leaves the walks at tenants of the list.                     *)
LEMMA ListStep ==
    ASSUME LockInv, ListInv, [Next]_vars
    PROVE  ListInv'
  <1>1. "watcher" \in Walkers /\ "overview" \in Walkers
    BY DEF Walkers
  <1>2. ASSUME UNCHANGED <<tenantof, list, pc, cur, job>> PROVE ListInv'
    BY <1>2 DEF ListInv
  <1>3. CASE Packet /\ tenantof' = tenantof
    BY <1>3, PacketList
  <1>4. CASE Watcher /\ tenantof' = tenantof
    <2>1. CASE Walk("watcher")
      BY <1>1, <1>4, <2>1, WalkList
    <2>2. CASE WatchHost
      BY <1>1, <1>4, <2>2, VisitList DEF WatchHost, mem
    <2>3. CASE \E opened \in BOOLEAN : KeepHost(opened)
      BY <1>1, <1>4, <2>3, VisitList DEF KeepHost, local
    <2>4. CASE TallyHost
      BY <1>1, <1>4, <2>4, VisitList DEF TallyHost, mem, local
    <2>5. CASE WatchNextHost
      BY <1>1, <1>4, <2>5, VisitList DEF WatchNextHost, mem
    <2>6. CASE DropHost
      BY <1>1, <1>4, <2>6, VisitList DEF DropHost, mem, local
    <2>7. CASE tenant_relock("relockW", "deleteTenant")
      BY <1>1, <1>4, <2>7, VisitList DEF tenant_relock, mem, local
    <2>8. CASE host_delete
      BY <1>1, <1>4, <2>8, VisitList DEF host_delete
    <2>9. CASE tenant_relock("relockR", "backTenant")
      BY <1>1, <1>4, <2>9, VisitList DEF tenant_relock, mem, local
    <2>10. CASE BackToTenant
      BY <1>1, <1>4, <2>10, VisitList DEF BackToTenant, mem, local
    <2> QED
      BY <1>4, <2>1, <2>2, <2>3, <2>4, <2>5, <2>6, <2>7, <2>8, <2>9, <2>10
         DEF Watcher
  <1>5. CASE Overview /\ tenantof' = tenantof
    <2>1. CASE Walk("overview")
      BY <1>1, <1>5, <2>1, WalkList
    <2>2. CASE OverviewHost
      BY <1>1, <1>5, <2>2, VisitList DEF OverviewHost, mem, local
    <2>3. CASE OverviewNextHost
      BY <1>1, <1>5, <2>3, VisitList DEF OverviewNextHost, mem
    <2> QED
      BY <1>5, <2>1, <2>2, <2>3 DEF Overview
  <1>6. CASE (\E o \in 1 .. MaxObjects : GoStale(o)) /\ tenantof' = tenantof
    BY <1>2, <1>6 DEF GoStale, local
  <1>7. CASE (\E h \in Hosts : RemoveFromDb(h)) /\ tenantof' = tenantof
    BY <1>2, <1>7 DEF RemoveFromDb, local
  <1>8. CASE UNCHANGED vars
    BY <1>2, <1>8 DEF vars, mem, local
  <1> QED
    BY <1>3, <1>4, <1>5, <1>6, <1>7, <1>8 DEF Next

------------------------------------------------------------------------------
(* A tenant that tenant_find has just created is nobody else's: the list   *)
(* is locked for writing until it is locked itself.                        *)
NewTenantInv ==
    held["packet"] = {<<TENANTS, "W">>} =>
        \A p \in Walkers :
            pc[p] # "idle" => pc[p] # "firstTenant" /\ cur[p] # cur["packet"]

(* A step of a walker: one lock operation, and only tenant_first and       *)
(* tenant_next take it to another tenant.                                  *)
Turn(p) ==
    /\ \E give, place : Locks(p, give, place)
    /\ \A q \in Procs \ {p} : cur'[q] = cur[q] /\ obj'[q] = obj[q]
    /\ pc[p] \notin {"firstTenant", "nextTenant"} => cur'[p] = cur[p]
    /\ list' = list

(* What the steps of a walk leave alone.                                   *)
LEMMA WalkerTurns ==
    ASSUME LockInv
    PROVE  /\ Watcher => Turn("watcher")
           /\ Overview => Turn("overview")
  <1>1. DOMAIN cur = Procs /\ DOMAIN obj = Procs
    BY DEF LockInv
  <1>2. ASSUME NEW p \in Procs, Walk(p) PROVE Turn(p)
    BY <1>1, <1>2
       DEF Walk, StartRound, tenant_first, LastHostDone, tenant_next, Turn,
           EnterTenant, local, mem
  <1>3. Overview => Turn("overview")
    <2>1. OverviewHost => Turn("overview")
      BY DEF OverviewHost, Turn, local, mem
    <2>2. OverviewNextHost => Turn("overview")
      BY <1>1 DEF OverviewNextHost, Turn, mem, Procs
    <2> QED
      BY <1>2, <2>1, <2>2 DEF Overview, Procs
  <1>4. Watcher => Turn("watcher")
    <2>1. WatchHost => Turn("watcher")
      BY DEF WatchHost, Turn, mem
    <2>2. (\E opened \in BOOLEAN : KeepHost(opened)) => Turn("watcher")
      BY DEF KeepHost, Turn, local
    <2>3. TallyHost \/ DropHost \/ BackToTenant => Turn("watcher")
      BY DEF TallyHost, DropHost, BackToTenant, Turn, local, mem
    <2>4. WatchNextHost => Turn("watcher")
      BY <1>1 DEF WatchNextHost, Turn, mem, Procs
    <2>5. \A a, b : tenant_relock(a, b) => Turn("watcher")
      BY DEF tenant_relock, Turn, local, mem
    <2>6. host_delete => Turn("watcher")
      BY <1>1 DEF host_delete, Turn, Procs
    <2> QED
      BY <1>2, <2>1, <2>2, <2>3, <2>4, <2>5, <2>6 DEF Watcher, Procs
  <1> QED
    BY <1>3, <1>4

(* Where a walker is when another thread has the list for writing.         *)
LEMMA ListIsTaken ==
    ASSUME LockInv, held["packet"] = {<<TENANTS, "W">>}, NEW p \in Walkers
    PROVE  pc[p] \notin {"firstTenant", "nextTenant", "deleteTenant",
                         "backTenant"}
  <1>1. p \in Procs /\ p # "packet" /\ "packet" \in Procs
    BY DEF Walkers, Procs
  <1> DEFINE w == <<TENANTS, "W">>
             r == <<TENANTS, "R">>
  <1>2. w \in held["packet"] /\ w[1] = TENANTS /\ w[2] = "W" /\ r[1] = TENANTS
    OBVIOUS
  <1> HIDE DEF w, r
  <1>3. r \notin held[p]
    BY <1>1, <1>2 DEF LockInv, Exclusion
  <1> QED
    BY <1>1, <1>3 DEF LockInv, Holds, Keeps, r

(* The same of the next state.                                             *)
LEMMA ListIsTakenNext ==
    ASSUME LockInv', held'["packet"] = {<<TENANTS, "W">>}, NEW p \in Walkers
    PROVE  pc'[p] # "firstTenant"
  <1>1. p \in Procs /\ p # "packet" /\ "packet" \in Procs
    BY DEF Walkers, Procs
  <1> DEFINE w == <<TENANTS, "W">>
             r == <<TENANTS, "R">>
  <1>2. w \in held'["packet"] /\ w[1] = TENANTS /\ w[2] = "W" /\ r[1] = TENANTS
    OBVIOUS
  <1> HIDE DEF w, r
  <1>3. r \notin held'[p]
    BY <1>1, <1>2 DEF LockInv, Exclusion
  <1> QED
    BY <1>1, <1>3 DEF LockInv, Holds, Keeps, r

(* How the packet thread comes to lock a tenant.                           *)
LEMMA PacketPlaces ==
    ASSUME LockInv, Packet, pc'["packet"] = "findTenant"
    PROVE  TenantFind \/ TenantCreate
  <1>1. "packet" \in Procs /\ DOMAIN pc = Procs
    BY DEF Procs, LockInv
  <1>2. \A give, place : Locks("packet", give, place) =>
            place = "findTenant"
    BY <1>1, LocksTaken
  <1>3. \A h \in Hosts : ~AuthPacket(h) /\ ~MeterPacket(h)
    BY <1>1 DEF AuthPacket, MeterPacket
  <1>4. ~TryHost /\ ~TryHostFails
    BY <1>1 DEF TryHost, TryHostFails, local
  <1>5. /\ ~TenantLocked /\ ~TenantKeyResolved /\ ~AuthRefused /\ ~host_find
        /\ ~TouchHost /\ ~MeterDone
        /\ \A expired \in SUBSET Hosts : ~AuthDone(expired)
    BY <1>2 DEF TenantLocked, TenantKeyResolved, AuthRefused, host_find,
                TouchHost, MeterDone, AuthDone
  <1> QED
    BY <1>3, <1>4, <1>5 DEF Packet

(* A tenant that is just created stays unknown to the walks.               *)
LEMMA NewTenantStep ==
    ASSUME LockInv, ListInv, NewTenantInv, LockInv', [Next]_vars
    PROVE  NewTenantInv'
  <1> SUFFICES ASSUME held'["packet"] = {<<TENANTS, "W">>},
                      NEW p \in Walkers, pc'[p] # "idle"
               PROVE  cur'[p] # cur'["packet"]
    BY ListIsTakenNext DEF NewTenantInv
  <1>1. /\ p \in Procs /\ p # "packet" /\ "packet" \in Procs
        /\ p \in {"watcher", "overview"}
    BY DEF Walkers, Procs
  <1>2. pc'["packet"] = "findTenant"
    <2>1. <<TENANTS, "W">> \notin Keeps("packet")'
      BY LockNames DEF Keeps
    <2> QED
      BY <1>1, <2>1 DEF LockInv, Holds
  <1>3. ASSUME UNCHANGED <<held, pc, cur>>
        PROVE  cur'[p] # cur'["packet"]
    BY <1>1, <1>3 DEF NewTenantInv
  <1>4. CASE Watcher \/ Overview
    <2>1. PICK q \in Walkers : Turn(q)
      BY <1>4, WalkerTurns DEF Walkers
    <2>2. PICK give, place : Locks(q, give, place)
      BY <2>1 DEF Turn
    <2>3. q \in Procs /\ q # "packet"
      BY DEF Walkers, Procs
    <2>4. /\ held'["packet"] = held["packet"]
          /\ cur'["packet"] = cur["packet"]
          /\ \A r \in Procs \ {q} : pc'[r] = pc[r] /\ cur'[r] = cur[r]
      BY <1>1, <2>1, <2>2, <2>3, LocksTaken DEF Turn
    <2>5. p # q => pc[p] = pc'[p] /\ cur[p] = cur'[p]
      BY <1>1, <2>4
    <2>6. pc[q] \notin {"firstTenant", "nextTenant", "idle"}
      <3>1. CASE pc[q] = "idle"
        <4>1. Wants(q) = {<<TENANTS, "R">>}
          BY <2>3, <3>1, WantsAt
        <4> DEFINE r == <<TENANTS, "R">>
        <4>2. r \in Wants(q) /\ r[1] = TENANTS
          BY <4>1
        <4> HIDE DEF r
        <4>3. <<r[1], "W">> \notin held["packet"]
          BY <1>1, <2>2, <2>3, <4>2, LocksTaken
        <4> QED
          BY <2>4, <4>2, <4>3
      <3> QED
        BY <2>4, <3>1, ListIsTaken
    <2>7. cur'[q] = cur[q]
      BY <2>1, <2>6 DEF Turn
    <2>8. cur[p] # cur["packet"] /\ cur'[p] = cur[p]
      BY <2>4, <2>5, <2>6, <2>7 DEF NewTenantInv
    <2> QED
      BY <2>4, <2>8
  <1>5. CASE Packet
    <2>1. TenantFind \/ TenantCreate
      BY <1>1, <1>2, <1>5, PacketPlaces
    <2>2. Holds("packet") /\ pc["packet"] # "findTenant"
      BY <1>1, <2>1 DEF LockInv, TenantFind, TenantCreate
    <2>3. held["packet"] = {}
      BY <2>1, <2>2 DEF TenantFind, TenantCreate, Holds, Keeps
    <2>4. ~TenantFind
      <3>1. SUFFICES ASSUME TenantFind PROVE FALSE
        OBVIOUS
      <3>2. Wants("packet") = {<<TENANTS, "R">>}
        BY <1>1, <3>1, WantsAt DEF TenantFind
      <3>3. held'["packet"] \subseteq {<<TENANTS, "R">>}
        BY <1>1, <2>3, <3>1, <3>2, LocksTaken DEF TenantFind
      <3> QED
        BY <3>3
    <2>5. /\ Locks("packet", {}, "findTenant") /\ pc["packet"] = "create"
          /\ cur' = cur
      BY <2>1, <2>4 DEF TenantCreate, local
    <2>6. pc[p] = pc'[p]
      BY <1>1, <2>5, LocksTaken
    <2>7. pc[p] # "firstTenant"
      <3> DEFINE w == <<TENANTS, "W">>
      <3>1. w \in Wants("packet") /\ w[1] = TENANTS /\ w[2] = "W"
        BY <1>1, <2>5, WantsAt
      <3> HIDE DEF w
      <3>2. <<TENANTS, "R">> \notin held[p]
        BY <1>1, <2>5, <3>1, LocksTaken
      <3> QED
        BY <1>1, <3>2 DEF LockInv, Holds, Keeps
    <2>8. cur[p] \in ToSet(list) /\ cur["packet"] \notin ToSet(list)
      BY <2>5, <2>6, <2>7 DEF ListInv
    <2> QED
      BY <2>5, <2>8
  <1>6. CASE \E o \in 1 .. MaxObjects : GoStale(o)
    BY <1>3, <1>6 DEF GoStale, local
  <1>7. CASE \E h \in Hosts : RemoveFromDb(h)
    BY <1>3, <1>7 DEF RemoveFromDb, local
  <1>8. CASE UNCHANGED vars
    BY <1>3, <1>8 DEF vars, local
  <1> QED
    BY <1>4, <1>5, <1>6, <1>7, <1>8 DEF Next

------------------------------------------------------------------------------
(* Nobody waits for somebody who waits in turn. *)

(* How long a thread may have to wait, by where it is: for the lock of a   *)
(* host only while somebody reads or updates it, for the list only while   *)
(* a tenant is created, for a tenant while somebody visits its hosts ...   *)
Rank(p) ==
    CASE pc[p] \in {"reading", "watching", "tallying", "haveTenant",
                    "touching", "updating", "try"} -> 0
      [] pc[p] \in {"tally", "touch"} -> 1
      [] pc[p] = "findTenant" ->
            IF held[p] = {<<TENANTS, "W">>} THEN 2 ELSE 5
      [] pc[p] \in {"firstTenant", "nextTenant", "backTenant"} -> 4
      [] pc[p] = "deleteTenant" -> 5
      [] pc[p] = "create" -> 6
      [] OTHER -> 3

(* Who holds the list, a tenant or a host.                                 *)
LEMMA ListHolders ==
    ASSUME LockInv, NEW q \in Procs, NEW m, <<TENANTS, m>> \in held[q]
    PROVE  /\ pc[q] \in {"firstTenant", "nextTenant", "deleteTenant",
                         "backTenant", "findTenant"}
           /\ \/ m = "R"
              \/ pc[q] = "findTenant" /\ held[q] = {<<TENANTS, "W">>}
  BY LockNames DEF LockInv, Holds, Keeps

(* Who holds a tenant.                                                     *)
LEMMA TenantHolders ==
    ASSUME LockInv, NEW q \in Procs, NEW t, NEW m, <<T(t), m>> \in held[q]
    PROVE  /\ pc[q] \in {"visit", "tally", "relockW", "nextTenant", "reading",
                         "tallying", "watching", "relockR", "haveTenant"}
           /\ t = cur[q]
           /\ m = "W" => pc[q] \in {"relockR", "haveTenant"}
  BY LockNames DEF LockInv, Holds, Keeps

(* Who holds a host.                                                       *)
LEMMA HostHolders ==
    ASSUME LockInv, NEW q \in Procs, NEW o, NEW m, <<H(o), m>> \in held[q]
    PROVE  pc[q] \in {"reading", "tallying", "watching", "touching",
                      "updating"}
  BY LockNames DEF LockInv, Holds, Keeps

(* Who is in the way waits for less.                                       *)
LEMMA WaitsForLess ==
    ASSUME LockInv, NewTenantInv, ~WriterFirst,
           NEW p \in Procs, NEW w \in Wants(p),
           NEW q \in InTheWay(p, w[1], w[2])
    PROVE  q \in Procs /\ Rank(q) < Rank(p)
  <1>1. /\ q \in Procs
        /\ \/ <<w[1], "W">> \in held[q]
           \/ w[2] = "W" /\ <<w[1], "R">> \in held[q]
    BY Zenon DEF InTheWay
  <1>2. pc[p] \in Places(p) /\ pc[q] \in Places(q)
    BY <1>1 DEF LockInv
  <1>3. CASE \/ pc[p] \in {"idle", "relockW", "relockR", "find"}
             \/ pc[p] = "visit" /\ obj[p] = 0
    <2>1. w = <<TENANTS, "R">>
      BY <1>2, <1>3, WantsAt DEF Places, Walkers, Procs
    <2>2. <<TENANTS, "W">> \in held[q]
      BY <1>1, <2>1
    <2>3. Rank(q) = 2
      BY <1>1, <2>2, ListHolders, LockNames DEF Rank
    <2> QED
      BY <1>1, <1>3, <2>3 DEF Rank
  <1>4. CASE \/ pc[p] \in {"tally", "touch"}
             \/ pc[p] = "visit" /\ obj[p] # 0
    <2>1. w[1] = H(obj[p])
      BY <1>4, WantsAt
    <2>2. \E m : <<H(obj[p]), m>> \in held[q]
      BY <1>1, <2>1
    <2>3. Rank(q) = 0
      BY <1>1, <2>2, HostHolders DEF Rank
    <2> QED
      BY <1>1, <1>4, <2>3 DEF Rank
  <1>5. CASE pc[p] \in {"firstTenant", "nextTenant", "backTenant"}
    <2>1. \E t : w = <<T(t), "R">>
      BY <1>5, WantsAt
    <2>2. \E t : <<T(t), "W">> \in held[q]
      BY <1>1, <2>1
    <2>3. Rank(q) \in {0, 3}
      BY <1>1, <2>2, TenantHolders DEF Rank
    <2> QED
      BY <1>1, <1>5, <2>3 DEF Rank
  <1>6. CASE pc[p] \in {"deleteTenant", "findTenant"}
    <2>1. w = <<T(cur[p]), "W">>
      BY <1>6, WantsAt
    <2>2. \E m : <<T(cur[p]), m>> \in held[q]
      BY <1>1, <2>1
    <2>3. /\ pc[q] \in {"visit", "tally", "relockW", "nextTenant", "reading",
                        "tallying", "watching", "relockR", "haveTenant"}
          /\ cur[q] = cur[p]
      BY <1>1, <2>2, TenantHolders
    <2>4. Rank(q) < 5
      BY <2>3 DEF Rank
    <2>5. ~(pc[p] = "findTenant" /\ held[p] = {<<TENANTS, "W">>})
      <3>1. SUFFICES ASSUME pc[p] = "findTenant",
                            held[p] = {<<TENANTS, "W">>}
                     PROVE  FALSE
        OBVIOUS
      <3>2. p = "packet"
        BY <1>2, <3>1 DEF Places, Procs
      <3>3. q \in Walkers
        BY <1>1, <2>3, <3>1, <3>2 DEF Procs, Walkers
      <3> QED
        BY <2>3, <3>1, <3>2, <3>3 DEF NewTenantInv
    <2>6. Rank(p) = 5
      BY <1>6, <2>5 DEF Rank
    <2> QED
      BY <1>1, <2>4, <2>6
  <1>7. CASE pc[p] = "create"
    <2>1. w[1] = TENANTS
      BY <1>7, WantsAt
    <2>2. \E m : <<TENANTS, m>> \in held[q]
      BY <1>1, <2>1
    <2>3. Rank(q) < 6
      BY <1>1, <2>2, ListHolders DEF Rank
    <2> QED
      BY <1>1, <1>7, <2>3 DEF Rank
  <1>8. pc[p] \notin {"reading", "watching", "tallying", "haveTenant",
                      "touching", "try", "updating"}
    BY WantsAt
  <1>9. \/ \/ pc[p] \in {"idle", "relockW", "relockR", "find"}
           \/ pc[p] = "visit" /\ obj[p] = 0
        \/ \/ pc[p] \in {"tally", "touch"}
           \/ pc[p] = "visit" /\ obj[p] # 0
        \/ pc[p] \in {"firstTenant", "nextTenant", "backTenant"}
        \/ pc[p] \in {"deleteTenant", "findTenant"}
        \/ pc[p] = "create"
    BY <1>2, <1>8 DEF Places, Procs
  <1> QED
    BY <1>3, <1>4, <1>5, <1>6, <1>7, <1>9, Zenon

(* Of some threads one waits for least. *)
LEMMA LeastRank ==
    ASSUME NEW D \in SUBSET Procs, D # {}
    PROVE  \E p \in D : \A q \in D : ~(Rank(q) < Rank(p))
  <1>1. \A p \in Procs : Rank(p) \in Int
    BY DEF Rank
  <1>2. SUFFICES ASSUME \A p \in D : \E q \in D : Rank(q) < Rank(p)
                 PROVE  FALSE
    OBVIOUS
  <1>3. PICK a \in D : TRUE
    OBVIOUS
  <1>4. PICK b \in D : Rank(b) < Rank(a)
    BY <1>2
  <1>5. PICK c \in D : Rank(c) < Rank(b)
    BY <1>2
  <1>6. PICK d \in D : Rank(d) < Rank(c)
    BY <1>2
  <1> HIDE DEF Rank
  <1> QED
    BY <1>1, <1>4, <1>5, <1>6 DEF Procs

------------------------------------------------------------------------------
(* What follows. *)

ThreadInv == LockInv /\ ListInv /\ NewTenantInv

(* Which locks the three threads hold, wherever they are.                  *)
THEOREM LocksInvariant == Spec => []ThreadInv
  <1>1. Init => ThreadInv
    BY LockInit, ListInit DEF ThreadInv, NewTenantInv, Init, Procs, Walkers
  <1>2. ThreadInv /\ [Next]_vars => ThreadInv'
    BY LockStep, ListStep, NewTenantStep DEF ThreadInv
  <1> QED
    BY <1>1, <1>2, PTL DEF Spec

(* A thread that is done holds no lock, whichever way it came out of its   *)
(* round or its packet.                                                    *)
THEOREM IdleThreadsHoldNothing == Spec => []IdleHoldsNothing
  <1>1. ThreadInv => IdleHoldsNothing
    BY DEF ThreadInv, LockInv, Holds, Keeps, IdleHoldsNothing
  <1> QED
    BY <1>1, LocksInvariant, PTL

(* No threads wait for each other, with read locks that are granted while  *)
(* a writer waits.                                                         *)
THEOREM NobodyIsDeadlocked ==
    ASSUME ~WriterFirst
    PROVE  Spec => []NoDeadlock
  <1>1. ThreadInv => NoDeadlock
    <2> SUFFICES ASSUME ThreadInv, NEW D \in (SUBSET Procs) \ {{}}
                 PROVE  \E p \in D : \A w \in Wants(p) :
                            InTheWay(p, w[1], w[2]) \cap D = {}
      BY DEF NoDeadlock
    <2>3. D \in SUBSET Procs /\ D # {}
      OBVIOUS
    <2>1. PICK p \in D : \A q \in D : ~(Rank(q) < Rank(p))
      BY <2>3, LeastRank
    <2>2. \A w \in Wants(p) : \A q \in InTheWay(p, w[1], w[2]) :
              Rank(q) < Rank(p)
      BY <2>3, WaitsForLess DEF ThreadInv
    <2> QED
      BY <2>1, <2>2
  <1> QED
    BY <1>1, LocksInvariant, PTL

------------------------------------------------------------------------------
(* The hosts that are linked to their tenants, and those the walks are at. *)

AtHost == {"reading", "watching", "tally", "tallying", "relockW",
           "deleteTenant"}
BetweenHosts == {"visit", "relockR", "backTenant"}

HostsInv ==
    /\ objs \in Seq(Hosts) /\ freed \subseteq 1 .. Len(objs)
    /\ hosts \in [1 .. NTenants -> Seq(Nat)]
    /\ \A t \in 1 .. NTenants :
          /\ Distinct(hosts[t])
          /\ \A o \in ToSet(hosts[t]) :
                o \in 1 .. Len(objs) \ freed /\ tenantof[objs[o]] = t

(* The watcher, while it goes without its tenant, still has a host of it.  *)
WalkInv ==
    \A p \in Walkers :
        /\ pc[p] \in AtHost => obj[p] \in ToSet(hosts[cur[p]])
        /\ pc[p] \in BetweenHosts => obj[p] \in ToSet(hosts[cur[p]]) \cup {0}

NextInv ==
    pc["watcher"] \in AtHost =>
        nxt \in (ToSet(hosts[cur["watcher"]]) \ {obj["watcher"]}) \cup {0}

HostInv == HostsInv /\ WalkInv /\ NextInv

(* At the start there are no hosts.                                        *)
LEMMA HostInit ==
    ASSUME Init
    PROVE  HostInv
  <1>1. \A t \in 1 .. NTenants : Distinct(hosts[t]) /\ ToSet(hosts[t]) = {}
    BY DEF Init, Distinct, ToSet
  <1>2. \A p \in Walkers : pc[p] = "idle"
    BY DEF Init, Walkers, Procs
  <1> QED
    BY <1>1, <1>2
       DEF Init, HostInv, HostsInv, WalkInv, NextInv, AtHost, BetweenHosts,
           Walkers

(* The hosts stay as they are, and so do the walks but for one.            *)
LEMMA HostsStay ==
    ASSUME HostsInv, UNCHANGED <<tenantof, objs, hosts, freed>>
    PROVE  HostsInv'
  BY DEF HostsInv, Distinct

(* The first of a tenant's hosts and the one after another.                *)
LEMMA NextHost ==
    ASSUME ListInv, HostsInv, NEW t \in 1 .. NTenants
    PROVE  /\ FirstOf(t) \in ToSet(hosts[t]) \cup {0}
           /\ \A o \in ToSet(hosts[t]) :
                 Following(o) \in (ToSet(hosts[t]) \ {o}) \cup {0}
  <1>1. hosts[t] \in Seq(Nat) /\ Distinct(hosts[t])
    BY DEF HostsInv
  <1>2. FirstOf(t) \in ToSet(hosts[t]) \cup {0}
    BY <1>1 DEF FirstOf, ToSet
  <1>3. ASSUME NEW o \in ToSet(hosts[t])
        PROVE  Following(o) \in (ToSet(hosts[t]) \ {o}) \cup {0}
    <2>1. hosts[tenantof[objs[o]]] = hosts[t]
      BY DEF HostsInv
    <2>2. PlaceOf(o, hosts[t]) # Len(hosts[t]) =>
              hosts[t][PlaceOf(o, hosts[t]) + 1] \in ToSet(hosts[t]) \ {o}
      BY <1>1, NextInList
    <2> QED
      BY <2>1, <2>2 DEF Following
  <1> QED
    BY <1>2, <1>3

(* The list is of tenants.                                                 *)
LEMMA TenantsOfTheList ==
    ASSUME ListInv
    PROVE  /\ \A t \in ToSet(list) : t \in 1 .. NTenants
           /\ list # <<>> => list[1] \in ToSet(list)
  <1>1. PICK S : S = 1 .. NTenants
    OBVIOUS
  <1>2. list \in Seq(S)
    BY <1>1 DEF ListInv
  <1>3. \A i \in DOMAIN list : list[i] \in S
    BY <1>2, ElementOfSeq, LenProperties
  <1>4. list # <<>> => 1 \in DOMAIN list
    BY <1>2, EmptySeq, LenProperties
  <1> QED
    BY <1>1, <1>3, <1>4 DEF ToSet

(* A walker that is at a tenant is at one the collector has.               *)
LEMMA AtATenant ==
    ASSUME ListInv, NEW p \in Walkers, pc[p] \notin {"idle", "firstTenant"}
    PROVE  cur[p] \in 1 .. NTenants
  BY TenantsOfTheList DEF ListInv

(* A step of one walk that frees nothing. *)
LEMMA WalkHosts ==
    ASSUME LockInv, ListInv, HostInv, NEW p \in Walkers, Turn(p),
           UNCHANGED <<tenantof, objs, hosts, freed>>,
           pc'[p] \in AtHost => obj'[p] \in ToSet(hosts[cur'[p]]),
           pc'[p] \in BetweenHosts =>
               obj'[p] \in ToSet(hosts[cur'[p]]) \cup {0},
           p = "watcher" => NextInv',
           p = "overview" => nxt' = nxt
    PROVE  HostInv'
  <1>1. p \in Procs /\ Walkers \subseteq Procs /\ "watcher" \in Walkers
        /\ p \in {"watcher", "overview"}
    BY DEF Walkers, Procs
  <1>2. \A q \in Walkers \ {p} :
            pc'[q] = pc[q] /\ cur'[q] = cur[q] /\ obj'[q] = obj[q]
    BY <1>1, LocksTaken DEF Turn
  <1>3. WalkInv'
    BY <1>1, <1>2 DEF WalkInv, HostInv
  <1>4. NextInv'
    BY <1>1, <1>2 DEF NextInv, HostInv
  <1> QED
    BY <1>3, <1>4, HostsStay DEF HostInv

(* The steps that both walks have.                                         *)
LEMMA WalkKeepsHosts ==
    ASSUME LockInv, ListInv, HostInv, NEW p \in Walkers, Walk(p), Turn(p),
           tenantof' = tenantof
    PROVE  HostInv'
  <1>1. p \in Procs /\ DOMAIN cur = Procs /\ DOMAIN obj = Procs
    BY DEF Walkers, Procs, LockInv
  <1>2. UNCHANGED <<tenantof, objs, hosts, freed, nxt>>
    BY DEF Walk, StartRound, tenant_first, LastHostDone, tenant_next, mem,
           local
  <1>3. ASSUME pc'[p] \in {"idle", "firstTenant", "nextTenant"}
        PROVE  HostInv'
    BY <1>2, <1>3, WalkHosts DEF AtHost, BetweenHosts, NextInv
  <1>4. ASSUME NEW t \in 1 .. NTenants, EnterTenant(p, t), pc'[p] = "visit"
        PROVE  HostInv'
    BY <1>1, <1>2, <1>4, WalkHosts, NextHost
       DEF AtHost, BetweenHosts, NextInv, EnterTenant, HostInv
  <1>5. CASE StartRound(p)
    BY <1>1, <1>3, <1>5, LocksTaken DEF StartRound
  <1>6. CASE tenant_first(p)
    <2>1. CASE list = <<>>
      BY <1>1, <1>3, <1>6, <2>1, LocksTaken DEF tenant_first
    <2>2. CASE list # <<>>
      <3>1. list[1] \in 1 .. NTenants
        BY <2>2, TenantsOfTheList
      <3> QED
        BY <1>1, <1>4, <1>6, <2>2, <3>1, LocksTaken DEF tenant_first
    <2> QED
      BY <2>1, <2>2
  <1>7. CASE LastHostDone(p)
    BY <1>1, <1>3, <1>7, LocksTaken DEF LastHostDone
  <1>8. CASE tenant_next(p)
    <2>1. CASE cur[p] = Last(list)
      BY <1>1, <1>3, <1>8, <2>1, LocksTaken DEF tenant_next
    <2>2. CASE cur[p] # Last(list)
      <3> DEFINE t == list[PlaceOf(cur[p], list) + 1]
      <3>1. t \in ToSet(list)
        BY <1>8, <2>2, NextInList DEF tenant_next, ListInv
      <3>2. t \in 1 .. NTenants
        BY <3>1, TenantsOfTheList
      <3> QED
        BY <1>1, <1>4, <1>8, <2>2, <3>2, LocksTaken DEF tenant_next
    <2> QED
      BY <2>1, <2>2
  <1> QED
    BY <1>5, <1>6, <1>7, <1>8 DEF Walk

(* The overview thread goes on to the host after the one it has read.      *)
LEMMA OverviewKeepsHosts ==
    ASSUME LockInv, ListInv, HostInv, Overview, Turn("overview"),
           tenantof' = tenantof
    PROVE  HostInv'
  <1>1. /\ "overview" \in Walkers /\ "overview" \in Procs
        /\ DOMAIN obj = Procs
    BY DEF Walkers, Procs, LockInv
  <1>2. CASE OverviewHost
    <2>1. pc'["overview"] = "reading" /\ obj'["overview"] # 0
          /\ cur' = cur /\ obj' = obj
          /\ UNCHANGED <<objs, hosts, freed, nxt>> /\ pc["overview"] = "visit"
      BY <1>1, <1>2, LocksTaken DEF OverviewHost, mem, local
    <2> QED
      BY <1>1, <2>1, WalkHosts
         DEF HostInv, WalkInv, AtHost, BetweenHosts
  <1>3. CASE OverviewNextHost
    <2> DEFINE o == obj["overview"]
               t == cur["overview"]
    <2>1. /\ pc["overview"] = "reading" /\ pc'["overview"] = "visit"
          /\ obj'["overview"] = Following(o) /\ cur' = cur
          /\ UNCHANGED <<objs, hosts, freed, nxt>>
      BY <1>1, <1>3, LocksTaken DEF OverviewNextHost, mem
    <2>2. o \in ToSet(hosts[t]) /\ t \in 1 .. NTenants
      BY <1>1, <2>1, AtATenant DEF HostInv, WalkInv, AtHost
    <2>3. Following(o) \in ToSet(hosts[t]) \cup {0}
      BY <2>2, NextHost DEF HostInv
    <2> QED
      BY <1>1, <2>1, <2>3, WalkHosts DEF AtHost, BetweenHosts
  <1> QED
    BY <1>1, <1>2, <1>3, WalkKeepsHosts DEF Overview

(* The watcher notes the next host and goes on to it, with the tenant      *)
(* given up and taken back in between or not.                              *)
LEMMA WatcherKeepsHosts ==
    ASSUME LockInv, ListInv, HostInv, Watcher, ~host_delete,
           Turn("watcher"), tenantof' = tenantof
    PROVE  HostInv'
  <1> DEFINE o == obj["watcher"]
             t == cur["watcher"]
  <1>1. /\ "watcher" \in Walkers /\ "watcher" \in Procs
        /\ DOMAIN obj = Procs
    BY DEF Walkers, Procs, LockInv
  <1>2. ASSUME UNCHANGED <<objs, hosts, freed, cur, obj, nxt>>,
               \/ pc["watcher"] \in AtHost /\ pc'["watcher"] \in AtHost
               \/ /\ pc["watcher"] \in BetweenHosts
                  /\ pc'["watcher"] \in BetweenHosts
        PROVE  HostInv'
    BY <1>1, <1>2, WalkHosts
       DEF HostInv, WalkInv, NextInv, AtHost, BetweenHosts
  <1>3. CASE WatchHost
    <2>1. /\ pc["watcher"] = "visit" /\ pc'["watcher"] = "watching"
          /\ o # 0 /\ nxt' = Following(o) /\ cur' = cur /\ obj' = obj
          /\ UNCHANGED <<objs, hosts, freed>>
      BY <1>1, <1>3, LocksTaken DEF WatchHost, mem
    <2>2. o \in ToSet(hosts[t]) /\ t \in 1 .. NTenants
      BY <1>1, <2>1, AtATenant DEF HostInv, WalkInv, BetweenHosts
    <2>3. nxt' \in (ToSet(hosts[t]) \ {o}) \cup {0}
      BY <2>1, <2>2, NextHost DEF HostInv
    <2>4. NextInv'
      BY <2>1, <2>3 DEF NextInv
    <2> QED
      BY <1>1, <2>1, <2>2, <2>4, WalkHosts DEF AtHost, BetweenHosts
  <1>4. CASE \E opened \in BOOLEAN : KeepHost(opened)
    <2>1. /\ pc["watcher"] = "watching" /\ pc'["watcher"] = "tally"
          /\ UNCHANGED <<objs, hosts, freed, cur, obj, nxt>>
      BY <1>1, <1>4, LocksTaken DEF KeepHost, local
    <2> QED
      BY <1>2, <2>1 DEF AtHost
  <1>5. CASE TallyHost
    <2>1. /\ pc["watcher"] = "tally" /\ pc'["watcher"] = "tallying"
          /\ UNCHANGED <<objs, hosts, freed, cur, obj, nxt>>
      BY <1>1, <1>5, LocksTaken DEF TallyHost, mem, local
    <2> QED
      BY <1>2, <2>1 DEF AtHost
  <1>6. CASE WatchNextHost
    <2>1. /\ pc["watcher"] = "tallying" /\ pc'["watcher"] = "visit"
          /\ obj'["watcher"] = nxt /\ cur' = cur
          /\ UNCHANGED <<objs, hosts, freed>>
      BY <1>1, <1>6, LocksTaken DEF WatchNextHost, mem
    <2>2. nxt \in ToSet(hosts[t]) \cup {0}
      BY <2>1 DEF HostInv, NextInv, AtHost
    <2>3. NextInv'
      BY <2>1 DEF NextInv, AtHost
    <2> QED
      BY <1>1, <2>1, <2>2, <2>3, WalkHosts DEF AtHost, BetweenHosts
  <1>7. CASE DropHost
    <2>1. /\ pc["watcher"] = "watching" /\ pc'["watcher"] = "relockW"
          /\ UNCHANGED <<objs, hosts, freed, cur, obj, nxt>>
      BY <1>1, <1>7, LocksTaken DEF DropHost, mem, local
    <2> QED
      BY <1>2, <2>1 DEF AtHost
  <1>8. CASE tenant_relock("relockW", "deleteTenant")
    <2>1. /\ pc["watcher"] = "relockW" /\ pc'["watcher"] = "deleteTenant"
          /\ UNCHANGED <<objs, hosts, freed, cur, obj, nxt>>
      BY <1>1, <1>8, LocksTaken DEF tenant_relock, mem, local
    <2> QED
      BY <1>2, <2>1 DEF AtHost
  <1>9. CASE tenant_relock("relockR", "backTenant")
    <2>1. /\ pc["watcher"] = "relockR" /\ pc'["watcher"] = "backTenant"
          /\ UNCHANGED <<objs, hosts, freed, cur, obj, nxt>>
      BY <1>1, <1>9, LocksTaken DEF tenant_relock, mem, local
    <2> QED
      BY <1>2, <2>1 DEF BetweenHosts
  <1>10. CASE BackToTenant
    <2>1. /\ pc["watcher"] = "backTenant" /\ pc'["watcher"] = "visit"
          /\ UNCHANGED <<objs, hosts, freed, cur, obj, nxt>>
      BY <1>1, <1>10, LocksTaken DEF BackToTenant, mem, local
    <2> QED
      BY <1>2, <2>1 DEF BetweenHosts
  <1> QED
    BY <1>1, <1>3, <1>4, <1>5, <1>6, <1>7, <1>8, <1>9, <1>10,
       WalkKeepsHosts DEF Watcher

(* host_delete frees a host that the other walk is not at, as it has the   *)
(* tenant for itself, and that is not the next one.                        *)
LEMMA DeleteKeepsHosts ==
    ASSUME LockInv, ListInv, HostInv, host_delete, tenantof' = tenantof
    PROVE  HostInv'
  <1> DEFINE o == obj["watcher"]
             t == cur["watcher"]
  <1>1. /\ "watcher" \in Walkers /\ "watcher" \in Procs
        /\ "overview" \in Procs /\ "overview" \in Walkers
        /\ DOMAIN obj = Procs
    BY DEF Walkers, Procs, LockInv
  <1>2. /\ pc["watcher"] = "deleteTenant" /\ pc'["watcher"] = "relockR"
        /\ pc'["overview"] = pc["overview"] /\ cur' = cur
        /\ Locks("watcher", {TENANTS}, "relockR")
        /\ obj'["watcher"] = nxt /\ obj'["overview"] = obj["overview"]
        /\ hosts' = [hosts EXCEPT ![t] = RemoveFirst(@, o)]
        /\ freed' = freed \cup {o} /\ objs' = objs
    BY <1>1, LocksTaken DEF host_delete, Procs
  <1>3. /\ o \in ToSet(hosts[t]) /\ t \in 1 .. NTenants
        /\ nxt \in (ToSet(hosts[t]) \ {o}) \cup {0}
    BY <1>1, <1>2, AtATenant DEF HostInv, WalkInv, NextInv, AtHost
  <1>4. /\ DOMAIN hosts = 1 .. NTenants /\ hosts[t] \in Seq(Nat)
        /\ Distinct(hosts[t])
    BY <1>3 DEF HostInv, HostsInv
  <1>5. /\ hosts'[t] \in Seq(Nat) /\ Distinct(hosts'[t])
        /\ ToSet(hosts'[t]) = ToSet(hosts[t]) \ {o}
        /\ \A s \in 1 .. NTenants \ {t} : hosts'[s] = hosts[s]
        /\ hosts' \in [1 .. NTenants -> Seq(Nat)]
    <2>1. hosts'[t] = RemoveFirst(hosts[t], o)
      BY <1>2, <1>3, <1>4
    <2>2. /\ hosts'[t] \in Seq(Nat) /\ Distinct(hosts'[t])
          /\ ToSet(hosts'[t]) = ToSet(hosts[t]) \ {o}
      BY <1>3, <1>4, <2>1, UnlinkedList
    <2> QED
      BY <1>2, <1>3, <1>4, <2>1, <2>2 DEF HostInv, HostsInv
  <1>6. HostsInv'
    <2>1. ASSUME NEW s \in 1 .. NTenants, NEW x \in ToSet(hosts'[s])
          PROVE  x \in ToSet(hosts[s]) /\ x # o
      <3>1. CASE s = t
        BY <1>5, <3>1
      <3>2. CASE s # t
        <4>1. x \in ToSet(hosts[s])
          BY <1>5, <3>2
        <4>2. tenantof[objs[x]] = s /\ tenantof[objs[o]] = t
          BY <1>3, <4>1 DEF HostInv, HostsInv
        <4> QED
          BY <3>2, <4>1, <4>2
      <3> QED
        BY <3>1, <3>2
    <2>2. \A s \in 1 .. NTenants : Distinct(hosts'[s])
      BY <1>5 DEF HostInv, HostsInv
    <2>3. o \in 1 .. Len(objs)
      BY <1>3 DEF HostInv, HostsInv
    <2>4. objs' \in Seq(Hosts) /\ freed' \subseteq 1 .. Len(objs')
      BY <1>2, <2>3 DEF HostInv, HostsInv
    <2>5. ASSUME NEW s \in 1 .. NTenants, NEW x \in ToSet(hosts'[s])
          PROVE  x \in 1 .. Len(objs') \ freed' /\ tenantof[objs'[x]] = s
      <3>1. x \in ToSet(hosts[s]) /\ x # o
        BY <2>1, <2>5
      <3>2. x \in 1 .. Len(objs) \ freed /\ tenantof[objs[x]] = s
        BY <3>1 DEF HostInv, HostsInv
      <3> QED
        BY <1>2, <3>1, <3>2
    <2> QED
      BY <1>5, <2>2, <2>4, <2>5 DEF HostsInv
  <1>7. pc["overview"] \in AtHost \cup BetweenHosts => cur["overview"] # t
    <2>1. Wants("watcher") = {<<T(t), "W">>}
      BY <1>1, <1>2, WantsAt
    <2>2. <<T(t), "R">> \notin held["overview"]
      <3> DEFINE w == <<T(t), "W">>
      <3>1. w \in Wants("watcher") /\ w[1] = T(t) /\ w[2] = "W"
        BY <2>1
      <3> HIDE DEF w
      <3> QED
        BY <1>1, <1>2, <3>1, LocksTaken
    <2>3. Holds("overview") /\ pc["overview"] \in Places("overview")
      BY <1>1 DEF LockInv
    <2> QED
      BY <2>2, <2>3 DEF Holds, Keeps, Places, AtHost, BetweenHosts
  <1>8. WalkInv'
    <2>1. /\ pc["overview"] \in AtHost =>
                obj["overview"] \in ToSet(hosts'[cur["overview"]])
          /\ pc["overview"] \in BetweenHosts =>
                obj["overview"] \in ToSet(hosts'[cur["overview"]]) \cup {0}
      <3>1. pc["overview"] \in AtHost \cup BetweenHosts =>
                cur["overview"] \in 1 .. NTenants
        BY <1>1, AtATenant DEF AtHost, BetweenHosts
      <3> QED
        BY <1>1, <1>5, <1>7, <3>1 DEF HostInv, WalkInv
    <2> QED
      BY <1>2, <1>3, <1>5, <2>1 DEF WalkInv, Walkers, AtHost, BetweenHosts
  <1> QED
    BY <1>2, <1>6, <1>8 DEF HostInv, NextInv, AtHost

(* The packet thread leaves the walks where they are, and but for          *)
(* host_find the hosts as well.                                            *)
PacketTurn ==
    /\ nxt' = nxt
    /\ \A q \in Walkers :
          pc'[q] = pc[q] /\ cur'[q] = cur[q] /\ obj'[q] = obj[q]
    /\ host_find \/ UNCHANGED <<objs, hosts, freed>>

(* The steps of the packet thread for hosts are those.                     *)
LEMMA PacketTurns ==
    ASSUME LockInv, Packet
    PROVE  PacketTurn
  <1>1. /\ "packet" \in Procs /\ \A q \in Walkers : q # "packet"
        /\ Walkers \subseteq Procs
        /\ DOMAIN pc = Procs /\ DOMAIN cur = Procs /\ DOMAIN obj = Procs
    BY DEF Walkers, Procs, LockInv
  <1>2. ASSUME NEW give, NEW place, Locks("packet", give, place)
        PROVE  \A q \in Walkers : pc'[q] = pc[q]
    BY <1>1, <1>2, LocksTaken
  <1>3. ASSUME NEW h \in Hosts, AuthPacket(h) PROVE PacketTurn
    BY <1>1, <1>3 DEF AuthPacket, PacketTurn, mem
  <1>4. ASSUME NEW h \in Hosts, MeterPacket(h) PROVE PacketTurn
    BY <1>1, <1>4 DEF MeterPacket, PacketTurn, mem
  <1>5. CASE TenantFind
    BY <1>2, <1>5 DEF TenantFind, PacketTurn, mem, local
  <1>6. CASE TenantCreate
    BY <1>2, <1>6 DEF TenantCreate, PacketTurn, local
  <1>7. CASE TenantLocked
    BY <1>2, <1>7 DEF TenantLocked, PacketTurn, mem, local
  <1>8. CASE TenantKeyResolved
    BY <1>1, <1>2, <1>8 DEF TenantKeyResolved, PacketTurn, mem
  <1>9. CASE AuthRefused
    BY <1>1, <1>2, <1>9 DEF AuthRefused, PacketDone, PacketTurn, mem
  <1>10. CASE host_find
    BY <1>1, <1>2, <1>10 DEF host_find, PacketTurn
  <1>11. CASE TouchHost
    BY <1>2, <1>11 DEF TouchHost, PacketTurn, local
  <1>12. CASE \E expired \in SUBSET Hosts : AuthDone(expired)
    BY <1>1, <1>2, <1>12 DEF AuthDone, PacketDone, PacketTurn
  <1>13. CASE TryHost
    BY <1>1, <1>13 DEF TryHost, PacketTurn, mem, local
  <1>14. CASE TryHostFails
    BY <1>1, <1>14 DEF TryHostFails, PacketDone, PacketTurn, mem
  <1>15. CASE MeterDone
    BY <1>1, <1>2, <1>15 DEF MeterDone, PacketDone, PacketTurn
  <1> QED
    BY <1>3, <1>4, <1>5, <1>6, <1>7, <1>8, <1>9, <1>10, <1>11, <1>12, <1>13,
       <1>14, <1>15 DEF Packet

(* Links that are added keep the walks where they are.                     *)
LEMMA WalksStay ==
    ASSUME HostInv, ListInv, PacketTurn, HostsInv',
           \A t \in 1 .. NTenants : ToSet(hosts[t]) \subseteq ToSet(hosts'[t])
    PROVE  HostInv'
  <1>1. "watcher" \in Walkers
    BY DEF Walkers
  <1>2. \A p \in Walkers : pc[p] \in AtHost \cup BetweenHosts =>
            cur[p] \in 1 .. NTenants
    BY AtATenant DEF AtHost, BetweenHosts
  <1>3. WalkInv'
    BY <1>2 DEF HostInv, WalkInv, PacketTurn
  <1>4. NextInv'
    BY <1>1, <1>2 DEF HostInv, NextInv, PacketTurn
  <1> QED
    BY <1>3, <1>4 DEF HostInv

(* host_find links a new object to the tenant of its packet.               *)
LEMMA FindKeepsHosts ==
    ASSUME ListInv, HostInv, host_find, PacketTurn, tenantof' = tenantof
    PROVE  HostInv'
  <1> DEFINE o == Len(objs) + 1
             t == cur["packet"]
  <1>1. job \in Hosts /\ t = tenantof[job] /\ t \in 1 .. NTenants
    BY DEF host_find, ListInv
  <1>2. /\ objs \in Seq(Hosts) /\ Len(objs) \in Nat /\ freed' = freed
        /\ DOMAIN hosts = 1 .. NTenants /\ hosts[t] \in Seq(Nat)
        /\ Distinct(hosts[t])
        /\ \A x \in ToSet(hosts[t]) : x \in 1 .. Len(objs)
    BY <1>1 DEF HostInv, HostsInv, host_find
  <1>3. CASE Lookup(job) # 0
    <2>1. UNCHANGED <<tenantof, objs, hosts, freed>>
      BY <1>3 DEF host_find
    <2> QED
      BY <2>1, HostsStay, WalksStay DEF HostInv
  <1>4. CASE Lookup(job) = 0
    <2>1. objs' = Append(objs, job)
          /\ hosts' = [hosts EXCEPT ![t] = Append(@, o)]
      BY <1>4 DEF host_find
    <2>2. /\ objs' \in Seq(Hosts) /\ Len(objs') = o /\ objs'[o] = job
          /\ \A x \in 1 .. Len(objs) : objs'[x] = objs[x]
      BY <1>1, <1>2, <2>1, AppendProperties
    <2>3. o \in Nat /\ o \notin ToSet(hosts[t]) /\ o \notin freed
      BY <1>2 DEF HostInv, HostsInv
    <2>4. /\ hosts'[t] \in Seq(Nat) /\ Distinct(hosts'[t])
          /\ ToSet(hosts'[t]) = ToSet(hosts[t]) \cup {o}
      <3>1. hosts'[t] = Append(hosts[t], o)
        BY <1>1, <1>2, <2>1
      <3> QED
        BY <1>2, <2>3, <3>1, LongerList
    <2>5. /\ \A s \in 1 .. NTenants \ {t} : hosts'[s] = hosts[s]
          /\ hosts' \in [1 .. NTenants -> Seq(Nat)]
      <3>1. /\ \A s \in 1 .. NTenants \ {t} : hosts'[s] = hosts[s]
            /\ DOMAIN hosts' = 1 .. NTenants
        BY <1>1, <1>2, <2>1
      <3> QED
        BY <1>1, <2>1, <2>4, <3>1 DEF HostInv, HostsInv
    <2>6. ASSUME NEW s \in 1 .. NTenants
          PROVE  /\ Distinct(hosts'[s])
                 /\ \A x \in ToSet(hosts'[s]) :
                       /\ x \in 1 .. Len(objs') \ freed'
                       /\ tenantof'[objs'[x]] = s
      <3>1. /\ Distinct(hosts[s])
            /\ \A x \in ToSet(hosts[s]) : /\ x \in 1 .. Len(objs) \ freed
                                         /\ tenantof[objs[x]] = s
        BY DEF HostInv, HostsInv
      <3>2. Distinct(hosts'[s])
        <4>1. CASE s = t
          BY <2>4, <4>1
        <4>2. CASE s # t
          BY <2>5, <3>1, <4>2
        <4> QED
          BY <4>1, <4>2
      <3>3. ASSUME NEW x \in ToSet(hosts'[s])
            PROVE  x \in 1 .. Len(objs') \ freed' /\ tenantof'[objs'[x]] = s
        <4>1. CASE x \in ToSet(hosts[s])
          <5>1. x \in 1 .. Len(objs) /\ x \notin freed /\ tenantof[objs[x]] = s
            BY <3>1, <4>1
          <5>2. objs'[x] = objs[x] /\ x \in 1 .. Len(objs')
            BY <1>2, <2>2, <5>1
          <5> QED
            BY <1>2, <5>1, <5>2
        <4>2. CASE x \notin ToSet(hosts[s])
          <5>1. s = t
            BY <2>5, <4>2
          <5>2. x = o
            BY <2>4, <4>2, <5>1
          <5>3. x \in 1 .. Len(objs') /\ objs'[x] = job
            BY <1>2, <2>2, <5>2
          <5> QED
            BY <1>1, <1>2, <2>3, <5>1, <5>2, <5>3
        <4> QED
          BY <4>1, <4>2
      <3> QED
        BY <3>2, <3>3
    <2>7. HostsInv'
      BY <1>2, <2>2, <2>5, <2>6 DEF HostInv, HostsInv
    <2>8. \A s \in 1 .. NTenants : ToSet(hosts[s]) \subseteq ToSet(hosts'[s])
      BY <2>4, <2>5
    <2> QED
      BY <2>7, <2>8, WalksStay
  <1> QED
    BY <1>3, <1>4

(* Every step keeps the linked hosts alive and the walks at them.          *)
LEMMA HostStep ==
    ASSUME LockInv, ListInv, HostInv, [Next]_vars
    PROVE  HostInv'
  <1>1. ASSUME UNCHANGED <<tenantof, objs, hosts, freed, pc, cur, obj, nxt>>
        PROVE  HostInv'
    BY <1>1, HostsStay DEF HostInv, WalkInv, NextInv
  <1>2. CASE Packet /\ tenantof' = tenantof
    <2>1. PacketTurn
      BY <1>2, PacketTurns
    <2>2. CASE host_find
      BY <1>2, <2>1, <2>2, FindKeepsHosts
    <2>3. CASE UNCHANGED <<objs, hosts, freed>>
      BY <1>2, <2>1, <2>3, HostsStay, WalksStay DEF HostInv
    <2> QED
      BY <2>1, <2>2, <2>3 DEF PacketTurn
  <1>3. CASE Watcher /\ tenantof' = tenantof
    BY <1>3, WalkerTurns, WatcherKeepsHosts, DeleteKeepsHosts
  <1>4. CASE Overview /\ tenantof' = tenantof
    BY <1>4, WalkerTurns, OverviewKeepsHosts
  <1>5. CASE (\E o \in 1 .. MaxObjects : GoStale(o)) /\ tenantof' = tenantof
    BY <1>1, <1>5 DEF GoStale, local
  <1>6. CASE (\E h \in Hosts : RemoveFromDb(h)) /\ tenantof' = tenantof
    BY <1>1, <1>6 DEF RemoveFromDb, local
  <1>7. CASE UNCHANGED vars
    BY <1>1, <1>7 DEF vars, mem, local
  <1> QED
    BY <1>2, <1>3, <1>4, <1>5, <1>6, <1>7 DEF Next

(* The hosts that are linked are alive, and the walks are at linked ones.  *)
THEOREM HostsInvariant == Spec => [](ThreadInv /\ HostInv)
  <1>1. Init => HostInv
    BY HostInit
  <1>2. ThreadInv /\ HostInv /\ [Next]_vars => HostInv'
    BY HostStep DEF ThreadInv
  <1> QED
    BY <1>1, <1>2, LocksInvariant, PTL DEF Spec

(* Neither walk comes to a host that host_delete has freed.                *)
THEOREM WalksComeToLiveHosts == Spec => []WalksStayAlive
  <1>1. ThreadInv /\ HostInv => WalksStayAlive
    <2> SUFFICES ASSUME ThreadInv, HostInv, NEW p \in Walkers,
                        pc[p] \in {"visit", "reading", "watching", "tally",
                                   "tallying"}
                 PROVE  obj[p] \notin freed
      BY DEF WalksStayAlive
    <2>1. obj[p] \in ToSet(hosts[cur[p]]) \cup {0}
      BY DEF HostInv, WalkInv, AtHost, BetweenHosts
    <2>2. cur[p] \in 1 .. NTenants
      BY AtATenant DEF ThreadInv
    <2> QED
      BY <2>1, <2>2 DEF HostInv, HostsInv
  <1> QED
    BY <1>1, HostsInvariant, PTL
=============================================================================
