----------------------------- MODULE NotifyList -----------------------------
(***************************************************************************)
(* The linked list of a tenant's outstanding notifications                 *)
(* (libopticon/notify.c), pointer by pointer: a list is its two ends and   *)
(* the memory its objects live in.  lastchange is kept as an age, which    *)
(* stops counting once no comparison can tell it from a greater one.       *)
(***************************************************************************)
EXTENDS Integers, FiniteSets, FiniteSetsExt

CONSTANTS
    Hosts,           \* host uuids of the tenant
    Statuses,        \* the texts of a status
    Slots,           \* addresses malloc can return, numbers from 1
    Overdue,         \* 120 s: older than this goes along in a message
    Actionable       \* 290 s: older than this makes a message go out

ASSUME NotifyListAssumption ==
    /\ IsFiniteSet(Slots) /\ Slots = 1 .. Cardinality(Slots)
    /\ Overdue \in Nat /\ Actionable \in Nat /\ Overdue <= Actionable

NULL == 0
MaxAge == Actionable + 1

Notification ==
    [next : Slots \cup {NULL}, prev : Slots \cup {NULL}, hostid : Hosts,
     status : Statuses, isproblem : BOOLEAN, notified : BOOLEAN,
     age : 0 .. MaxAge]

(* mem holds an object for each address that is allocated. *)
notifylist_init == [first |-> NULL, last |-> NULL, mem |-> <<>>]

Allocated(list) == DOMAIN list.mem

(* notification_create as tenant_set_notification fills it in. *)
notification_create(hostid, status, isproblem) ==
    [next |-> NULL, prev |-> NULL, hostid |-> hostid, status |-> status,
     isproblem |-> isproblem, notified |-> FALSE, age |-> 0]

(* An assignment through a pointer: writing to a freed object leaves every *)
(* allocated one as it is.                                                 *)
SetNext(mem, p, q) ==
    IF p \in DOMAIN mem THEN [mem EXCEPT ![p].next = q] ELSE mem
SetPrev(mem, p, q) ==
    IF p \in DOMAIN mem THEN [mem EXCEPT ![p].prev = q] ELSE mem

(* The object n at address p is added after the last one.  Only for the    *)
(* first object is the list's last set.                                    *)
notifylist_link(list, p, n) ==
    LET mem == [q \in Allocated(list) \cup {p} |->
                  IF q = p THEN [n EXCEPT !.next = NULL, !.prev = list.last]
                  ELSE list.mem[q]]
    IN  IF list.last # NULL
        THEN [list EXCEPT !.mem = SetNext(mem, list.last, p)]
        ELSE [list EXCEPT !.mem = mem, !.first = p, !.last = p]

(* Unlink the object at p and free it. *)
notifylist_remove(list, p) ==
    LET n == list.mem[p]
        rest == [q \in Allocated(list) \ {p} |-> list.mem[q]]
    IN  [first |-> IF n.prev = NULL THEN n.next ELSE list.first,
         last |-> IF n.next # NULL THEN list.last ELSE n.prev,
         mem |-> SetPrev(SetNext(rest, n.prev, n.next), n.next, n.prev)]

(* The address a loop over the list looks at in its k-th turn. *)
Cursor(list) ==
    LET c[k \in 0 .. Cardinality(Slots)] ==
          IF k = 0 THEN list.first
          ELSE IF c[k - 1] \in Allocated(list)
          THEN list.mem[c[k - 1]].next ELSE NULL
    IN  c

(* The objects such a loop comes by. *)
Listed(list) ==
    {Cursor(list)[k] : k \in 0 .. Cardinality(Slots)} \cap Allocated(list)

notifylist_find(list, hostid) ==
    LET found == {k \in 0 .. Cardinality(Slots) :
                    /\ Cursor(list)[k] \in Allocated(list)
                    /\ list.mem[Cursor(list)[k]].hostid = hostid}
    IN  IF found = {} THEN NULL ELSE Cursor(list)[Min(found)]

notifylist_check_actionable(list) ==
    \E p \in Listed(list) :
        list.mem[p].age > Actionable /\ ~list.mem[p].notified

(* What notifylist_find_overdue, called until it returns NULL, returns. *)
notifylist_find_overdue(list) ==
    {p \in Listed(list) : list.mem[p].age > Overdue /\ ~list.mem[p].notified}

(* A unit of time passes. *)
Older(list) ==
    [list EXCEPT !.mem = [p \in Allocated(list) |->
        [list.mem[p] EXCEPT !.age = IF @ = MaxAge THEN @ ELSE @ + 1]]]
=============================================================================
