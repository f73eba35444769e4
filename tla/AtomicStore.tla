---------------------------- MODULE AtomicStore ----------------------------
(***************************************************************************)
(* What the API promises of its documents.  A request that has them to     *)
(* itself from its start to its answer reads them and replaces the one it  *)
(* changes in a single step, once, before its answer; a removal takes the  *)
(* documents one by one and is not answered before the last.  A crash      *)
(* loses the requests under way with what they had left to do, and nothing *)
(* else.  Requests that change the documents of a tenant, or the users, at *)
(* the same time are rivals: they are promised nothing, and may leave      *)
(* anything there, but only there.                                         *)
(***************************************************************************)
EXTENDS ApiHandlers

CONSTANT Clients

VARIABLES files,   \* meta, host and users: a document, Absent or Torn
          doing    \* [Clients -> the request under way, whether done, and
                   \* whether it has met a rival]

Nothing == [req |-> R("none", "none", "none", 0), done |-> FALSE,
            rival |-> FALSE]
Kept == {"meta", "host", "users"}

\* What a file holds for a handler; a host without a document has an empty
\* one.
Content(fs) ==
    [f \in Kept |-> IF fs[f] \notin {Absent, Torn} THEN fs[f]
                    ELSE IF f = "host" THEN EmptyHost ELSE Null]

Rivals(c, r) == {d \in Clients \ {c} : /\ Group(r) # "none"
                                       /\ Group(doing[d].req) = Group(r)}

Begin(c, r) ==
    /\ doing[c] = Nothing
    /\ doing' = [d \in Clients |->
                    IF d = c THEN [req |-> r, done |-> FALSE,
                                   rival |-> Rivals(c, r) # {}]
                    ELSE IF d \in Rivals(c, r)
                    THEN [doing[d] EXCEPT !.rival = TRUE] ELSE doing[d]]
    /\ UNCHANGED files

Apply(c) ==
    LET r == doing[c].req IN
    /\ Target(r) \in Kept /\ ~doing[c].done
    /\ ~Refused(r, Content(files)) /\ ~GoesDown(r, Content(files))
    /\ files' = [files EXCEPT ![Target(r)] = Change(r, Content(files))]
    /\ doing' = [doing EXCEPT ![c].done = TRUE]

\* What a removal takes.
Taken(r) == CASE r.op = "delete"      -> {"meta", "host"}
              [] r.op = "remove_host" -> {"host"}
              [] OTHER                -> {}

Remove(c) ==
    /\ \E f \in Taken(doing[c].req) : files' = [files EXCEPT ![f] = Absent]
    /\ UNCHANGED doing

\* The only changes that are not made are those that were refused, and
\* those of the first document of a host that has no directory.
Fulfilled(c) ==
    LET r == doing[c].req IN
    /\ Target(r) \in Kept /\ ~doing[c].done =>
          \/ Refused(r, Content(files))
          \/ Target(r) = "host" /\ files.host = Absent
    /\ \A f \in Taken(r) : files[f] = Absent

Answer(c) ==
    /\ doing[c] # Nothing
    /\ doing[c].rival \/ Fulfilled(c)
    /\ doing' = [doing EXCEPT ![c] = Nothing]
    /\ UNCHANGED files

Interfere(c) ==
    /\ doing[c].rival
    /\ \A f \in Kept : GroupOf(f) # Group(doing[c].req) =>
                           files'[f] = files[f]
    /\ doing' \in {doing, [doing EXCEPT ![c].done = TRUE]}

Crash ==
    /\ doing' = [c \in Clients |-> Nothing]
    /\ UNCHANGED files

Next == (\E c \in Clients :
              \/ \E r \in TenantWrites \union HostWrites \union UserWrites
                          \union TenantLife \union Lists : Begin(c, r)
              \/ Apply(c) \/ Remove(c) \/ Answer(c) \/ Interfere(c))
        \/ Crash

Init ==
    /\ doing = [c \in Clients |-> Nothing]
    /\ files \in [meta : {Absent} \union {NewTenant(val) : val \in Values},
                  host : {Absent, EmptyHost}, users : {NoUsers}]

Spec == Init /\ [][Next]_<<files, doing>>
=============================================================================
