----------------------------- MODULE MCReports ------------------------------
(* Instances of SessionProtocol and HostMeters for TLC: which packets the  *)
(* collector takes for an agent's newest, and what it makes of the reports *)
(* in them.  The models share no variable; a behaviour is one of the two,  *)
(* and the other stands still.                                             *)
EXTENDS SessionProtocol, MCHostMeters

VARIABLE part

SessionPart == part = "session" /\ UNCHANGED <<part, metersVars>>
MetersPart == part = "meters" /\ UNCHANGED <<part, vars>>

(* Where the meters stand still they do so in one state. *)
NoReports ==
    /\ world = CHOOSE w \in MCWorlds : w.metadata # {}
    /\ host = host_alloc /\ silent = 0 /\ adjust = {}
    /\ record = Nothing /\ round = "due" /\ crsr = Nothing
    /\ summ = <<>> /\ summary = Nothing /\ restarts = 0

MCInit ==
    /\ part \in {"session", "meters"}
    /\ Init
    /\ IF part = "meters" THEN MetersInit ELSE NoReports

MCNext ==
    \/ SessionPart /\ Next
    \/ MetersPart /\ MetersNext

MCSpec == MCInit /\ [][MCNext]_<<part, vars, metersVars>>
=============================================================================
