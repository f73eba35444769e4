------------------------------ MODULE MCReaper ------------------------------
(* Instances of Reaper and Daemon for TLC: the collector's jobs that have   *)
(* nothing to do with packets.  The models share no variable; a behaviour   *)
(* is one of the two, and the other stands still.                           *)
EXTENDS Reaper, Daemon

VARIABLE part

ReaperPart == part = "reaper" /\ UNCHANGED <<part, daemonVars>>
DaemonPart == part = "daemon" /\ UNCHANGED <<part, vars>>

MCInit ==
    /\ part \in {"reaper", "daemon"}
    /\ Init /\ DaemonInit
    /\ part = "reaper" => file.entries = [k \in Keys |-> <<"int", 1>>]

MCNext ==
    \/ ReaperPart /\ Next
    \/ DaemonPart /\ DaemonNext
MCVars == <<part, vars, daemonVars>>

(* The fairness of FairSpec and DaemonFairness; in a behaviour only one of *)
(* the first two actions can ever be taken.                                 *)
MCSpec ==
    /\ MCInit /\ [][MCNext]_MCVars
    /\ WF_MCVars(\/ ReaperPart /\ ReaperNext
                 \/ DaemonPart /\ WatchdogProcess)
    /\ WF_MCVars(DaemonPart /\ ChildStarts)
    /\ WF_MCVars(DaemonPart /\ ReloaderThread)

(* The first tenant has two hosts, any other none. *)
TwoAndNone == [t \in Tenants |-> IF t = 1 THEN {1, 2} ELSE {}]

(* The last has the hosts. *)
LastHasHost == [t \in Tenants |-> IF t = 3 THEN {1} ELSE {}]

(* The first tenant has a quota of its own, the others have the default. *)
FirstHasQuota == [t \in Tenants |-> IF t = 1 THEN 1 ELSE 0]

TwoTypes == {<<"int", 1>>, <<"int", 2>>, <<"str", 1>>}
=============================================================================
