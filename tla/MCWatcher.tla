----------------------------- MODULE MCWatcher ------------------------------
(* Instances of HostStatus, Notify and Ping for TLC: what the watcher      *)
(* thread's round leads to, the pings it takes into a host's record and    *)
(* those who read the status it sets.  The models share no variable; a     *)
(* behaviour is one of the three, and the others stand still.              *)
EXTENDS HostStatus, Notify, Ping

VARIABLE part

StatusPart == part = "status" /\ UNCHANGED <<part, notifyVars, pingVars>>
NotifyPart == part = "notify" /\ UNCHANGED <<part, statusVars, pingVars>>
PingPart == part = "ping" /\ UNCHANGED <<part, statusVars, notifyVars>>

MCInit ==
    /\ part \in {"status", "notify", "ping"}
    /\ IF part = "status" THEN StatusInit
       ELSE /\ badness = 0 /\ status = "OK" /\ condition = "NONE"
            /\ tenantwatch = {} /\ odd = FALSE
    /\ NotifyInit
    /\ PingInit /\ (part # "ping" => mood = "erratic" /\ seqno = 0)

MCNext ==
    \/ StatusPart /\ StatusNext
    \/ NotifyPart /\ NotifyNext
    \/ PingPart /\ PingNext

MCVars == <<part, statusVars, notifyVars, pingVars>>

(* The fairness of StatusFairSpec, NotifyFairSpec and PingFairness.  In a   *)
(* behaviour at most one of the actions under each WF can ever be taken.    *)
MCSpec ==
    /\ MCInit /\ [][MCNext]_MCVars
    /\ WF_MCVars(\/ StatusPart /\ Round
                 \/ NotifyPart /\ NotifyTick
                 \/ PingPart /\ Sender)
    /\ WF_MCVars(\/ NotifyPart /\ tenant_check_notification
                 \/ PingPart /\ Ask)
    /\ \A r \in Receivers : WF_MCVars(PingPart /\ Receiver(r))

(* The tenant defines nothing, or only a warning for one meter. *)
WarningOnly == {{}, {<<"pcpu", "WARN">>}}
=============================================================================
