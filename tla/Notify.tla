------------------------------- MODULE Notify -------------------------------
(***************************************************************************)
(* A tenant's notifications: the watcher thread, which calls               *)
(* tenant_set_notification when it sees a host's status change             *)
(* (opticon-collector/watcher.c), and the overview thread, which once a    *)
(* minute has tenant_check_notification make up a message.  How a host     *)
(* comes by its status is the subject of HostStatus; here the watcher may  *)
(* find any.  A restart of the collector loses the list, while the status  *)
(* of the hosts that have a session is read back from the database.        *)
(***************************************************************************)
EXTENDS NotifyList

CONSTANTS
    Trouble,         \* the statuses of a badness of 80 or more, and STALE
    MaxRestarts      \* bound of the model: restarts of the collector

ASSUME TroubleAssumption ==
    /\ Trouble \subseteq Statuses
    /\ "STALE" \in Trouble
    /\ "UNSET" \in Statuses \ Trouble
    /\ MaxRestarts \in Nat

VARIABLES
    notify,    \* the tenant's notifylist
    hoststatus, \* host -> its status meter
    restarts,  \* restarts of the collector so far
    (* History variables: no step depends on them. *)
    told,      \* host -> what the last message about it said
    restored   \* hosts whose status was read back and has not changed since

notifyVars == <<notify, hoststatus, restarts, told, restored>>

NotifyInit ==
    /\ notify = notifylist_init
    /\ hoststatus = [h \in Hosts |-> "UNSET"]
    /\ restarts = 0
    /\ told = [h \in Hosts |-> "nothing"]
    /\ restored = {}

(* Mutant: the status of a notification is not brought up to date. *)
KeepStatus(n, s) == n

(* strncpy into n->status. *)
UpdateStatus(n, s) == [n EXCEPT !.status = s]

(* Mutant: time starts over with every change of status. *)
RequeueAlways(list, p, isproblem) ==
    [list EXCEPT !.mem[p].age = 0, !.mem[p].notified = FALSE]

(* What tenant_set_notification does about a notification already there. *)
Requeue(list, p, isproblem) ==
    LET n == list.mem[p]
    IN  IF n.isproblem = isproblem
        THEN list
        ELSE IF n.isproblem /\ ~n.notified
        THEN notifylist_remove(list, p)
        ELSE [list EXCEPT !.mem[p].age = 0, !.mem[p].notified = FALSE]

(* The lists tenant_set_notification can leave: the address of a new       *)
(* object is the allocator's choice.                                       *)
tenant_set_notification(list, isproblem, s, hostid) ==
    LET p == notifylist_find(list, hostid)
    IN  IF p # NULL
        THEN {Requeue([list EXCEPT !.mem[p] = UpdateStatus(@, s)],
                      p, isproblem)}
        ELSE IF isproblem
        THEN {notifylist_link(list, q,
                              notification_create(hostid, s, isproblem)) :
                q \in Slots \ Allocated(list)}
        ELSE {list}

(* The watcher finds that a host's status is now s. *)
Watch(h, s) ==
    /\ s # "UNSET"
    /\ s # hoststatus[h]
    /\ notify' \in tenant_set_notification(notify, s \in Trouble, s, h)
    /\ hoststatus' = [hoststatus EXCEPT ![h] = s]
    /\ restored' = restored \ {h}
    /\ UNCHANGED <<restarts, told>>

(* The watcher removes a STALE host that is not in the database any more:  *)
(* if it ever comes back it does so as a new host.                         *)
RemoveHost(h) ==
    /\ hoststatus[h] = "STALE"
    /\ hoststatus' = [hoststatus EXCEPT ![h] = "UNSET"]
    /\ restored' = restored \ {h}
    /\ UNCHANGED <<notify, restarts, told>>

(* tenant_check_notification: everything overdue goes into the message as  *)
(* soon as one notification is actionable.                                 *)
tenant_check_notification ==
    LET due == IF notifylist_check_actionable(notify)
               THEN notifylist_find_overdue(notify) ELSE {}
    IN  /\ notify' =
             [notify EXCEPT !.mem = [p \in Allocated(notify) |->
                IF p \in due THEN [notify.mem[p] EXCEPT !.notified = TRUE]
                ELSE notify.mem[p]]]
        /\ told' = [h \in Hosts |->
             IF \E p \in due : notify.mem[p].hostid = h
             THEN LET s == notify.mem[notifylist_find(notify, h)].status
                  IN  IF s \in Trouble THEN "trouble" ELSE "calm"
             ELSE told[h]]
        /\ UNCHANGED <<hoststatus, restarts, restored>>

NotifyTick ==
    /\ notify' = Older(notify)
    /\ UNCHANGED <<hoststatus, restarts, told, restored>>

(* The collector stops and starts: back are the hosts with a session. *)
CollectorRestart(back) ==
    /\ restarts < MaxRestarts
    /\ restarts' = restarts + 1
    /\ notify' = notifylist_init
    /\ hoststatus' =
         [h \in Hosts |-> IF h \in back THEN hoststatus[h] ELSE "UNSET"]
    /\ restored' = back
    /\ UNCHANGED told

NotifyNext ==
    \/ \E h \in Hosts, s \in Statuses : Watch(h, s)
    \/ \E h \in Hosts : RemoveHost(h)
    \/ tenant_check_notification
    \/ NotifyTick
    \/ \E back \in SUBSET Hosts : CollectorRestart(back)

NotifySpec == NotifyInit /\ [][NotifyNext]_notifyVars

(* Time passes and the overview thread goes round every minute. *)
NotifyFairSpec ==
    /\ NotifySpec
    /\ WF_notifyVars(NotifyTick) /\ WF_notifyVars(tenant_check_notification)

-----------------------------------------------------------------------------
(* Type correctness; what is queued was a problem when it came up, since   *)
(* tenant_set_notification creates a notification for nothing else.        *)
NotifyTypeOK ==
    /\ Allocated(notify) \subseteq Slots
    /\ \A p \in Allocated(notify) :
         notify.mem[p] \in Notification /\ notify.mem[p].isproblem
    /\ {notify.first, notify.last} \subseteq Slots \cup {NULL}
    /\ hoststatus \in [Hosts -> Statuses]
    /\ restarts \in 0 .. MaxRestarts
    /\ told \in [Hosts -> {"nothing", "trouble", "calm"}]
    /\ restored \subseteq Hosts

(* "Add a notification object to a notifylist" (notifylist_link): a host   *)
(* in trouble has a notification, and the list's walkers find it, unless   *)
(* the trouble is older than the collector's last start.  The third host   *)
(* in trouble at a time takes the second one's place in the list.          *)
TroubleIsListed ==
    \A h \in Hosts :
        hoststatus[h] \in Trouble /\ h \notin restored =>
            notifylist_find(notify, h) # NULL

(* A message about a host gives the status the host has at that moment,    *)
(* however often it changed while the notification was queued.             *)
ListedStatusIsCurrent ==
    \A h \in Hosts :
        notifylist_find(notify, h) # NULL /\ hoststatus[h] # "UNSET" =>
            notify.mem[notifylist_find(notify, h)].status = hoststatus[h]

(* The first trouble of a host is reported, or it passes: a status that    *)
(* moves between the kinds of trouble does not put the message off.        *)
FirstTroubleReported ==
    \A h \in Hosts :
        []<>~(hoststatus[h] \in Trouble /\ told[h] = "nothing"
                /\ h \notin restored)
=============================================================================
