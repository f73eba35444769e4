-------------------------------- MODULE Ping --------------------------------
(***************************************************************************)
(* The pings of opticon-collector (ping.c): the watcher asks for the loss  *)
(* of a host's address and so puts it on the list, a sender thread pings   *)
(* the addresses on the list every ten seconds, and two receiver threads   *)
(* take the replies off one raw socket.  The list has a mutex; a target is *)
(* read and written without one, so its assignments are steps of their     *)
(* own.                                                                    *)
(*                                                                         *)
(* There is one address.  Of a round trip time only that there was one is  *)
(* kept.  A reply carries the low 16 bits of the sequence of its ping;     *)
(* icmp_id, which holds the others, is not looked at.                      *)
(***************************************************************************)
EXTENDS Integers, FiniteSets

CONSTANTS
    RingSize,      \* 32 results
    SeqWrap,       \* 2^32
    LowWrap,       \* 2^16
    Receivers,     \* the two threads that run ping_run_receiver_v4
    NoTarget

ASSUME PingAssumption ==
    /\ RingSize \in Nat \ {0}
    /\ LowWrap \in Nat \ {0} /\ SeqWrap \in Nat
    /\ SeqWrap % LowWrap = 0 /\ LowWrap < SeqWrap

Moods == {"dead", "prompt", "erratic"}

VARIABLES
    mood,      \* how the host answers at present
    watching,  \* whether the host is in memory and has sent its address
    target,    \* its pingtarget
    unasked,   \* whether target->lastseen is three minutes ago
    seqno,     \* PINGSTATE.sequence
    sender,    \* the sender thread: where it is, and its wpos
    receiver,  \* receiver -> the same
    replies    \* the replies on their way, by the low bits

pingVars ==
    <<mood, watching, target, unasked, seqno, sender, receiver, replies>>

At(pc) == [pc |-> pc, w |-> 0]

PingInit ==
    /\ mood \in Moods /\ watching = TRUE
    /\ target = NoTarget /\ unasked = FALSE
    /\ seqno \in 0 .. SeqWrap - 1
    /\ sender = At("rest") /\ receiver = [r \in Receivers |-> At("recv")]
    /\ replies = {}

(* The results of a new target are all 0.0, which is no loss. *)
pingtarget_create ==
    [sequence |-> 0, data |-> [i \in 0 .. RingSize - 1 |-> "rtt"],
     wpos |-> 0, populated |-> FALSE]

pingtargetlist_get(create) ==
    IF target = NoTarget /\ create THEN pingtarget_create ELSE target

-----------------------------------------------------------------------------
(* pingtarget_write by a thread: the first result goes everywhere, later   *)
(* ones to wpos, which is set in a step of its own.                        *)
pingtarget_write(thread, result, next) ==
    IF target.populated
    THEN /\ target' = [target EXCEPT !.data[target.wpos] = result]
         /\ thread = [pc |-> "advance", w |-> target.wpos]
    ELSE /\ target' = [target EXCEPT
              !.data = [i \in DOMAIN @ |-> result], !.populated = TRUE]
         /\ thread = At(next)

(* Mutant: the position does not move. *)
StandStill(w) == w

Advance(w) == (w + 1) % RingSize

-----------------------------------------------------------------------------
(* ping_run_sender_v4 *)

SenderStays == UNCHANGED <<mood, watching, unasked, receiver>>

(* Before a round the list is gone over for addresses nobody asked for in  *)
(* three minutes.  Threads that still hold the object write to one that is *)
(* on no list; it is never freed.  A prompt host has answered by the time  *)
(* of the next round, and the answer has been dealt with.                  *)
pingtargetlist_all ==
    /\ sender.pc = "rest" /\ target # NoTarget
    /\ mood = "prompt" =>
          replies = {} /\ \A r \in Receivers : receiver[r].pc = "recv"
    /\ IF unasked
       THEN /\ target' = NoTarget
            /\ receiver' = [r \in Receivers |-> At("recv")]
            /\ UNCHANGED sender
       ELSE /\ sender' = At("open")
            /\ UNCHANGED <<target, receiver>>
    /\ UNCHANGED <<mood, watching, unasked, seqno, replies>>

(* ping_sequence; a ping that is still outstanding is lost. *)
SendOpen ==
    /\ sender.pc = "open"
    /\ seqno' = (seqno + 1) % SeqWrap
    /\ sender' = At(IF target.sequence # 0 THEN "loss" ELSE "send")
    /\ UNCHANGED <<target, replies>> /\ SenderStays

pingtarget_write_loss ==
    /\ sender.pc = "loss"
    /\ pingtarget_write(sender', "lost", "send")
    /\ UNCHANGED <<seqno, replies>> /\ SenderStays

SendAdvance ==
    /\ sender.pc = "advance"
    /\ target' = [target EXCEPT !.wpos = Advance(sender.w)]
    /\ sender' = At("send")
    /\ UNCHANGED <<seqno, replies>> /\ SenderStays

Send ==
    /\ sender.pc = "send"
    /\ LET seq == (seqno + SeqWrap - 1) % SeqWrap
       IN  /\ target' = [target EXCEPT !.sequence = seq]
           /\ \/ mood # "dead" /\ replies' = replies \cup {seq % LowWrap}
              \/ mood # "prompt" /\ UNCHANGED replies
    /\ sender' = At("rest")
    /\ UNCHANGED seqno /\ SenderStays

-----------------------------------------------------------------------------
(* ping_run_receiver_v4 *)

ReceiverStays == UNCHANGED <<mood, watching, unasked, seqno, sender>>

(* A reply counts if its number is that of the outstanding ping, or 0 when *)
(* there is none. *)
Receive(r) ==
    /\ receiver[r].pc = "recv"
    /\ \E low \in replies :
         /\ \/ replies' = replies \ {low}
            \/ mood = "erratic" /\ UNCHANGED replies
         /\ receiver' = [receiver EXCEPT ![r] =
              At(LET tgt == pingtargetlist_get(FALSE)
                 IN  IF tgt # NoTarget /\ tgt.sequence % LowWrap = low
                     THEN "clear" ELSE "recv")]
    /\ UNCHANGED target /\ ReceiverStays

Answered(t) == [t EXCEPT !.sequence = 0]

ReceiveClear(r) ==
    /\ receiver[r].pc = "clear"
    /\ target' = Answered(target)
    /\ receiver' = [receiver EXCEPT ![r] = At("write")]
    /\ UNCHANGED replies /\ ReceiverStays

ReceiveWrite(r) ==
    /\ receiver[r].pc = "write"
    /\ \E thread \in [pc : {"advance", "recv"}, w : 0 .. RingSize - 1] :
         /\ pingtarget_write(thread, "rtt", "recv")
         /\ receiver' = [receiver EXCEPT ![r] = thread]
    /\ UNCHANGED replies /\ ReceiverStays

ReceiveAdvance(r) ==
    /\ receiver[r].pc = "advance"
    /\ target' = [target EXCEPT !.wpos = Advance(receiver[r].w)]
    /\ receiver' = [receiver EXCEPT ![r] = At("recv")]
    /\ UNCHANGED replies /\ ReceiverStays

-----------------------------------------------------------------------------
(* How many results of the ring link/loss is made of. *)
pingtarget_get_loss(t) ==
    Cardinality({i \in DOMAIN t.data : t.data[i] = "lost"})

(* The watcher's round over the host: ping_get_rtt, which stamps lastseen, *)
(* and ping_get_loss.  The first makes the target if there is none.        *)
Ask ==
    /\ watching
    /\ target' = pingtargetlist_get(TRUE)
    /\ unasked' = FALSE
    /\ UNCHANGED <<mood, watching, seqno, sender, receiver, replies>>

(* Three minutes in which nobody asks: the watcher does so every minute. *)
Minutes ==
    /\ ~watching
    /\ unasked' = TRUE
    /\ UNCHANGED <<mood, watching, target, seqno, sender, receiver, replies>>

(* The host changes, or the collector forgets it or hears of it again. *)
Change ==
    /\ mood' \in Moods /\ watching' \in BOOLEAN
    /\ UNCHANGED <<target, unasked, seqno, sender, receiver, replies>>

Sender ==
    pingtargetlist_all \/ SendOpen \/ pingtarget_write_loss \/ SendAdvance
        \/ Send
Receiver(r) ==
    Receive(r) \/ ReceiveClear(r) \/ ReceiveWrite(r) \/ ReceiveAdvance(r)

PingNext ==
    \/ Sender \/ \E r \in Receivers : Receiver(r)
    \/ Ask \/ Minutes \/ Change

(* The threads run, the socket is read and the watcher goes round. *)
PingFairness ==
    /\ WF_pingVars(Sender) /\ WF_pingVars(Ask)
    /\ \A r \in Receivers : WF_pingVars(Receiver(r))

-----------------------------------------------------------------------------
(* What the watcher is told comes to agree with the host: full loss while  *)
(* it does not answer, none while it answers in time, from whatever went   *)
(* before it: sequences that wrap, replies late and double, receivers and  *)
(* sender writing at the same time, a target that was given up and made    *)
(* anew.                                                                   *)
Loss(n) == target # NoTarget /\ pingtarget_get_loss(target) = n
LossAgrees ==
    <>[][UNCHANGED <<mood, watching>>]_pingVars =>
        <>[](watching =>
               /\ mood = "dead" => Loss(RingSize)
               /\ mood = "prompt" => Loss(0))
=============================================================================
