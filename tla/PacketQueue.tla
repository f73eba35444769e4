----------------------------- MODULE PacketQueue -----------------------------
(***************************************************************************)
(* The collector's packet queue (libopticon/packetqueue.c) with the        *)
(* conditional it sleeps on (libopticon/thread.c) and the loop that        *)
(* consumes it (daemon_main of opticon-collector/main.c).                  *)
(*                                                                         *)
(* Two threads share a ring of pktbuf slots.  The producer                 *)
(* (packetqueue_run) receives from the socket straight into the slot at    *)
(* wpos, without a lock, and then publishes the slot under the mutex and   *)
(* signals the conditional.  The consumer takes the slot at rpos under the *)
(* mutex and from then on reads it through a pointer, without a lock,      *)
(* until it clears the packet's first byte.  Nothing stops the producer    *)
(* from running into slots the consumer has not read: the code relies on   *)
(* the consumer keeping up.  That reliance is the constant MaxBacklog.     *)
(***************************************************************************)
EXTENDS Integers, FiniteSets, Conditional

CONSTANTS
    QCount,      \* qcount of packetqueue_create: slots in the ring
    MaxBacklog,  \* how many published, untaken slots the traffic can cause
    MaxEntries,  \* bound of the model: slots published in one behaviour
    MaxErrors,   \* bound of the model: failed receives in one behaviour
    MaxSpurious  \* bound of the model: spurious wake-ups of pthread_cond_wait

ASSUME QCountAssumption == QCount \in Nat /\ QCount >= 2
ASSUME BoundsAssumption ==
    /\ MaxBacklog \in Nat
    /\ MaxEntries \in Nat
    /\ MaxErrors \in Nat
    /\ MaxSpurious \in Nat

VARIABLES
    buffer,    \* slot -> number of the entry whose packet it holds, or Blank
    wpos,      \* write cursor, moved by the producer only
    rpos,      \* read cursor, moved by the consumer only
    cond,      \* the conditional triggered on new packets
    ppc,       \* where the producer is in packetqueue_run
    cpc,       \* where the consumer is in packetqueue_waitpkt / daemon_main
    cur,       \* the slot packetqueue_waitpkt returned a pointer to
    spurious,  \* spurious wake-ups so far
    (* History variables: no step depends on them but for the bounds. *)
    published, \* entries published so far; entry e is the e-th published
    taken,     \* entries taken so far
    phantoms,  \* the entries published for a receive that failed
    handled    \* entry of the last packet given to a packet handler

ring == <<buffer, wpos, rpos>>
history == <<published, taken, phantoms, handled>>
vars == <<ring, cond, ppc, cpc, cur, spurious, history>>

Slots == 0 .. QCount - 1

(* A slot whose pkt[0] is 0 is ignored by the dispatcher, as calloc made   *)
(* it and as the consumer leaves it.                                       *)
Blank == 0

(* The wrap of both cursors: p++; if (p >= sz) p -= sz. *)
Advance(p) == IF p + 1 >= QCount THEN p + 1 - QCount ELSE p + 1

(* Published, untaken entries. *)
Backlog == published - taken

-----------------------------------------------------------------------------
(* packetqueue_create *)
Init ==
    /\ buffer = [s \in Slots |-> Blank]
    /\ wpos = 0
    /\ rpos = 0
    /\ cond = conditional_init
    /\ ppc = "recv"
    /\ cpc = "check"
    /\ cur = 0
    /\ spurious = 0
    /\ published = 0
    /\ taken = 0
    /\ phantoms = {}
    /\ handled = 0

-----------------------------------------------------------------------------
(* The producer, packetqueue_run. *)

(* The socket has something for the producer. *)
Traffic == published < MaxEntries /\ Backlog < MaxBacklog

(* intransport_recv delivers a datagram into the slot at wpos. *)
Receive ==
    /\ ppc = "recv" /\ Traffic
    /\ buffer' = [buffer EXCEPT ![wpos] = published + 1]
    /\ ppc' = "publish"
    /\ UNCHANGED <<wpos, rpos, cond, cpc, cur, spurious, history>>

(* recvfrom fails and returns -1, a large size_t, so that the test sz > 0  *)
(* takes it for a packet; the slot keeps the bytes it had.  (The case the  *)
(* code logs, a datagram of size 0, changes nothing.)                      *)
ReceiveError ==
    /\ ppc = "recv" /\ Traffic
    /\ Cardinality(phantoms) < MaxErrors
    /\ phantoms' = phantoms \cup {published + 1}
    /\ ppc' = "publish"
    /\ UNCHANGED <<ring, cond, cpc, cur, spurious, published, taken, handled>>

(* The locked section that moves wpos. *)
Publish ==
    /\ ppc = "publish"
    /\ wpos' = Advance(wpos)
    /\ published' = published + 1
    /\ ppc' = "signal"
    /\ UNCHANGED <<buffer, rpos, cond, cpc, cur, spurious,
                   taken, phantoms, handled>>

Signal ==
    /\ ppc = "signal"
    /\ cond' = conditional_signal(cond)
    /\ ppc' = "recv"
    /\ UNCHANGED <<ring, cpc, cur, spurious, history>>

-----------------------------------------------------------------------------
(* The consumer, packetqueue_waitpkt called by the loop of daemon_main. *)

(* The locked test rpos != wpos of the wait loop. *)
Check ==
    /\ cpc = "check"
    /\ cpc' = IF rpos # wpos THEN "take" ELSE "wait"
    /\ UNCHANGED <<ring, cond, ppc, cur, spurious, history>>

(* conditional_wait returns at once or goes to sleep. *)
Wait ==
    /\ cpc = "wait"
    /\ cond' = conditional_wait(cond)
    /\ cpc' = IF cond'.waiter = "awake" THEN "check" ELSE "asleep"
    /\ UNCHANGED <<ring, ppc, cur, spurious, history>>

Wake ==
    /\ cpc = "asleep"
    /\ cond.waiter = "woken"
    /\ cond' = wakeup(cond)
    /\ cpc' = "check"
    /\ UNCHANGED <<ring, ppc, cur, spurious, history>>

WakeSpuriously ==
    /\ cpc = "asleep"
    /\ spurious < MaxSpurious
    /\ cond.waiter = "asleep"
    /\ cond' = wakeup(cond)
    /\ spurious' = spurious + 1
    /\ cpc' = "check"
    /\ UNCHANGED <<ring, ppc, cur, history>>

(* The locked section that moves rpos and yields a pointer to the slot. *)
Take ==
    /\ cpc = "take"
    /\ cur' = rpos
    /\ rpos' = Advance(rpos)
    /\ taken' = taken + 1
    /\ cpc' = "dispatch"
    /\ UNCHANGED <<buffer, wpos, cond, ppc, spurious,
                   published, phantoms, handled>>

(* The type bytes select a handler, or none for a blank slot. *)
Dispatch ==
    /\ cpc = "dispatch"
    /\ handled' = IF buffer[cur] = Blank THEN handled ELSE buffer[cur]
    /\ cpc' = "finish"
    /\ UNCHANGED <<ring, cond, ppc, cur, spurious, published, taken, phantoms>>

(* Mutant: the slot is left as it was after its packet was handled. *)
FinishKeepsPacket ==
    /\ cpc = "finish"
    /\ cpc' = "check"
    /\ UNCHANGED <<ring, cond, ppc, cur, spurious, history>>

(* The handler is done with the slot's bytes: pkt->pkt[0] = 0. *)
Finish ==
    /\ cpc = "finish"
    /\ buffer' = [buffer EXCEPT ![cur] = Blank]
    /\ cpc' = "check"
    /\ UNCHANGED <<wpos, rpos, cond, ppc, cur, spurious, history>>

-----------------------------------------------------------------------------
Producer == Receive \/ ReceiveError \/ Publish \/ Signal
Consumer ==
    Check \/ Wait \/ Wake \/ WakeSpuriously \/ Take \/ Dispatch \/ Finish
Next == Producer \/ Consumer

Spec == Init /\ [][Next]_vars

(* Both threads run; the network owes nobody a packet, and a spurious      *)
(* wake-up is never owed either.                                           *)
Fairness ==
    /\ WF_vars(Publish \/ Signal)
    /\ WF_vars(Check \/ Wait \/ Wake \/ Take \/ Dispatch \/ Finish)

FairSpec == Spec /\ Fairness
-----------------------------------------------------------------------------
TypeOK ==
    /\ buffer \in [Slots -> Nat]
    /\ wpos \in Slots
    /\ rpos \in Slots
    /\ cond \in ConditionalType
    /\ ppc \in {"recv", "publish", "signal"}
    /\ cpc \in {"check", "wait", "asleep", "take", "dispatch", "finish"}
    /\ cur \in Slots
    /\ spurious \in Nat
    /\ published \in Nat
    /\ taken \in Nat
    /\ phantoms \in SUBSET (Nat \ {0})
    /\ handled \in Nat

(* What the slot of entry e holds: nothing, if the receive had failed. *)
Held(e) == IF e \in phantoms THEN Blank ELSE e

(* How far slot s is ahead of the read cursor. *)
Offset(s) == IF s >= rpos THEN s - rpos ELSE s - rpos + QCount

Handling == cpc \in {"dispatch", "finish"}

(* The slot the consumer reads through its pointer, without a lock, keeps  *)
(* the packet it had when packetqueue_waitpkt returned it until the loop   *)
(* of daemon_main is done with it: the producer, which receives into slots *)
(* without a lock, never receives into that one.                           *)
SlotIntact == Handling => buffer[cur] = Held(taken)

(* Packets reach the handlers in the order they were received, none twice  *)
(* and none skipped: an entry is only passed over if it is a failed        *)
(* receive, which the cleared first byte of its slot gives away.           *)
InOrderOnce ==
    [][/\ handled' > handled
       /\ handled + 1 .. handled' - 1 \subseteq phantoms]_handled

(* Until a spurious wake-up, which conditional_wait takes for a signal,    *)
(* the consumer never sleeps on the conditional, unsignalled, while a      *)
(* published packet waits, but for the moment between packetqueue_run's    *)
(* unlock and its conditional_signal.                                      *)
NoLostWakeup ==
    spurious = 0 /\ cond.waiter = "asleep" => rpos = wpos \/ ppc = "signal"

(* Every published entry is taken by the consumer in the end: it catches   *)
(* up with the producer whenever the traffic ends, again unless a spurious *)
(* wake-up puts the count of signals out.                                  *)
EveryEntryTaken == []<>(taken >= published \/ spurious > 0)

-----------------------------------------------------------------------------
(* The inductive invariants behind these. *)

(* The ring: the cursors agree with the counts, and every slot holds       *)
(* exactly what its place says.                                            *)
CursorInv ==
    /\ Backlog \in 0 .. MaxBacklog
    /\ Offset(wpos) = Backlog
    /\ ppc = "publish" => Backlog < MaxBacklog
    /\ cpc = "take" => Backlog > 0
    /\ Handling => Advance(cur) = rpos /\ taken > 0

ContentInv ==
    \A s \in Slots :
        buffer[s] =
            IF Offset(s) < Backlog THEN Held(taken + Offset(s) + 1)
            ELSE IF ppc = "publish" /\ s = wpos THEN Held(published + 1)
            ELSE IF Handling /\ s = cur THEN Held(taken)
            ELSE Blank

HistoryInv ==
    /\ \A e \in phantoms :
          e <= IF ppc = "publish" THEN published + 1 ELSE published
    /\ handled <= taken
    /\ cpc = "dispatch" => handled < taken
    /\ \A e \in 1 .. taken :
          handled < e /\ ~(cpc = "dispatch" /\ e = taken)
          => e \in phantoms

RingInv == TypeOK /\ CursorInv /\ ContentInv /\ HistoryInv

(* The conditional before any spurious wake-up: its queue counts signals,  *)
(* and a signal is on its way whenever the consumer may miss a packet.     *)
SignalsCounted ==
    /\ cond.queue >= 0
    /\ cond.waiter = "awake" <=> cpc # "asleep"
    /\ cond.waiter = "asleep" => cond.queue = 0
    /\ cond.waiter = "woken" => cond.queue > 0
    /\ cpc = "wait" /\ cond.queue = 0 => rpos = wpos \/ ppc = "signal"

WakeupInv ==
    /\ cond \in ConditionalType
    /\ spurious \in Nat
    /\ spurious = 0 => SignalsCounted
    /\ NoLostWakeup
=============================================================================
