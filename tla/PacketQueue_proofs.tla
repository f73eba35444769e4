-------------------------- MODULE PacketQueue_proofs --------------------------
(***************************************************************************)
(* Proofs about the packet queue, for a ring of any size and any number of *)
(* packets.  The assumption that the traffic leaves one slot of the ring   *)
(* unused (MaxBacklog < QCount), which the code relies on and does not     *)
(* enforce, is stated where it is needed.                                  *)
(***************************************************************************)
EXTENDS PacketQueue, TLAPS

(* The ring invariant holds initially. *)
LEMMA RingInit == Init => RingInv
  BY QCountAssumption, BoundsAssumption
  DEF Init, RingInv, TypeOK, CursorInv, ContentInv, HistoryInv, Handling,
      Offset, Backlog, Slots, Blank, conditional_init, ConditionalType

(* The cursors stay inside the ring. *)
LEMMA AdvanceType == \A p \in Slots : Advance(p) \in Slots
  BY QCountAssumption DEF Advance, Slots

(* The operations of the conditional yield a conditional. *)
LEMMA ConditionalTypes ==
  ASSUME NEW c \in ConditionalType
  PROVE  /\ conditional_signal(c) \in ConditionalType
         /\ conditional_wait(c) \in ConditionalType
         /\ wakeup(c) \in ConditionalType
  BY DEF conditional_signal, conditional_wait, wakeup, ConditionalType

(* Every step of both threads keeps every variable in its type. *)
LEMMA TypeStep == TypeOK /\ [Next]_vars => TypeOK'
  <1> SUFFICES ASSUME TypeOK, [Next]_vars PROVE TypeOK'
    OBVIOUS
  <1> USE QCountAssumption, AdvanceType, ConditionalTypes DEF TypeOK
  <1>1. CASE Receive
    BY <1>1 DEF Receive, history
  <1>2. CASE ReceiveError
    BY <1>2 DEF ReceiveError, ring
  <1>3. CASE Publish
    BY <1>3 DEF Publish
  <1>4. CASE Signal
    BY <1>4 DEF Signal, ring, history
  <1>5. CASE Check
    BY <1>5 DEF Check, ring, history
  <1>6. CASE Wait
    BY <1>6 DEF Wait, ring, history
  <1>7. CASE Wake
    BY <1>7 DEF Wake, ring, history
  <1>8. CASE WakeSpuriously
    BY <1>8 DEF WakeSpuriously, ring, history
  <1>9. CASE Take
    BY <1>9 DEF Take
  <1>10. CASE Dispatch
    BY <1>10 DEF Dispatch, ring
  <1>11. CASE Finish
    BY <1>11 DEF Finish, history, Blank
  <1>12. CASE UNCHANGED vars
    BY <1>12 DEF vars, ring, history
  <1> QED
    BY <1>1, <1>2, <1>3, <1>4, <1>5, <1>6, <1>7, <1>8, <1>9, <1>10, <1>11,
       <1>12 DEF Next, Producer, Consumer

(* The cursors keep agreeing with the counts. *)
LEMMA CursorStep ==
  ASSUME MaxBacklog < QCount, TypeOK, CursorInv, [Next]_vars
  PROVE  CursorInv'
  <1> USE QCountAssumption, BoundsAssumption
      DEF TypeOK, CursorInv, Backlog, Offset, Advance, Slots, Handling
  <1>1. CASE Receive
    BY <1>1 DEF Receive, Traffic, history
  <1>2. CASE ReceiveError
    BY <1>2 DEF ReceiveError, Traffic, ring
  <1>3. CASE Publish
    BY <1>3 DEF Publish
  <1>4. CASE Signal
    BY <1>4 DEF Signal, ring, history
  <1>5. CASE Check
    BY <1>5 DEF Check, ring, history
  <1>6. CASE Wait
    BY <1>6 DEF Wait, ring, history
  <1>7. CASE Wake
    BY <1>7 DEF Wake, ring, history
  <1>8. CASE WakeSpuriously
    BY <1>8 DEF WakeSpuriously, ring, history
  <1>9. CASE Take
    BY <1>9 DEF Take
  <1>10. CASE Dispatch
    BY <1>10 DEF Dispatch, ring
  <1>11. CASE Finish
    BY <1>11 DEF Finish, history
  <1>12. CASE UNCHANGED vars
    BY <1>12 DEF vars, ring, history
  <1> QED
    BY <1>1, <1>2, <1>3, <1>4, <1>5, <1>6, <1>7, <1>8, <1>9, <1>10, <1>11,
       <1>12 DEF Next, Producer, Consumer

(* While a slot is being handled it holds the entry taken last: it lies    *)
(* just behind the read cursor, where the write cursor never gets.         *)
LEMMA SlotIntactLemma ==
  ASSUME MaxBacklog < QCount, RingInv
  PROVE  SlotIntact
  <1> SUFFICES ASSUME Handling PROVE buffer[cur] = Held(taken)
    BY DEF SlotIntact
  <1> USE QCountAssumption, BoundsAssumption
      DEF RingInv, TypeOK, CursorInv, Backlog, Slots
  <1>1. Offset(cur) = QCount - 1
    BY DEF Offset, Advance
  <1>2. ~(Offset(cur) < Backlog) /\ ~(ppc = "publish" /\ cur = wpos)
    BY <1>1
  <1> QED
    BY <1>2 DEF ContentInv

(* What was handled stays in step with what was taken. *)
LEMMA HistoryStep ==
  ASSUME MaxBacklog < QCount, RingInv, [Next]_vars
  PROVE  HistoryInv'
  <1> USE DEF RingInv, TypeOK, HistoryInv
  <1>1. CASE Receive
    BY <1>1 DEF Receive, history
  <1>2. CASE ReceiveError
    BY <1>2 DEF ReceiveError
  <1>3. CASE Publish
    BY <1>3 DEF Publish
  <1>4. CASE Signal
    BY <1>4 DEF Signal, history
  <1>5. CASE Check
    BY <1>5 DEF Check, history
  <1>6. CASE Wait
    BY <1>6 DEF Wait, history
  <1>7. CASE Wake
    BY <1>7 DEF Wake, history
  <1>8. CASE WakeSpuriously
    BY <1>8 DEF WakeSpuriously, history
  <1>9. CASE Take
    BY <1>9 DEF Take
  <1>10. CASE Dispatch
    <2>1. buffer[cur] = Held(taken)
      BY <1>10, SlotIntactLemma DEF SlotIntact, Dispatch, Handling
    <2>2. taken # Blank
      BY <1>10 DEF Dispatch, Blank
    <2>3. handled' = IF taken \in phantoms THEN handled ELSE taken
      BY <1>10, <2>1, <2>2 DEF Dispatch, Held
    <2> QED
      BY <1>10, <2>3 DEF Dispatch
  <1>11. CASE Finish
    BY <1>11 DEF Finish, history
  <1>12. CASE UNCHANGED vars
    BY <1>12 DEF vars, history
  <1> QED
    BY <1>1, <1>2, <1>3, <1>4, <1>5, <1>6, <1>7, <1>8, <1>9, <1>10, <1>11,
       <1>12 DEF Next, Producer, Consumer

(* Every slot keeps holding what its place says. *)
LEMMA ContentStep ==
  ASSUME MaxBacklog < QCount, RingInv, [Next]_vars
  PROVE  ContentInv'
  <1> USE QCountAssumption, BoundsAssumption
      DEF RingInv, TypeOK, CursorInv, ContentInv, Backlog, Offset, Slots,
          Handling
  <1>1. CASE Receive
    <2>1. published + 1 \notin phantoms
      BY <1>1 DEF Receive, HistoryInv
    <2> QED
      BY <1>1, <2>1 DEF Receive, Traffic, history, Held
  <1>2. CASE ReceiveError
    <2>1. buffer[wpos] = Blank
      BY <1>2, SlotIntactLemma DEF ReceiveError, Traffic, Advance
    <2>2. \A e \in 1 .. published : Held(e)' = Held(e)
      BY <1>2 DEF ReceiveError, Held
    <2>3. Held(published + 1)' = Blank
      BY <1>2 DEF ReceiveError, Held
    <2> QED
      BY <1>2, <2>1, <2>2, <2>3 DEF ReceiveError, Traffic, ring
  <1>3. CASE Publish
    <2>1. \A e : Held(e)' = Held(e)
      BY <1>3 DEF Publish, Held
    <2>2. ASSUME NEW s \in Slots
          PROVE  Offset(s) < Backlog' <=> Offset(s) < Backlog \/ s = wpos
      BY <1>3 DEF Publish
    <2>3. published + 1 = taken + Offset(wpos) + 1
      OBVIOUS
    <2> QED
      BY <1>3, <2>1, <2>2, <2>3 DEF Publish
  <1>4. CASE Signal
    BY <1>4 DEF Signal, ring, history, Held
  <1>5. CASE Check
    BY <1>5 DEF Check, ring, history, Held
  <1>6. CASE Wait
    BY <1>6 DEF Wait, ring, history, Held
  <1>7. CASE Wake
    BY <1>7 DEF Wake, ring, history, Held
  <1>8. CASE WakeSpuriously
    BY <1>8 DEF WakeSpuriously, ring, history, Held
  <1>9. CASE Take
    <2>1. \A e : Held(e)' = Held(e)
      BY <1>9 DEF Take, Held
    <2>2. /\ cur' = rpos
          /\ Backlog' = Backlog - 1
          /\ ~ Handling
          /\ Handling'
      BY <1>9 DEF Take
    <2>3. ASSUME NEW s \in Slots
          PROVE  Offset(s)' = IF s = rpos THEN QCount - 1 ELSE Offset(s) - 1
      BY <1>9 DEF Take, Advance
    <2>4. buffer[rpos] = Held(taken + 1)
      BY <1>9 DEF Take
    <2>5. ASSUME NEW s \in Slots, s # rpos
          PROVE  (Offset(s) < Backlog)' <=> Offset(s) < Backlog
      BY <1>9, <2>2, <2>3, <2>5
    <2>6. ASSUME NEW s \in Slots, s # rpos
          PROVE  (taken + Offset(s) + 1)' = taken + Offset(s) + 1
      <3>1. Offset(s)' = Offset(s) - 1
        BY <2>3, <2>6
      <3>2. taken' = taken + 1
        BY <1>9 DEF Take
      <3>3. Offset(s) \in Int /\ taken \in Int
        OBVIOUS
      <3> HIDE DEF Offset
      <3> QED
        BY <3>1, <3>2, <3>3
    <2>7. ASSUME NEW s \in Slots, s = rpos
          PROVE  ~(Offset(s) < Backlog)' /\ ~(ppc = "publish" /\ s = wpos)
      BY <1>9, <2>2, <2>3, <2>7 DEF Take
    <2>8. /\ buffer' = buffer /\ wpos' = wpos /\ ppc' = ppc
          /\ published' = published /\ taken' = taken + 1
      BY <1>9 DEF Take
    <2> HIDE DEF Offset, Backlog, Handling
    <2>9. ASSUME NEW s \in Slots, s = rpos
          PROVE  buffer'[s] = Held(taken)'
      BY <2>1, <2>4, <2>8, <2>9
    <2> QED
      BY <2>1, <2>2, <2>5, <2>6, <2>7, <2>8, <2>9
  <1>10. CASE Dispatch
    BY <1>10 DEF Dispatch, ring, Held
  <1>11. CASE Finish
    BY <1>11 DEF Finish, history, Advance, Held
  <1>12. CASE UNCHANGED vars
    BY <1>12 DEF vars, ring, history, Held
  <1> QED
    BY <1>1, <1>2, <1>3, <1>4, <1>5, <1>6, <1>7, <1>8, <1>9, <1>10, <1>11,
       <1>12 DEF Next, Producer, Consumer

(* Type correctness of the queue, whatever the traffic, the failed         *)
(* receives and the spurious wake-ups are.                                 *)
THEOREM TypeCorrect == Spec => []TypeOK
  <1>1. Init => TypeOK
    BY RingInit DEF RingInv
  <1> QED
    BY <1>1, TypeStep, PTL DEF Spec

(* As long as the traffic never has the whole ring waiting, the cursors    *)
(* and the slots of packetqueue_run and packetqueue_waitpkt are exactly    *)
(* what the counts of published and taken packets say.                     *)
THEOREM RingInvariant ==
  ASSUME MaxBacklog < QCount
  PROVE  Spec => []RingInv
  <1>1. RingInv /\ [Next]_vars => RingInv'
    BY TypeStep, CursorStep, ContentStep, HistoryStep DEF RingInv
  <1> QED
    BY <1>1, RingInit, PTL DEF Spec

(* The producer never receives into the slot the consumer is reading. *)
THEOREM SlotStaysIntact ==
  ASSUME MaxBacklog < QCount
  PROVE  Spec => []SlotIntact
  <1>1. RingInv => SlotIntact
    BY SlotIntactLemma
  <1> QED
    BY <1>1, RingInvariant, PTL

(* The handlers see every received packet once, in order. *)
THEOREM DeliveredInOrderOnce ==
  ASSUME MaxBacklog < QCount
  PROVE  Spec => InOrderOnce
  <1> DEFINE Delivery == /\ handled' > handled
                         /\ handled + 1 .. handled' - 1 \subseteq phantoms
  <1>1. RingInv /\ [Next]_vars => [Delivery]_handled
    <2> SUFFICES ASSUME RingInv, [Next]_vars, handled' # handled
                 PROVE  Delivery
      BY Zenon
    <2>1. Dispatch
      BY DEF Next, Producer, Consumer, Receive, ReceiveError, Publish,
             Signal, Check, Wait, Wake, WakeSpuriously, Take, Finish,
             vars, history
    <2>2. handled' = taken
      BY <2>1, SlotIntactLemma
      DEF Dispatch, SlotIntact, Handling, Held, Blank
    <2> QED
      BY <2>1, <2>2 DEF RingInv, TypeOK, HistoryInv, Dispatch
  <1> QED
    BY <1>1, RingInvariant, PTL DEF Spec, InOrderOnce

(* As long as pthread_cond_wait has only returned when signalled, the      *)
(* consumer does not sleep through a packet: neither the size of the ring  *)
(* nor the traffic matters.                                                *)
THEOREM NoWakeupIsLost == Spec => []NoLostWakeup
  <1> USE DEF WakeupInv, SignalsCounted, NoLostWakeup, ConditionalType
  <1>1. Init => WakeupInv
    BY DEF Init, conditional_init
  <1>2. WakeupInv /\ [Next]_vars => WakeupInv'
    <2> SUFFICES ASSUME WakeupInv, [Next]_vars PROVE WakeupInv'
      OBVIOUS
    <2>1. CASE Receive
      BY <2>1 DEF Receive, history
    <2>2. CASE ReceiveError
      BY <2>2 DEF ReceiveError, ring
    <2>3. CASE Publish
      BY <2>3 DEF Publish
    <2>4. CASE Signal
      BY <2>4 DEF Signal, ring, history, conditional_signal
    <2>5. CASE Check
      BY <2>5 DEF Check, ring, history
    <2>6. CASE Wait
      BY <2>6 DEF Wait, ring, history, conditional_wait
    <2>7. CASE Wake
      BY <2>7 DEF Wake, ring, history, wakeup
    <2>8. CASE WakeSpuriously
      BY <2>8 DEF WakeSpuriously, ring, history, wakeup
    <2>9. CASE Take
      BY <2>9 DEF Take
    <2>10. CASE Dispatch
      BY <2>10 DEF Dispatch, ring
    <2>11. CASE Finish
      BY <2>11 DEF Finish, history
    <2>12. CASE UNCHANGED vars
      BY <2>12 DEF vars, ring, history
    <2> QED
      BY <2>1, <2>2, <2>3, <2>4, <2>5, <2>6, <2>7, <2>8, <2>9, <2>10,
         <2>11, <2>12 DEF Next, Producer, Consumer
  <1>3. WakeupInv => NoLostWakeup
    OBVIOUS
  <1> QED
    BY <1>1, <1>2, <1>3, PTL DEF Spec
=============================================================================
