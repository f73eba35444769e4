--------------------------- MODULE AgentLoop_proofs ---------------------------
(***************************************************************************)
(* Proofs about AgentLoop, for any intervals, delays and clocks that the   *)
(* agent's schedule allows.  Three parts of one inductive invariant carry  *)
(* the properties: what the probe's three pointers are at each place of    *)
(* probe_run, how far the clock is from what the main loop wakes up for,   *)
(* and that the resender is done before the next slow round.               *)
(***************************************************************************)
EXTENDS AgentLoop, TLAPS

(* The types of what the threads keep. *)
Types ==
    /\ now \in StartTime .. EndTime /\ tnow \in 0 .. now
    /\ made \in Nat /\ packets \in Nat /\ nextslow \in Nat
    /\ nextsend \in Nat /\ due \in Nat /\ sleptat \in Nat
    /\ {v, vcurrent, vold, nvar, sent} \subseteq 0 .. made
    /\ lastreply \in Int /\ lastdispatch \in Nat /\ lastpulse \in Nat
    /\ lastreply <= now /\ lastdispatch <= now /\ lastpulse <= now
    /\ pulse \in ConditionalType /\ cond \in ConditionalType
    /\ buf \in {Mixed} \cup 0 .. packets
    /\ slowround \in BOOLEAN /\ spurious \in 0 .. MaxSpurious
    /\ mpc \in {"top", "copy", "schedule", "poke", "lock", "test", "import",
                "end"}
    /\ ppc \in {"func", "swap", "set", "stamp", "wait", "asleep"}
    /\ rpc \in {"wait", "asleep", "sleep"}
    /\ vlock \in {"free", "main"}
    /\ vlock = "main" <=> mpc \in {"test", "import"}

(* Data are freed when two newer ones have been made: the new data are     *)
(* newer than the current ones and those than the old ones, which are the  *)
(* same between the two assignments of probe_run.                          *)
DataInv ==
    /\ freed \subseteq 1 .. made
    /\ vcurrent \notin freed /\ vold \notin freed
    /\ ppc = "swap" => vcurrent < nvar /\ nvar \notin freed
    /\ ppc = "set" =>
         vcurrent < nvar /\ nvar \notin freed /\ vold = vcurrent
    /\ ppc # "set" => vold < vcurrent \/ (vcurrent = 0 /\ vold = 0)
    /\ ImportsLiveData

(* Data that came while the loop looked at older ones are stamped after    *)
(* the loop's note of the time.                                            *)
ReplyInv ==
    /\ mpc \in {"test", "import"} /\ v # vcurrent
         => ppc = "stamp" \/ tnow <= lastreply
    /\ UnsentIsAnswered

(* The main loop wakes up for the first thing it has to do, and is in time *)
(* for it but for what it is late.                                         *)
ClockInv ==
    /\ wake \in Nat /\ now <= wake + MaxLate
    /\ wake <= nextslow /\ wake <= nextsend
    /\ wake <= lastpulse + Interval \/ wake <= StartTime
    /\ mpc # "top" => wake <= tnow
    /\ mpc \in {"copy", "schedule"} => nextslow <= tnow
    /\ mpc \in {"poke", "lock", "test", "import", "end"} => tnow < nextslow
    /\ mpc \in {"lock", "test", "import", "end"} => tnow < lastpulse + Interval

(* A probe that sleeps has had no pulse since it went to sleep. *)
PulseInv ==
    /\ ppc = "asleep" /\ pulse.waiter = "asleep"
         => StartTime <= sleptat /\ lastpulse <= sleptat
    /\ ProbeRunsInTime

(* A resender that was called on has the last packet, and is done with it  *)
(* before the next slow round.                                             *)
ResendInv ==
    /\ rpc = "asleep" /\ cond.waiter = "woken"
         => buf = packets /\ now + ResendMax < nextslow
    /\ rpc = "sleep" => buf = packets /\ now <= due /\ due < nextslow

IInv == Types /\ DataInv /\ ReplyInv /\ ClockInv /\ PulseInv /\ ResendInv

-----------------------------------------------------------------------------
(* The least of four. *)
LEMMA LeastOfFour ==
    ASSUME NEW a \in Int, NEW b \in Int, NEW c \in Int, NEW d \in Int
    PROVE  /\ Min({a, b, c, d}) \in {a, b, c, d}
           /\ Min({a, b, c, d}) <= a /\ Min({a, b, c, d}) <= b
           /\ Min({a, b, c, d}) <= c /\ Min({a, b, c, d}) <= d
  <1>1. \E x \in {a, b, c, d} : \A y \in {a, b, c, d} : x <= y
    OBVIOUS
  <1> QED
    BY <1>1 DEF Min

(* A later deadline is kept as well. *)
LEMMA StillInTime ==
    ASSUME NEW n \in Int, NEW a \in Int, NEW b \in Int, NEW d \in Int,
           n <= a + d, a <= b
    PROVE  n <= b + d
  OBVIOUS

(* What the main loop wakes up for. *)
LEMMA WakesForTheFirst ==
    ASSUME Types, EndOfLoop
    PROVE  /\ wake' \in {lastpulse + Interval, nextsend, nextslow,
                         tnow + SlowEvery}
           /\ wake' \in Nat
           /\ wake' <= lastpulse + Interval
           /\ wake' <= nextsend /\ wake' <= nextslow
  <1>1. /\ lastpulse + Interval \in Nat /\ nextsend \in Nat
        /\ nextslow \in Nat /\ tnow + SlowEvery \in Nat
    BY AgentLoopAssumption DEF Types
  <1>2. wake' = Min({lastpulse + Interval, nextsend, nextslow,
                     tnow + SlowEvery})
    BY DEF EndOfLoop
  <1> DEFINE a == lastpulse + Interval
             d == tnow + SlowEvery
  <1>3. a \in Nat /\ nextsend \in Nat /\ nextslow \in Nat /\ d \in Nat
        /\ wake' = Min({a, nextsend, nextslow, d})
    BY <1>1, <1>2
  <1> HIDE DEF a, d
  <1>4. /\ wake' \in {a, nextsend, nextslow, d}
        /\ wake' <= a /\ wake' <= nextsend /\ wake' <= nextslow
    <2>1. /\ a \in Int /\ nextsend \in Int
          /\ nextslow \in Int /\ d \in Int
      BY <1>3
    <2>2. LET m == Min({a, nextsend, nextslow, d})
          IN  /\ m \in {a, nextsend, nextslow, d}
              /\ m <= a /\ m <= nextsend /\ m <= nextslow
      BY <2>1, LeastOfFour, Zenon
    <2> QED
      BY <1>3, <2>2, Zenon
  <1>5. wake' \in Nat
    BY <1>3, <1>4
  <1> QED
    BY <1>4, <1>5 DEF a, d

(* Fast rounds that are missed are skipped. *)
LEMMA NextSendGrows ==
    ASSUME Types, PokeProbes
    PROVE  nextsend' \in Nat /\ nextsend <= nextsend'
  <1>1. CASE ~slowround /\ tnow >= nextsend
    <2>1. tnow - nextsend \in Nat /\ FastEvery \in Nat \ {0}
      BY <1>1, AgentLoopAssumption DEF Types
    <2> DEFINE q == (tnow - nextsend) \div FastEvery
    <2>2. q \in Nat
      BY <2>1
    <2> HIDE DEF q
    <2>3. FastEvery * (q + 1) \in Nat
      BY <2>1, <2>2
    <2>4. nextsend' = nextsend + FastEvery * (q + 1)
      BY <1>1 DEF PokeProbes, q
    <2> QED
      BY <2>3, <2>4 DEF Types
  <1>2. CASE ~(~slowround /\ tnow >= nextsend)
    BY <1>2 DEF PokeProbes, Types
  <1> QED
    BY <1>1, <1>2

(* At the start the probe is busy, the resender waits and nothing is due.  *)
LEMMA AgentInit == Init => IInv
  <1> SUFFICES ASSUME Init PROVE IInv
    OBVIOUS
  <1>1. Types
    <2>1. /\ pulse \in ConditionalType /\ cond \in ConditionalType
          /\ {v, vcurrent, vold, nvar, sent} \subseteq 0 .. made
          /\ buf \in {Mixed} \cup 0 .. packets
      BY DEF Init, conditional_init, ConditionalType
    <2>2. /\ StartTime \in Nat /\ StartDelay \in Nat
          /\ StartTime + StartDelay \in Nat
          /\ StartTime + 2 * StartDelay \in Nat
      BY AgentLoopAssumption
    <2>3. /\ now \in StartTime .. EndTime /\ tnow \in 0 .. now
          /\ made \in Nat /\ packets \in Nat /\ nextslow \in Nat
          /\ nextsend \in Nat /\ due \in Nat /\ sleptat \in Nat
      BY <2>2, AgentLoopAssumption DEF Init
    <2>4. /\ lastreply \in Int /\ lastdispatch \in Nat /\ lastpulse \in Nat
          /\ lastreply <= now /\ lastdispatch <= now /\ lastpulse <= now
          /\ spurious \in 0 .. MaxSpurious
      BY <2>2, AgentLoopAssumption DEF Init
    <2>5. slowround \in BOOLEAN
      BY Zenon DEF Init
    <2> QED
      BY <2>1, <2>3, <2>4, <2>5 DEF Init, Types
  <1>2. DataInv /\ ReplyInv
    BY DEF Init, DataInv, ImportsLiveData, ReplyInv, UnsentIsAnswered
  <1>3. ClockInv
    BY AgentLoopAssumption DEF Init, ClockInv
  <1>4. PulseInv /\ ResendInv
    BY DEF Init, PulseInv, ProbeRunsInTime, ResendInv
  <1> QED
    BY <1>1, <1>2, <1>3, <1>4 DEF IInv

(* Every step keeps the types.                                             *)
LEMMA TypesStep ==
    ASSUME IInv, [Next]_vars
    PROVE  Types'
  <1>1. CASE TopOfLoop
    BY <1>1, AgentLoopAssumption
       DEF TopOfLoop, IInv, Types, Mixed, mainvars, data, probevars,
           resendvars, history
  <1>2. CASE CopyAuth
    BY <1>2, AgentLoopAssumption
       DEF CopyAuth, IInv, Types, Mixed, mainvars, data, probevars, resendvars,
           history
  <1>3. CASE authresender_schedule
    BY <1>3, AgentLoopAssumption
       DEF authresender_schedule, IInv, Types, Mixed, mainvars, data,
           probevars, resendvars, history, NextSlow, conditional_signal,
           ConditionalType
  <1>4. CASE PokeProbes
    BY <1>4, NextSendGrows, AgentLoopAssumption
       DEF PokeProbes, IInv, Types, Mixed, mainvars, data, probevars,
           resendvars, history, conditional_signal, ConditionalType
  <1>5. CASE LockProbe
    BY <1>5, AgentLoopAssumption
       DEF LockProbe, IInv, Types, Mixed, mainvars, data, probevars,
           resendvars, history
  <1>6. CASE TestProbe
    BY <1>6, AgentLoopAssumption
       DEF TestProbe, IInv, Types, Mixed, mainvars, data, probevars,
           resendvars, history
  <1>7. CASE ImportProbe
    BY <1>7, AgentLoopAssumption
       DEF ImportProbe, IInv, Types, Mixed, mainvars, data, probevars,
           resendvars, history
  <1>8. CASE EndOfLoop
    <2>1. /\ mpc = "end" /\ mpc' = "top" /\ tnow' = 0 /\ v' = 0
          /\ now' = now /\ nextslow' = nextslow /\ nextsend' = nextsend
          /\ vcurrent' = vcurrent /\ vold' = vold /\ nvar' = nvar
          /\ sent' = sent /\ made' = made /\ packets' = packets
      BY <1>8 DEF EndOfLoop, data, probevars, history
    <2>2. /\ due' = due /\ sleptat' = sleptat /\ lastreply' = lastreply
          /\ lastdispatch' = lastdispatch /\ lastpulse' = lastpulse
          /\ pulse' = pulse /\ cond' = cond /\ buf' = buf
          /\ spurious' = spurious /\ ppc' = ppc /\ rpc' = rpc
          /\ vlock' = vlock
      BY <1>8 DEF EndOfLoop, probevars, resendvars, history
    <2>3. slowround' \in BOOLEAN
      BY <1>8, Zenon DEF EndOfLoop
    <2>4. vlock = "free"
      BY <2>1 DEF IInv, Types
    <2>5. 0 \in 0 .. made /\ 0 \in 0 .. now
      BY AgentLoopAssumption DEF IInv, Types
    <2>6. {v', vcurrent', vold', nvar', sent'} \subseteq 0 .. made'
      BY <2>1, <2>5 DEF IInv, Types
    <2> QED
      BY <2>1, <2>2, <2>3, <2>4, <2>5, <2>6, Zenon DEF IInv, Types, Mixed
  <1>9. CASE \E ok \in BOOLEAN : ProbeFunc(ok)
    BY <1>9, AgentLoopAssumption
       DEF ProbeFunc, IInv, Types, Mixed, mainvars, data, probevars,
           resendvars, history
  <1>10. CASE SwapOld
    BY <1>10, AgentLoopAssumption
       DEF SwapOld, IInv, Types, Mixed, mainvars, data, probevars, resendvars,
           history
  <1>11. CASE SetCurrent
    BY <1>11, AgentLoopAssumption
       DEF SetCurrent, IInv, Types, Mixed, mainvars, data, probevars,
           resendvars, history
  <1>12. CASE StampReply
    BY <1>12, AgentLoopAssumption
       DEF StampReply, IInv, Types, Mixed, mainvars, data, probevars,
           resendvars, history
  <1>13. CASE WaitPulse
    BY <1>13, AgentLoopAssumption
       DEF WaitPulse, IInv, Types, Mixed, mainvars, data, probevars,
           resendvars, history, conditional_wait_fresh, ConditionalType
  <1>14. CASE PulseReceived
    BY <1>14, AgentLoopAssumption
       DEF PulseReceived, IInv, Types, Mixed, mainvars, data, probevars,
           resendvars, history, wakeup, ConditionalType
  <1>15. CASE WakeSpuriously
    BY <1>15, AgentLoopAssumption
       DEF WakeSpuriously, IInv, Types, Mixed, mainvars, data, probevars,
           resendvars, history, wakeup, ConditionalType
  <1>16. CASE WaitSchedule
    BY <1>16, AgentLoopAssumption
       DEF WaitSchedule, IInv, Types, Mixed, mainvars, data, probevars,
           resendvars, history, conditional_wait_fresh, ConditionalType
  <1>17. CASE \E delay \in 0 .. ResendMax : TossCoin(delay)
    BY <1>17, AgentLoopAssumption
       DEF TossCoin, IInv, Types, Mixed, mainvars, data, probevars, resendvars,
           history, wakeup, ConditionalType
  <1>18. CASE Resend
    BY <1>18, AgentLoopAssumption
       DEF Resend, IInv, Types, Mixed, mainvars, data, probevars, resendvars,
           history
  <1>19. CASE Tick
    BY <1>19, AgentLoopAssumption
       DEF Tick, IInv, Types, Mixed, mainvars, data, probevars, resendvars,
           history
  <1>20. CASE UNCHANGED vars
    BY <1>20, AgentLoopAssumption
       DEF vars, IInv, Types, Mixed, mainvars, data, probevars, resendvars,
           history
  <1> QED
    BY <1>1, <1>2, <1>3, <1>4, <1>5, <1>6, <1>7, <1>8, <1>9, <1>10, <1>11,
       <1>12, <1>13, <1>14, <1>15, <1>16, <1>17, <1>18, <1>19, <1>20
       DEF Next, MainLoop, Probe, Resender

(* Data are only freed behind the current and the old ones.                *)
LEMMA DataStep ==
    ASSUME IInv, [Next]_vars
    PROVE  DataInv'
  <1>1. CASE TopOfLoop
    BY <1>1
       DEF TopOfLoop, IInv, Types, DataInv, ImportsLiveData, mainvars, data,
           probevars, resendvars, history
  <1>2. CASE CopyAuth
    BY <1>2
       DEF CopyAuth, IInv, Types, DataInv, ImportsLiveData, mainvars, data,
           probevars, resendvars, history
  <1>3. CASE authresender_schedule
    BY <1>3
       DEF authresender_schedule, IInv, Types, DataInv, ImportsLiveData,
           mainvars, data, probevars, resendvars, history
  <1>4. CASE PokeProbes
    BY <1>4
       DEF PokeProbes, IInv, Types, DataInv, ImportsLiveData, mainvars, data,
           probevars, resendvars, history
  <1>5. CASE LockProbe
    BY <1>5
       DEF LockProbe, IInv, Types, DataInv, ImportsLiveData, mainvars, data,
           probevars, resendvars, history
  <1>6. CASE TestProbe
    BY <1>6
       DEF TestProbe, IInv, Types, DataInv, ImportsLiveData, mainvars, data,
           probevars, resendvars, history
  <1>7. CASE ImportProbe
    BY <1>7
       DEF ImportProbe, IInv, Types, DataInv, ImportsLiveData, mainvars, data,
           probevars, resendvars, history
  <1>8. CASE EndOfLoop
    BY <1>8
       DEF EndOfLoop, IInv, Types, DataInv, ImportsLiveData, mainvars, data,
           probevars, resendvars, history
  <1>9. CASE \E ok \in BOOLEAN : ProbeFunc(ok)
    BY <1>9
       DEF ProbeFunc, IInv, Types, DataInv, ImportsLiveData, mainvars, data,
           probevars, resendvars, history
  <1>10. CASE SwapOld
    <2>1. /\ freed' = freed \cup ({vold} \ {0}) /\ vold' = vcurrent
          /\ ppc = "swap" /\ ppc' = "set" /\ vlock = "free"
          /\ UNCHANGED <<vcurrent, nvar, v, mpc, made>>
      BY <1>10 DEF SwapOld, mainvars
    <2>2. /\ vold \in 0 .. made /\ nvar \in 0 .. made
          /\ vcurrent \in 0 .. made /\ made \in Nat
          /\ mpc \notin {"test", "import"}
      BY <2>1 DEF IInv, Types
    <2>3. /\ freed \subseteq 1 .. made /\ vcurrent \notin freed
          /\ vcurrent < nvar /\ nvar \notin freed
          /\ vold < vcurrent \/ (vcurrent = 0 /\ vold = 0)
      BY <2>1 DEF IInv, DataInv
    <2>4. freed' \subseteq 1 .. made
      BY <2>1, <2>2, <2>3
    <2>5. vcurrent \notin freed' /\ nvar \notin freed'
      BY <2>1, <2>2, <2>3
    <2> QED
      BY <2>1, <2>2, <2>3, <2>4, <2>5 DEF DataInv, ImportsLiveData
  <1>11. CASE SetCurrent
    BY <1>11
       DEF SetCurrent, IInv, Types, DataInv, ImportsLiveData, mainvars, data,
           probevars, resendvars, history
  <1>12. CASE StampReply
    BY <1>12
       DEF StampReply, IInv, Types, DataInv, ImportsLiveData, mainvars, data,
           probevars, resendvars, history
  <1>13. CASE WaitPulse
    BY <1>13
       DEF WaitPulse, IInv, Types, DataInv, ImportsLiveData, mainvars, data,
           probevars, resendvars, history
  <1>14. CASE PulseReceived
    BY <1>14
       DEF PulseReceived, IInv, Types, DataInv, ImportsLiveData, mainvars,
           data, probevars, resendvars, history
  <1>15. CASE WakeSpuriously
    BY <1>15
       DEF WakeSpuriously, IInv, Types, DataInv, ImportsLiveData, mainvars,
           data, probevars, resendvars, history
  <1>16. CASE WaitSchedule
    BY <1>16
       DEF WaitSchedule, IInv, Types, DataInv, ImportsLiveData, mainvars, data,
           probevars, resendvars, history
  <1>17. CASE \E delay \in 0 .. ResendMax : TossCoin(delay)
    BY <1>17
       DEF TossCoin, IInv, Types, DataInv, ImportsLiveData, mainvars, data,
           probevars, resendvars, history
  <1>18. CASE Resend
    BY <1>18
       DEF Resend, IInv, Types, DataInv, ImportsLiveData, mainvars, data,
           probevars, resendvars, history
  <1>19. CASE Tick
    BY <1>19
       DEF Tick, IInv, Types, DataInv, ImportsLiveData, mainvars, data,
           probevars, resendvars, history
  <1>20. CASE UNCHANGED vars
    BY <1>20
       DEF vars, IInv, Types, DataInv, ImportsLiveData, mainvars, data,
           probevars, resendvars, history
  <1> QED
    BY <1>1, <1>2, <1>3, <1>4, <1>5, <1>6, <1>7, <1>8, <1>9, <1>10, <1>11,
       <1>12, <1>13, <1>14, <1>15, <1>16, <1>17, <1>18, <1>19, <1>20
       DEF Next, MainLoop, Probe, Resender

(* Every reply is stamped after the round that did not see it.             *)
LEMMA ReplyStep ==
    ASSUME IInv, [Next]_vars
    PROVE  ReplyInv'
  <1>1. CASE TopOfLoop
    BY <1>1
       DEF TopOfLoop, IInv, Types, ReplyInv, UnsentIsAnswered, Answered,
           mainvars, data, probevars, resendvars, history
  <1>2. CASE CopyAuth
    BY <1>2
       DEF CopyAuth, IInv, Types, ReplyInv, UnsentIsAnswered, Answered,
           mainvars, data, probevars, resendvars, history
  <1>3. CASE authresender_schedule
    BY <1>3
       DEF authresender_schedule, IInv, Types, ReplyInv, UnsentIsAnswered,
           Answered, mainvars, data, probevars, resendvars, history
  <1>4. CASE PokeProbes
    BY <1>4
       DEF PokeProbes, IInv, Types, ReplyInv, UnsentIsAnswered, Answered,
           mainvars, data, probevars, resendvars, history
  <1>5. CASE LockProbe
    BY <1>5
       DEF LockProbe, IInv, Types, ReplyInv, UnsentIsAnswered, Answered,
           mainvars, data, probevars, resendvars, history
  <1>6. CASE TestProbe
    BY <1>6
       DEF TestProbe, IInv, Types, ReplyInv, UnsentIsAnswered, Answered,
           mainvars, data, probevars, resendvars, history
  <1>7. CASE ImportProbe
    BY <1>7
       DEF ImportProbe, IInv, Types, ReplyInv, UnsentIsAnswered, Answered,
           mainvars, data, probevars, resendvars, history
  <1>8. CASE EndOfLoop
    BY <1>8
       DEF EndOfLoop, IInv, Types, ReplyInv, UnsentIsAnswered, Answered,
           mainvars, data, probevars, resendvars, history
  <1>9. CASE \E ok \in BOOLEAN : ProbeFunc(ok)
    BY <1>9
       DEF ProbeFunc, IInv, Types, ReplyInv, UnsentIsAnswered, Answered,
           mainvars, data, probevars, resendvars, history
  <1>10. CASE SwapOld
    BY <1>10
       DEF SwapOld, IInv, Types, ReplyInv, UnsentIsAnswered, Answered,
           mainvars, data, probevars, resendvars, history
  <1>11. CASE SetCurrent
    BY <1>11
       DEF SetCurrent, IInv, Types, ReplyInv, UnsentIsAnswered, Answered,
           mainvars, data, probevars, resendvars, history
  <1>12. CASE StampReply
    BY <1>12
       DEF StampReply, IInv, Types, ReplyInv, UnsentIsAnswered, Answered,
           mainvars, data, probevars, resendvars, history
  <1>13. CASE WaitPulse
    BY <1>13
       DEF WaitPulse, IInv, Types, ReplyInv, UnsentIsAnswered, Answered,
           mainvars, data, probevars, resendvars, history
  <1>14. CASE PulseReceived
    BY <1>14
       DEF PulseReceived, IInv, Types, ReplyInv, UnsentIsAnswered, Answered,
           mainvars, data, probevars, resendvars, history
  <1>15. CASE WakeSpuriously
    BY <1>15
       DEF WakeSpuriously, IInv, Types, ReplyInv, UnsentIsAnswered, Answered,
           mainvars, data, probevars, resendvars, history
  <1>16. CASE WaitSchedule
    BY <1>16
       DEF WaitSchedule, IInv, Types, ReplyInv, UnsentIsAnswered, Answered,
           mainvars, data, probevars, resendvars, history
  <1>17. CASE \E delay \in 0 .. ResendMax : TossCoin(delay)
    BY <1>17
       DEF TossCoin, IInv, Types, ReplyInv, UnsentIsAnswered, Answered,
           mainvars, data, probevars, resendvars, history
  <1>18. CASE Resend
    BY <1>18
       DEF Resend, IInv, Types, ReplyInv, UnsentIsAnswered, Answered, mainvars,
           data, probevars, resendvars, history
  <1>19. CASE Tick
    BY <1>19
       DEF Tick, IInv, Types, ReplyInv, UnsentIsAnswered, Answered, mainvars,
           data, probevars, resendvars, history
  <1>20. CASE UNCHANGED vars
    BY <1>20
       DEF vars, IInv, Types, ReplyInv, UnsentIsAnswered, Answered, mainvars,
           data, probevars, resendvars, history
  <1> QED
    BY <1>1, <1>2, <1>3, <1>4, <1>5, <1>6, <1>7, <1>8, <1>9, <1>10, <1>11,
       <1>12, <1>13, <1>14, <1>15, <1>16, <1>17, <1>18, <1>19, <1>20
       DEF Next, MainLoop, Probe, Resender

(* Rounds follow each other in time.                                       *)
LEMMA ClockStep ==
    ASSUME IInv, [Next]_vars
    PROVE  ClockInv'
  <1>1. CASE TopOfLoop
    <2>1. CASE nextslow <= now
      <3>1. mpc' = "copy" /\ tnow' = now
        BY <1>1, <2>1 DEF TopOfLoop
      <3> QED
        BY <1>1, <2>1, <3>1 DEF TopOfLoop, IInv, Types, ClockInv
    <2>2. CASE ~(nextslow <= now)
      <3>1. mpc' = "poke" /\ tnow' = now
        BY <1>1, <2>2 DEF TopOfLoop
      <3>2. now < nextslow
        BY <2>2, AgentLoopAssumption DEF IInv, Types
      <3> QED
        BY <1>1, <3>1, <3>2 DEF TopOfLoop, IInv, Types, ClockInv
    <2> QED
      BY <2>1, <2>2
  <1>2. CASE CopyAuth
    BY <1>2, AgentLoopAssumption
       DEF CopyAuth, IInv, Types, ClockInv, mainvars, data, probevars,
           resendvars, history
  <1>3. CASE authresender_schedule
    BY <1>3, AgentLoopAssumption
       DEF authresender_schedule, IInv, Types, ClockInv, mainvars, data,
           probevars, resendvars, history, NextSlow
  <1>4. CASE PokeProbes
    BY <1>4, NextSendGrows, AgentLoopAssumption
       DEF PokeProbes, IInv, Types, ClockInv, mainvars, data, probevars,
           resendvars, history
  <1>5. CASE LockProbe
    BY <1>5, AgentLoopAssumption
       DEF LockProbe, IInv, Types, ClockInv, mainvars, data, probevars,
           resendvars, history
  <1>6. CASE TestProbe
    BY <1>6, AgentLoopAssumption
       DEF TestProbe, IInv, Types, ClockInv, mainvars, data, probevars,
           resendvars, history
  <1>7. CASE ImportProbe
    BY <1>7, AgentLoopAssumption
       DEF ImportProbe, IInv, Types, ClockInv, mainvars, data, probevars,
           resendvars, history
  <1>8. CASE EndOfLoop
    <2>1. /\ wake' \in {lastpulse + Interval, nextsend, nextslow,
                        tnow + SlowEvery}
          /\ wake' \in Nat
          /\ wake' <= lastpulse + Interval
          /\ wake' <= nextsend /\ wake' <= nextslow
      BY <1>8, WakesForTheFirst DEF IInv
    <2>2. /\ wake <= tnow /\ tnow < lastpulse + Interval
          /\ tnow < nextslow /\ wake <= nextsend
          /\ now <= wake + MaxLate
      BY <1>8 DEF EndOfLoop, IInv, ClockInv
    <2>3. /\ wake \in Nat /\ tnow \in Nat /\ now \in Nat /\ SlowEvery \in Nat
          /\ nextslow \in Nat /\ nextsend \in Nat /\ MaxLate \in Nat
          /\ lastpulse + Interval \in Nat
      BY AgentLoopAssumption DEF IInv, Types, ClockInv
    <2>4. wake <= wake'
      BY <2>1, <2>2, <2>3
    <2>5. now <= wake' + MaxLate
      <3>1. wake' \in Nat /\ now <= wake + MaxLate
        BY <2>1, <2>2
      <3>2. /\ now \in Int /\ wake \in Int /\ wake' \in Int /\ MaxLate \in Int
            /\ wake <= wake'
        BY <2>3, <2>4, <3>1
      <3> QED
        BY <3>1, <3>2, StillInTime, Zenon
    <2> QED
      BY <1>8, <2>1, <2>5 DEF EndOfLoop, ClockInv
  <1>9. CASE \E ok \in BOOLEAN : ProbeFunc(ok)
    BY <1>9, AgentLoopAssumption
       DEF ProbeFunc, IInv, Types, ClockInv, mainvars, data, probevars,
           resendvars, history
  <1>10. CASE SwapOld
    BY <1>10, AgentLoopAssumption
       DEF SwapOld, IInv, Types, ClockInv, mainvars, data, probevars,
           resendvars, history
  <1>11. CASE SetCurrent
    BY <1>11, AgentLoopAssumption
       DEF SetCurrent, IInv, Types, ClockInv, mainvars, data, probevars,
           resendvars, history
  <1>12. CASE StampReply
    BY <1>12, AgentLoopAssumption
       DEF StampReply, IInv, Types, ClockInv, mainvars, data, probevars,
           resendvars, history
  <1>13. CASE WaitPulse
    BY <1>13, AgentLoopAssumption
       DEF WaitPulse, IInv, Types, ClockInv, mainvars, data, probevars,
           resendvars, history
  <1>14. CASE PulseReceived
    BY <1>14, AgentLoopAssumption
       DEF PulseReceived, IInv, Types, ClockInv, mainvars, data, probevars,
           resendvars, history
  <1>15. CASE WakeSpuriously
    BY <1>15, AgentLoopAssumption
       DEF WakeSpuriously, IInv, Types, ClockInv, mainvars, data, probevars,
           resendvars, history
  <1>16. CASE WaitSchedule
    BY <1>16, AgentLoopAssumption
       DEF WaitSchedule, IInv, Types, ClockInv, mainvars, data, probevars,
           resendvars, history
  <1>17. CASE \E delay \in 0 .. ResendMax : TossCoin(delay)
    BY <1>17, AgentLoopAssumption
       DEF TossCoin, IInv, Types, ClockInv, mainvars, data, probevars,
           resendvars, history
  <1>18. CASE Resend
    BY <1>18, AgentLoopAssumption
       DEF Resend, IInv, Types, ClockInv, mainvars, data, probevars,
           resendvars, history
  <1>19. CASE Tick
    BY <1>19, AgentLoopAssumption
       DEF Tick, IInv, Types, ClockInv, mainvars, data, probevars, resendvars,
           history
  <1>20. CASE UNCHANGED vars
    BY <1>20, AgentLoopAssumption
       DEF vars, IInv, Types, ClockInv, mainvars, data, probevars, resendvars,
           history
  <1> QED
    BY <1>1, <1>2, <1>3, <1>4, <1>5, <1>6, <1>7, <1>8, <1>9, <1>10, <1>11,
       <1>12, <1>13, <1>14, <1>15, <1>16, <1>17, <1>18, <1>19, <1>20
       DEF Next, MainLoop, Probe, Resender

(* A pulse wakes the probe, and the clock waits for the main loop.         *)
LEMMA PulseStep ==
    ASSUME IInv, [Next]_vars
    PROVE  PulseInv'
  <1>1. CASE TopOfLoop
    BY <1>1, AgentLoopAssumption
       DEF TopOfLoop, IInv, Types, ClockInv, PulseInv, ProbeRunsInTime,
           mainvars, data, probevars, resendvars, history
  <1>2. CASE CopyAuth
    BY <1>2, AgentLoopAssumption
       DEF CopyAuth, IInv, Types, ClockInv, PulseInv, ProbeRunsInTime,
           mainvars, data, probevars, resendvars, history
  <1>3. CASE authresender_schedule
    BY <1>3, AgentLoopAssumption
       DEF authresender_schedule, IInv, Types, ClockInv, PulseInv,
           ProbeRunsInTime, mainvars, data, probevars, resendvars, history
  <1>4. CASE PokeProbes
    BY <1>4, AgentLoopAssumption
       DEF PokeProbes, IInv, Types, ClockInv, PulseInv, ProbeRunsInTime,
           mainvars, data, probevars, resendvars, history, conditional_signal,
           ConditionalType
  <1>5. CASE LockProbe
    BY <1>5, AgentLoopAssumption
       DEF LockProbe, IInv, Types, ClockInv, PulseInv, ProbeRunsInTime,
           mainvars, data, probevars, resendvars, history
  <1>6. CASE TestProbe
    BY <1>6, AgentLoopAssumption
       DEF TestProbe, IInv, Types, ClockInv, PulseInv, ProbeRunsInTime,
           mainvars, data, probevars, resendvars, history
  <1>7. CASE ImportProbe
    BY <1>7, AgentLoopAssumption
       DEF ImportProbe, IInv, Types, ClockInv, PulseInv, ProbeRunsInTime,
           mainvars, data, probevars, resendvars, history
  <1>8. CASE EndOfLoop
    BY <1>8, AgentLoopAssumption
       DEF EndOfLoop, IInv, Types, ClockInv, PulseInv, ProbeRunsInTime,
           mainvars, data, probevars, resendvars, history
  <1>9. CASE \E ok \in BOOLEAN : ProbeFunc(ok)
    BY <1>9, AgentLoopAssumption
       DEF ProbeFunc, IInv, Types, ClockInv, PulseInv, ProbeRunsInTime,
           mainvars, data, probevars, resendvars, history
  <1>10. CASE SwapOld
    BY <1>10, AgentLoopAssumption
       DEF SwapOld, IInv, Types, ClockInv, PulseInv, ProbeRunsInTime, mainvars,
           data, probevars, resendvars, history
  <1>11. CASE SetCurrent
    BY <1>11, AgentLoopAssumption
       DEF SetCurrent, IInv, Types, ClockInv, PulseInv, ProbeRunsInTime,
           mainvars, data, probevars, resendvars, history
  <1>12. CASE StampReply
    BY <1>12, AgentLoopAssumption
       DEF StampReply, IInv, Types, ClockInv, PulseInv, ProbeRunsInTime,
           mainvars, data, probevars, resendvars, history
  <1>13. CASE WaitPulse
    BY <1>13, AgentLoopAssumption
       DEF WaitPulse, IInv, Types, ClockInv, PulseInv, ProbeRunsInTime,
           mainvars, data, probevars, resendvars, history,
           conditional_wait_fresh
  <1>14. CASE PulseReceived
    BY <1>14, AgentLoopAssumption
       DEF PulseReceived, IInv, Types, ClockInv, PulseInv, ProbeRunsInTime,
           mainvars, data, probevars, resendvars, history
  <1>15. CASE WakeSpuriously
    BY <1>15, AgentLoopAssumption
       DEF WakeSpuriously, IInv, Types, ClockInv, PulseInv, ProbeRunsInTime,
           mainvars, data, probevars, resendvars, history
  <1>16. CASE WaitSchedule
    BY <1>16, AgentLoopAssumption
       DEF WaitSchedule, IInv, Types, ClockInv, PulseInv, ProbeRunsInTime,
           mainvars, data, probevars, resendvars, history
  <1>17. CASE \E delay \in 0 .. ResendMax : TossCoin(delay)
    BY <1>17, AgentLoopAssumption
       DEF TossCoin, IInv, Types, ClockInv, PulseInv, ProbeRunsInTime,
           mainvars, data, probevars, resendvars, history
  <1>18. CASE Resend
    BY <1>18, AgentLoopAssumption
       DEF Resend, IInv, Types, ClockInv, PulseInv, ProbeRunsInTime, mainvars,
           data, probevars, resendvars, history
  <1>19. CASE Tick
    BY <1>19, AgentLoopAssumption
       DEF Tick, IInv, Types, ClockInv, PulseInv, ProbeRunsInTime, mainvars,
           data, probevars, resendvars, history
  <1>20. CASE UNCHANGED vars
    BY <1>20, AgentLoopAssumption
       DEF vars, IInv, Types, ClockInv, PulseInv, ProbeRunsInTime, mainvars,
           data, probevars, resendvars, history
  <1> QED
    BY <1>1, <1>2, <1>3, <1>4, <1>5, <1>6, <1>7, <1>8, <1>9, <1>10, <1>11,
       <1>12, <1>13, <1>14, <1>15, <1>16, <1>17, <1>18, <1>19, <1>20
       DEF Next, MainLoop, Probe, Resender

(* The resender is done before the main loop writes its buffer.            *)
LEMMA ResendStep ==
    ASSUME IInv, [Next]_vars
    PROVE  ResendInv'
  <1>1. CASE TopOfLoop
    BY <1>1, AgentLoopAssumption
       DEF TopOfLoop, IInv, Types, ClockInv, ResendInv, mainvars, data,
           probevars, resendvars, history
  <1>2. CASE CopyAuth
    BY <1>2, AgentLoopAssumption
       DEF CopyAuth, IInv, Types, ClockInv, ResendInv, mainvars, data,
           probevars, resendvars, history
  <1>3. CASE authresender_schedule
    BY <1>3, AgentLoopAssumption
       DEF authresender_schedule, IInv, Types, ClockInv, ResendInv, mainvars,
           data, probevars, resendvars, history, NextSlow, conditional_signal
  <1>4. CASE PokeProbes
    BY <1>4, AgentLoopAssumption
       DEF PokeProbes, IInv, Types, ClockInv, ResendInv, mainvars, data,
           probevars, resendvars, history
  <1>5. CASE LockProbe
    BY <1>5, AgentLoopAssumption
       DEF LockProbe, IInv, Types, ClockInv, ResendInv, mainvars, data,
           probevars, resendvars, history
  <1>6. CASE TestProbe
    BY <1>6, AgentLoopAssumption
       DEF TestProbe, IInv, Types, ClockInv, ResendInv, mainvars, data,
           probevars, resendvars, history
  <1>7. CASE ImportProbe
    BY <1>7, AgentLoopAssumption
       DEF ImportProbe, IInv, Types, ClockInv, ResendInv, mainvars, data,
           probevars, resendvars, history
  <1>8. CASE EndOfLoop
    BY <1>8, AgentLoopAssumption
       DEF EndOfLoop, IInv, Types, ClockInv, ResendInv, mainvars, data,
           probevars, resendvars, history
  <1>9. CASE \E ok \in BOOLEAN : ProbeFunc(ok)
    BY <1>9, AgentLoopAssumption
       DEF ProbeFunc, IInv, Types, ClockInv, ResendInv, mainvars, data,
           probevars, resendvars, history
  <1>10. CASE SwapOld
    BY <1>10, AgentLoopAssumption
       DEF SwapOld, IInv, Types, ClockInv, ResendInv, mainvars, data,
           probevars, resendvars, history
  <1>11. CASE SetCurrent
    BY <1>11, AgentLoopAssumption
       DEF SetCurrent, IInv, Types, ClockInv, ResendInv, mainvars, data,
           probevars, resendvars, history
  <1>12. CASE StampReply
    BY <1>12, AgentLoopAssumption
       DEF StampReply, IInv, Types, ClockInv, ResendInv, mainvars, data,
           probevars, resendvars, history
  <1>13. CASE WaitPulse
    BY <1>13, AgentLoopAssumption
       DEF WaitPulse, IInv, Types, ClockInv, ResendInv, mainvars, data,
           probevars, resendvars, history
  <1>14. CASE PulseReceived
    BY <1>14, AgentLoopAssumption
       DEF PulseReceived, IInv, Types, ClockInv, ResendInv, mainvars, data,
           probevars, resendvars, history
  <1>15. CASE WakeSpuriously
    BY <1>15, AgentLoopAssumption
       DEF WakeSpuriously, IInv, Types, ClockInv, ResendInv, mainvars, data,
           probevars, resendvars, history
  <1>16. CASE WaitSchedule
    BY <1>16, AgentLoopAssumption
       DEF WaitSchedule, IInv, Types, ClockInv, ResendInv, mainvars, data,
           probevars, resendvars, history, conditional_wait_fresh
  <1>17. CASE \E delay \in 0 .. ResendMax : TossCoin(delay)
    BY <1>17, AgentLoopAssumption
       DEF TossCoin, IInv, Types, ClockInv, ResendInv, mainvars, data,
           probevars, resendvars, history
  <1>18. CASE Resend
    BY <1>18, AgentLoopAssumption
       DEF Resend, IInv, Types, ClockInv, ResendInv, mainvars, data, probevars,
           resendvars, history
  <1>19. CASE Tick
    BY <1>19, AgentLoopAssumption
       DEF Tick, IInv, Types, ClockInv, ResendInv, mainvars, data, probevars,
           resendvars, history
  <1>20. CASE UNCHANGED vars
    BY <1>20, AgentLoopAssumption
       DEF vars, IInv, Types, ClockInv, ResendInv, mainvars, data, probevars,
           resendvars, history
  <1> QED
    BY <1>1, <1>2, <1>3, <1>4, <1>5, <1>6, <1>7, <1>8, <1>9, <1>10, <1>11,
       <1>12, <1>13, <1>14, <1>15, <1>16, <1>17, <1>18, <1>19, <1>20
       DEF Next, MainLoop, Probe, Resender

(* The inductive invariant. *)
THEOREM AgentInvariant == Spec => []IInv
  <1>1. IInv /\ [Next]_vars => IInv'
    BY TypesStep, DataStep, ReplyStep, ClockStep, PulseStep, ResendStep
       DEF IInv
  <1> QED
    BY <1>1, AgentInit, PTL DEF Spec

(* Type correctness; vlock is the main loop's while it looks at a probe.   *)
THEOREM AgentTypes == Spec => []TypeOK
  <1>1. IInv => TypeOK
    BY DEF IInv, Types, TypeOK
  <1> QED
    BY <1>1, AgentInvariant, PTL

(* probe_run never frees the data that the main loop imports.              *)
THEOREM ImportedDataAreLive == Spec => []ImportsLiveData
  <1>1. IInv => ImportsLiveData
    BY DEF IInv, DataInv
  <1> QED
    BY <1>1, AgentInvariant, PTL

(* Data that have not gone out pass the loop's test for a new reply.       *)
THEOREM UnsentDataAreAnswered == Spec => []UnsentIsAnswered
  <1>1. IInv => UnsentIsAnswered
    BY DEF IInv, ReplyInv
  <1> QED
    BY <1>1, AgentInvariant, PTL

(* A probe sleeps no longer than its interval and what the loop is late.   *)
THEOREM ProbesRunInTime == Spec => []ProbeRunsInTime
  <1>1. IInv => ProbeRunsInTime
    BY DEF IInv, PulseInv
  <1> QED
    BY <1>1, AgentInvariant, PTL

(* The resender sends the last auth packet, and never one that is being    *)
(* copied into its buffer.                                                 *)
THEOREM LastPacketIsResent == Spec => ResendsLastPacket
  <1>1. ASSUME IInv, [Next]_vars
        PROVE  [resent' # resent => resent' = packets]_vars
    <2>1. CASE Resend
      BY <1>1, <2>1 DEF IInv, ResendInv, Resend
    <2>2. CASE resent' = resent
      BY <2>2
    <2>3. Resend \/ resent' = resent
      BY <1>1 DEF Next, MainLoop, Probe, Resender, TopOfLoop, CopyAuth,
         authresender_schedule, PokeProbes, LockProbe, TestProbe,
         ImportProbe, EndOfLoop, ProbeFunc, SwapOld, SetCurrent, StampReply,
         WaitPulse, PulseReceived, WakeSpuriously, WaitSchedule, TossCoin,
         Tick, vars, history
    <2> QED
      BY <2>1, <2>2, <2>3
  <1> QED
    BY <1>1, AgentInvariant, PTL DEF Spec, ResendsLastPacket
=============================================================================
