------------------------------ MODULE AgentLoop ------------------------------
(***************************************************************************)
(* The threads of the agent: the main loop of opticon-agent/main.c, a      *)
(* probe (probelist.c) it pulses and collects, and the authresender        *)
(* (resender.c) that may send an auth packet once more.  What the packets  *)
(* mean to the collector is the subject of SessionProtocol.                *)
(*                                                                         *)
(* A probe's data are numbered as they are made.  The main loop and the    *)
(* probe share vcurrent, vold and lastreply, only part of which the lock   *)
(* vlock covers; the main loop and the resender share a packet buffer      *)
(* without any lock, so a copy into it is two steps.                       *)
(***************************************************************************)
EXTENDS Integers, FiniteSetsExt, Conditional

CONSTANTS
    Interval,     \* the probe's interval
    SlowLane,     \* whether that is more than 60 seconds
    FastEvery,    \* 60: between two fast rounds
    SlowEvery,    \* 300: between two slow rounds
    StartDelay,   \* 5: from the start to the first slow round
    ResendMax,    \* 20: the longest the resender waits
    MaxLate,      \* how far the main loop gets behind
    MaxSpurious,  \* bound of the model: spurious wake-ups of the probe
    StartTime,    \* the clock at the start
    EndTime       \* bound of the model: no time passes after this

ASSUME AgentLoopAssumption ==
    /\ Interval \in Nat \ {0} /\ SlowLane \in BOOLEAN
    /\ FastEvery \in Nat \ {0} /\ SlowEvery \in Nat /\ StartDelay \in Nat
    /\ ResendMax \in Nat \ {0} /\ MaxLate \in Nat
    /\ ResendMax + MaxLate < SlowEvery
    /\ MaxSpurious \in Nat
    /\ StartTime \in Nat /\ EndTime \in Nat
    /\ Interval <= StartTime /\ StartTime <= EndTime

VARIABLES
    now,          \* the clock
    mpc,          \* where the main loop is
    tnow,         \* its note of the time
    slowround,    \* whether it is in a slow round
    v,            \* the probe data it looks at
    wake,         \* when it goes round again
    nextslow, nextsend,
    ppc,          \* where the probe is in probe_run
    nvar,         \* data the probe has just made
    vcurrent, vold, vlock,
    lastpulse, lastreply, lastdispatch,
    pulse,        \* the probe's conditional
    rpc,          \* where the resender is
    buf,          \* its buffer: a packet, or Mixed of two
    cond,         \* its conditional
    due,          \* when it will send
    (* History variables: no step depends on them but for the bounds. *)
    made,         \* probe data made so far
    freed,        \* probe data that have been freed
    sent,         \* the probe data dispatched last
    packets,      \* auth packets made so far
    resent,       \* what the resender sent last
    spurious,     \* spurious wake-ups so far
    sleptat       \* when the probe last went to sleep

mainvars == <<mpc, tnow, slowround, v, wake, nextslow, nextsend>>
data == <<vcurrent, vold>>
probevars == <<ppc, nvar>>
resendvars == <<rpc, buf, cond, due>>
history == <<made, freed, sent, packets, resent, spurious, sleptat>>
vars == <<now, mainvars, probevars, data, vlock, lastpulse, lastreply,
          lastdispatch, pulse, resendvars, history>>

Mixed == -1

Init ==
    /\ now = StartTime
    /\ mpc = "top" /\ tnow = 0 /\ slowround = FALSE /\ v = 0
    /\ wake = StartTime
    /\ nextslow = StartTime + StartDelay
    /\ nextsend = StartTime + 2 * StartDelay
    /\ ppc = "func" /\ nvar = 0
    /\ vcurrent = 0 /\ vold = 0 /\ vlock = "free"
    /\ lastpulse = 0
    /\ lastdispatch = StartTime /\ lastreply = StartTime - 1
    /\ pulse = conditional_init
    /\ rpc = "wait" /\ buf = 0 /\ cond = conditional_init /\ due = 0
    /\ made = 0 /\ freed = {} /\ sent = 0
    /\ packets = 0 /\ resent = 0 /\ spurious = 0 /\ sleptat = 0

-----------------------------------------------------------------------------
(* The main loop. *)

TopOfLoop ==
    /\ mpc = "top" /\ now >= wake
    /\ tnow' = now
    /\ slowround' = (nextslow <= now)
    /\ mpc' = IF slowround' THEN "copy" ELSE "poke"
    /\ UNCHANGED <<now, v, wake, nextslow, nextsend, probevars, data, vlock,
                   lastpulse, lastreply, lastdispatch, pulse, resendvars,
                   history>>

(* A slow round's auth packet is sent and copied for the resender.  Halfway *)
(* the copy the buffer has bytes of two packets.                           *)
CopyAuth ==
    /\ mpc = "copy"
    /\ packets' = packets + 1
    /\ buf' = Mixed
    /\ mpc' = "schedule"
    /\ UNCHANGED <<now, tnow, slowround, v, wake, nextslow, nextsend,
                   probevars, data, vlock, lastpulse, lastreply, lastdispatch,
                   pulse, rpc, cond, due, made, freed, sent, resent, spurious,
                   sleptat>>

(* Mutant: the next slow round comes before a resend has to be over. *)
NextSlowTooSoon == nextslow + 1

NextSlow == nextslow + SlowEvery

authresender_schedule ==
    /\ mpc = "schedule"
    /\ buf' = packets
    /\ cond' = conditional_signal(cond)
    /\ nextslow' = NextSlow
    /\ mpc' = "poke"
    /\ UNCHANGED <<now, tnow, slowround, v, wake, nextsend, probevars, data,
                   vlock, lastpulse, lastreply, lastdispatch, pulse, rpc, due,
                   history>>

(* The probe is pulsed if its interval is over, and its data are looked at *)
(* in a slow round or when a fast round is due.                            *)
PokeProbes ==
    LET fire == lastpulse + Interval <= tnow
        fast == ~slowround /\ tnow >= nextsend
    IN  /\ mpc = "poke"
        /\ pulse' = IF fire THEN conditional_signal(pulse) ELSE pulse
        /\ lastpulse' = IF fire THEN tnow ELSE lastpulse
        /\ nextsend' =
             IF fast
             THEN nextsend + FastEvery * ((tnow - nextsend) \div FastEvery + 1)
             ELSE nextsend
        /\ mpc' = IF slowround \/ fast THEN "lock" ELSE "end"
        /\ UNCHANGED <<now, tnow, slowround, v, wake, nextslow, probevars,
                       data, vlock, lastreply, lastdispatch, resendvars,
                       history>>

LockProbe ==
    /\ mpc = "lock" /\ vlock = "free"
    /\ vlock' = "main"
    /\ v' = vcurrent
    /\ mpc' = "test"
    /\ UNCHANGED <<now, tnow, slowround, wake, nextslow, nextsend, probevars,
                   data, lastpulse, lastreply, lastdispatch, pulse,
                   resendvars, history>>

(* Mutant: data that came in the second of the last dispatch do not count. *)
AnsweredLater == lastdispatch < lastreply

(* "See if data for this probe has been collected since the last kick". *)
Answered == lastdispatch <= lastreply

(* Data that do not go out in this round are left alone. *)
TestProbe ==
    LET take == v # 0 /\ Answered /\ slowround = SlowLane
    IN  /\ mpc = "test"
        /\ mpc' = IF take THEN "import" ELSE "end"
        /\ vlock' = IF take THEN vlock ELSE "free"
        /\ UNCHANGED <<now, tnow, slowround, v, wake, nextslow, nextsend,
                       probevars, data, lastpulse, lastreply, lastdispatch,
                       pulse, resendvars, history>>

(* host_import reads the data, which go out with this round's packet. *)
ImportProbe ==
    /\ mpc = "import"
    /\ sent' = v
    /\ lastdispatch' = tnow
    /\ vlock' = "free"
    /\ mpc' = "end"
    /\ UNCHANGED <<now, tnow, slowround, v, wake, nextslow, nextsend,
                   probevars, data, lastpulse, lastreply, pulse, resendvars,
                   made, freed, packets, resent, spurious, sleptat>>

(* The loop sleeps until the next thing it has to do. *)
EndOfLoop ==
    /\ mpc = "end"
    /\ wake' = Min({lastpulse + Interval, nextsend, nextslow,
                    tnow + SlowEvery})
    /\ v' = 0 /\ tnow' = 0 /\ slowround' = FALSE
    /\ mpc' = "top"
    /\ UNCHANGED <<now, nextslow, nextsend, probevars, data,
                   vlock, lastpulse, lastreply, lastdispatch, pulse,
                   resendvars, history>>

-----------------------------------------------------------------------------
(* The probe, probe_run. *)

(* The probe's function returns data, or none. *)
ProbeFunc(ok) ==
    /\ ppc = "func"
    /\ made' = IF ok THEN made + 1 ELSE made
    /\ nvar' = IF ok THEN made + 1 ELSE 0
    /\ ppc' = IF ok THEN "swap" ELSE "wait"
    /\ UNCHANGED <<now, mainvars, data, vlock, lastpulse, lastreply,
                   lastdispatch, pulse, resendvars, freed, sent, packets,
                   resent, spurious, sleptat>>

(* Mutant: the current data are freed, there is no vold. *)
SwapFreesCurrent ==
    /\ ppc = "swap" /\ vlock = "free"
    /\ freed' = freed \cup ({vcurrent} \ {0})
    /\ ppc' = "set"
    /\ UNCHANGED <<now, mainvars, nvar, data, vlock, lastpulse, lastreply,
                   lastdispatch, pulse, resendvars, made, sent, packets,
                   resent, spurious, sleptat>>

(* The locked part: the old data are freed, the current ones become old. *)
SwapOld ==
    /\ ppc = "swap" /\ vlock = "free"
    /\ freed' = freed \cup ({vold} \ {0})
    /\ vold' = vcurrent
    /\ ppc' = "set"
    /\ UNCHANGED <<now, mainvars, nvar, vcurrent, vlock, lastpulse, lastreply,
                   lastdispatch, pulse, resendvars, made, sent, packets,
                   resent, spurious, sleptat>>

(* Without the lock: the new data become current, ... *)
SetCurrent ==
    /\ ppc = "set"
    /\ vcurrent' = nvar
    /\ ppc' = "stamp"
    /\ UNCHANGED <<now, mainvars, nvar, vold, vlock, lastpulse, lastreply,
                   lastdispatch, pulse, resendvars, history>>

(* ... and only then is the reply noted. *)
StampReply ==
    /\ ppc = "stamp"
    /\ lastreply' = now
    /\ nvar' = 0
    /\ ppc' = "wait"
    /\ UNCHANGED <<now, mainvars, data, vlock, lastpulse, lastdispatch, pulse,
                   resendvars, history>>

(* Pulses that came while the probe was busy are forgotten. *)
WaitPulse ==
    /\ ppc = "wait"
    /\ pulse' = conditional_wait_fresh(pulse)
    /\ ppc' = "asleep"
    /\ sleptat' = now
    /\ UNCHANGED <<now, mainvars, nvar, data, vlock, lastpulse, lastreply,
                   lastdispatch, resendvars, made, freed, sent, packets,
                   resent, spurious>>

PulseReceived ==
    /\ ppc = "asleep" /\ pulse.waiter = "woken"
    /\ pulse' = wakeup(pulse)
    /\ ppc' = "func"
    /\ UNCHANGED <<now, mainvars, nvar, data, vlock, lastpulse, lastreply,
                   lastdispatch, resendvars, history>>

WakeSpuriously ==
    /\ ppc = "asleep" /\ pulse.waiter = "asleep"
    /\ spurious < MaxSpurious
    /\ spurious' = spurious + 1
    /\ pulse' = wakeup(pulse)
    /\ ppc' = "func"
    /\ UNCHANGED <<now, mainvars, nvar, data, vlock, lastpulse, lastreply,
                   lastdispatch, resendvars, made, freed, sent, packets,
                   resent, sleptat>>

-----------------------------------------------------------------------------
(* The resender, authresender_run. *)

WaitSchedule ==
    /\ rpc = "wait"
    /\ cond' = conditional_wait_fresh(cond)
    /\ rpc' = "asleep"
    /\ UNCHANGED <<now, mainvars, probevars, data, vlock, lastpulse,
                   lastreply, lastdispatch, pulse, buf, due, history>>

(* Half the packets are not resent; for the others the thread waits. *)
TossCoin(delay) ==
    /\ rpc = "asleep" /\ cond.waiter = "woken"
    /\ cond' = wakeup(cond)
    /\ rpc' = IF delay = 0 THEN "wait" ELSE "sleep"
    /\ due' = IF delay = 0 THEN 0 ELSE now + delay
    /\ UNCHANGED <<now, mainvars, probevars, data, vlock, lastpulse,
                   lastreply, lastdispatch, pulse, buf, history>>

Resend ==
    /\ rpc = "sleep" /\ now >= due
    /\ resent' = buf
    /\ rpc' = "wait" /\ due' = 0
    /\ UNCHANGED <<now, mainvars, probevars, data, vlock, lastpulse,
                   lastreply, lastdispatch, pulse, buf, cond, made, freed,
                   sent, packets, spurious, sleptat>>

-----------------------------------------------------------------------------
(* Time passes.  The main loop is never more than MaxLate behind with what *)
(* it woke up for, and the resender gets to run within the second, which   *)
(* is what the schedule of the agent counts on; the probe's function may   *)
(* take any time.                                                          *)
Tick ==
    /\ now < EndTime
    /\ now < wake + MaxLate
    /\ rpc = "asleep" => cond.waiter # "woken"
    /\ rpc = "sleep" => now < due
    /\ now' = now + 1
    /\ UNCHANGED <<mainvars, probevars, data, vlock, lastpulse, lastreply,
                   lastdispatch, pulse, resendvars, history>>

MainLoop ==
    \/ TopOfLoop \/ CopyAuth \/ authresender_schedule \/ PokeProbes
    \/ LockProbe \/ TestProbe \/ ImportProbe \/ EndOfLoop
Probe ==
    \/ \E ok \in BOOLEAN : ProbeFunc(ok)
    \/ SwapOld \/ SetCurrent \/ StampReply \/ WaitPulse \/ PulseReceived
Resender ==
    \/ WaitSchedule
    \/ \E delay \in 0 .. ResendMax : TossCoin(delay)
    \/ Resend

Next == MainLoop \/ Probe \/ WakeSpuriously \/ Resender \/ Tick

Spec == Init /\ [][Next]_vars

-----------------------------------------------------------------------------
(* Type correctness; nobody but the main loop keeps vlock between steps. *)
TypeOK ==
    /\ now \in StartTime .. EndTime /\ tnow \in 0 .. now
    /\ {v, vcurrent, vold, nvar, sent} \subseteq 0 .. made
    /\ vlock = "main" <=> mpc \in {"test", "import"}
    /\ pulse \in ConditionalType /\ cond \in ConditionalType
    /\ lastreply <= now /\ lastdispatch <= now /\ lastpulse <= now
    /\ buf \in {Mixed} \cup 0 .. packets
    /\ slowround \in BOOLEAN /\ spurious \in 0 .. MaxSpurious

(* The data the main loop imports have not been freed: vold keeps them for *)
(* a loop that looked at vcurrent before probe_run replaced it.            *)
ImportsLiveData == mpc \in {"test", "import"} => v \notin freed

(* A reply is never mistaken for one that has gone out: whichever way the  *)
(* unlocked writes of probe_run and a round of the main loop interleave,   *)
(* data that have not been dispatched pass the loop's test.                *)
UnsentIsAnswered ==
    vcurrent # 0 /\ vcurrent # sent /\ ppc # "stamp" => Answered

(* The resender sends the auth packet that was made last, and whole: the   *)
(* next slow round is too far away to write into its buffer.  (This is for *)
(* a resender that only wakes up when signalled; a spurious wake-up late   *)
(* in the interval could still be sending when the next packet is copied.) *)
ResendsLastPacket == [][resent' # resent => resent' = packets]_vars

(* A probe sleeps for its interval at most, but for what the main loop is  *)
(* late: although the pulses it got while it was busy were dropped by      *)
(* conditional_wait_fresh, the next one is always on its way.              *)
ProbeRunsInTime ==
    ppc = "asleep" /\ pulse.waiter = "asleep"
        => now <= sleptat + Interval + MaxLate
=============================================================================
