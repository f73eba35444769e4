----------------------------- MODULE Conditional -----------------------------
(***************************************************************************)
(* The conditional of libopticon/thread.c: a mutex, a pthread condition    *)
(* variable and a counter of queued signals.  Every conditional of the     *)
(* system has one waiting thread, so the wait set of the condition         *)
(* variable is the state of that thread: awake, asleep in                  *)
(* pthread_cond_wait, or woken by a signal and about to get the mutex      *)
(* back.  Each operator is one stretch of code executed with the           *)
(* conditional's mutex held: pthread_cond_wait releases it, so a wait that *)
(* blocks is two steps, going to sleep and waking up.                      *)
(***************************************************************************)
EXTENDS Integers

(* queue is a C int: it may be negative. *)
ConditionalType == [queue : Int, waiter : {"awake", "asleep", "woken"}]

conditional_init == [queue |-> 0, waiter |-> "awake"]

(* Mutant: the signal is counted but pthread_cond_signal is not called. *)
SignalCountedOnly(c) == [c EXCEPT !.queue = c.queue + 1]

(* queue++ and pthread_cond_signal, which does nothing without a sleeper. *)
conditional_signal(c) ==
    [queue |-> c.queue + 1,
     waiter |-> IF c.waiter = "asleep" THEN "woken" ELSE c.waiter]

(* conditional_wait_fresh up to its pthread_cond_wait: signals that were   *)
(* queued are forgotten.                                                   *)
conditional_wait_fresh(c) == [queue |-> 0, waiter |-> "asleep"]

(* conditional_wait up to its return or to its pthread_cond_wait. *)
conditional_wait(c) ==
    IF c.queue # 0 THEN [queue |-> c.queue - 1, waiter |-> "awake"]
                   ELSE [queue |-> 0, waiter |-> "asleep"]

(* pthread_cond_wait returns 0, because of a signal or, as POSIX allows,   *)
(* spuriously, and the waiter takes one signal off the queue.              *)
wakeup(c) == [queue |-> c.queue - 1, waiter |-> "awake"]
=============================================================================
