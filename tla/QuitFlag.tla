------------------------------ MODULE QuitFlag ------------------------------
(***************************************************************************)
(* 12/6_thread_handle_signal.cpp: main blocks SIGINT and SIGQUIT, starts a *)
(* thread that takes them with sigwait, and sleeps on a condition variable *)
(* until SIGQUIT has set quitflag. A standard signal that is blocked       *)
(* pends, once; one that is not blocked has its default action, which      *)
(* ends the process.                                                       *)
(***************************************************************************)
Signals == {"SIGINT", "SIGQUIT"}

VARIABLES main,      \* place in main, "exited" or "killed" by a signal
          thr,       \* place in thr_fn
          blocked,   \* the signals are blocked in every thread
          pending,   \* blocked signals sent and not taken
          lock,      \* holder of the mutex
          quitflag,
          taken      \* signals sigwait has returned

vars == <<main, thr, blocked, pending, lock, quitflag, taken>>

Running == main \notin {"exited", "killed"}

Init ==
  /\ main = "start" /\ thr = "none"
  /\ blocked = FALSE /\ pending = {} /\ taken = {}
  /\ lock = "free" /\ quitflag = FALSE

(* Somebody types the interrupt or the quit character.                     *)
send ==
  /\ Running
  /\ \E s \in Signals :
       \/ blocked /\ s \notin pending /\ pending' = pending \cup {s}
          /\ UNCHANGED main
       \/ ~blocked /\ main' = "killed" /\ UNCHANGED pending
  /\ UNCHANGED <<thr, blocked, lock, quitflag, taken>>
-----------------------------------------------------------------------------
block_signals ==
  /\ main = "start"
  /\ main' = "create" /\ blocked' = TRUE
  /\ UNCHANGED <<thr, pending, lock, quitflag, taken>>

create_thread ==
  /\ main = "create"
  /\ main' = "lock" /\ thr' = "sigwait"
  /\ UNCHANGED <<blocked, pending, lock, quitflag, taken>>

main_lock ==
  /\ main = "lock" /\ lock = "free"
  /\ main' = "test" /\ lock' = "main"
  /\ UNCHANGED <<thr, blocked, pending, quitflag, taken>>

(* pthread_cond_wait returns, with the mutex, to the test of the loop.     *)
wait_returns_if ==
  /\ main = "woken" /\ lock = "free"
  /\ main' = "quit"
  /\ UNCHANGED <<thr, blocked, pending, lock, quitflag, taken>>

wait_returns ==
  /\ main = "woken" /\ lock = "free"
  /\ main' = "test" /\ lock' = "main"
  /\ UNCHANGED <<thr, blocked, pending, quitflag, taken>>

main_test_unlocks_first ==
  \/ /\ main = "test" /\ lock = "main"
     /\ main' = IF quitflag THEN "quit" ELSE "sleepy"
     /\ lock' = "free"
     /\ UNCHANGED <<thr, blocked, pending, quitflag, taken>>
  \/ /\ main = "sleepy"
     /\ main' = "waiting"
     /\ UNCHANGED <<thr, blocked, pending, lock, quitflag, taken>>

main_test ==
  /\ main = "test"
  /\ main' = IF quitflag THEN "quit" ELSE "waiting"
  /\ lock' = "free"
  /\ UNCHANGED <<thr, blocked, pending, quitflag, taken>>

spurious_wakeup ==
  /\ main = "waiting" /\ main' = "woken"
  /\ UNCHANGED <<thr, blocked, pending, lock, quitflag, taken>>

(* The mask is restored: a signal that pends now ends the process.         *)
restore_mask ==
  /\ main = "quit"
  /\ quitflag' = FALSE /\ blocked' = FALSE
  /\ main' = IF pending = {} THEN "exit" ELSE "killed"
  /\ UNCHANGED <<thr, pending, lock, taken>>

call_exit ==
  /\ main = "exit" /\ main' = "exited"
  /\ UNCHANGED <<thr, blocked, pending, lock, quitflag, taken>>
-----------------------------------------------------------------------------
thr_sigwait ==
  /\ Running /\ thr = "sigwait"
  /\ \E s \in pending :
       /\ pending' = pending \ {s} /\ taken' = taken \cup {s}
       /\ thr' = IF s = "SIGQUIT" THEN "lock" ELSE "sigwait"
  /\ UNCHANGED <<main, blocked, lock, quitflag>>

thr_lock ==
  /\ Running /\ thr = "lock" /\ lock = "free"
  /\ thr' = "set" /\ lock' = "thr"
  /\ UNCHANGED <<main, blocked, pending, quitflag, taken>>

thr_set_returns ==
  /\ Running /\ thr = "set"
  /\ quitflag' = TRUE /\ lock' = "free" /\ thr' = "returned"
  /\ UNCHANGED <<main, blocked, pending, taken>>

thr_set ==
  /\ Running /\ thr = "set"
  /\ quitflag' = TRUE /\ lock' = "free" /\ thr' = "signal"
  /\ UNCHANGED <<main, blocked, pending, taken>>

thr_signal ==
  /\ Running /\ thr = "signal"
  /\ main' = IF main = "waiting" THEN "woken" ELSE main
  /\ thr' = "returned"
  /\ UNCHANGED <<blocked, pending, lock, quitflag, taken>>

main_thread == \/ block_signals \/ create_thread \/ main_lock \/ wait_returns
               \/ main_test \/ restore_mask \/ call_exit

thr_fn == thr_sigwait \/ thr_lock \/ thr_set \/ thr_signal

Ended == ~Running /\ UNCHANGED vars

Next == main_thread \/ spurious_wakeup \/ thr_fn \/ send \/ Ended

(* Each thread takes its next step when it has one, and is not kept from a *)
(* mutex that is free again and again by the spurious wakeups of the other.*)
Spec == /\ Init /\ [][Next]_vars
        /\ WF_vars(main_thread) /\ WF_vars(thr_fn) /\ SF_vars(thr_lock)
-----------------------------------------------------------------------------
(* The places of the threads, and that the mutex is held exactly where the *)
(* code is between a lock and its unlock.                                  *)
TypeOK ==
  /\ main \in {"start", "create", "lock", "test", "waiting", "woken", "quit",
               "exit", "exited", "killed"}
  /\ thr \in {"none", "sigwait", "lock", "set", "signal", "returned"}
  /\ blocked \in BOOLEAN /\ quitflag \in BOOLEAN
  /\ pending \subseteq Signals /\ taken \subseteq Signals
  /\ Running => /\ main = "test" <=> lock = "main"
                /\ thr = "set" <=> lock = "thr"

(* Once the thread of 12/6:42 runs nothing but a SIGQUIT that it has taken *)
(* ends the process: no SIGINT, no wakeup of main without a reason, and no *)
(* signal that was sent before sigwait was called.                         *)
EndsOnlyOnQuit ==
  main \in {"quit", "exit", "exited", "killed"} /\ thr # "none"
    => "SIGQUIT" \in taken

(* main sleeps with quitflag set (12/6:47) only while the signal of        *)
(* 12/6:24, sent after the unlock, is still to come.                       *)
NoLostWakeup == main = "waiting" /\ quitflag => thr = "signal"

(* A SIGQUIT that the thread takes ends the process.                       *)
QuitEnds == "SIGQUIT" \in taken ~> ~Running
=============================================================================
