---------------------------- MODULE MessageQueue ----------------------------
(***************************************************************************)
(* 11/10_usage_cond.cpp: main enqueues messages which consumer_thread      *)
(* takes and prints, with a mutex and a condition variable between them.   *)
(* enqueue_msg signals after it has unlocked; pthread_cond_wait may return *)
(* with no signal.                                                         *)
(***************************************************************************)
EXTENDS Integers, Sequences

CONSTANT Count   \* messages main sends before the one that stops

VARIABLES messages,  \* std::queue<msg>, its ids
          lock,      \* holder of the mutex
          main,      \* [at, sent]: place in enqueue_msg, messages pushed
          consumer,  \* place in process_msg
          mp,        \* ids process_msg has taken and not printed
          printed    \* ids printed

vars == <<messages, lock, main, consumer, mp, printed>>

Sent == [i \in 1..Count + 1 |-> IF i <= Count THEN i - 1 ELSE -1]

Init ==
  /\ messages = <<>> /\ mp = <<>> /\ printed = <<>>
  /\ lock = "free"
  /\ main = [at |-> "lock", sent |-> 0]
  /\ consumer = "lock"
-----------------------------------------------------------------------------
acquire(t) == lock = "free" /\ lock' = t

enqueue_lock ==
  /\ main.at = "lock" /\ acquire("main")
  /\ main' = [main EXCEPT !.at = "push"]
  /\ UNCHANGED <<messages, consumer, mp, printed>>

enqueue_push_front ==
  /\ main.at = "push"
  /\ messages' = <<Sent[main.sent + 1]>> \o messages
  /\ main' = [at |-> "unlocked", sent |-> main.sent + 1]
  /\ lock' = "free"
  /\ UNCHANGED <<consumer, mp, printed>>

enqueue_push ==
  /\ main.at = "push"
  /\ messages' = Append(messages, Sent[main.sent + 1])
  /\ main' = [at |-> "unlocked", sent |-> main.sent + 1]
  /\ lock' = "free"
  /\ UNCHANGED <<consumer, mp, printed>>

enqueue_signal_if_empty ==
  /\ main.at = "unlocked"
  /\ main' = [main EXCEPT !.at = IF main.sent > Count THEN "join" ELSE "lock"]
  /\ consumer' = IF consumer = "waiting" /\ messages = <<>>
                   THEN "lock" ELSE consumer
  /\ UNCHANGED <<messages, lock, mp, printed>>

(* pthread_cond_signal, and on to the next message or to pthread_join.     *)
enqueue_signal ==
  /\ main.at = "unlocked"
  /\ main' = [main EXCEPT !.at = IF main.sent > Count THEN "join" ELSE "lock"]
  /\ consumer' = IF consumer = "waiting" THEN "lock" ELSE consumer
  /\ UNCHANGED <<messages, lock, mp, printed>>

join ==
  /\ main.at = "join" /\ consumer = "returned"
  /\ main' = [main EXCEPT !.at = "exited"]
  /\ UNCHANGED <<messages, lock, consumer, mp, printed>>
-----------------------------------------------------------------------------
(* pthread_mutex_lock, or the end of a pthread_cond_wait that was woken.   *)
process_lock ==
  /\ consumer = "lock" /\ acquire("consumer")
  /\ consumer' = "test"
  /\ UNCHANGED <<messages, main, mp, printed>>

process_wait ==
  /\ consumer = "test" /\ messages = <<>>
  /\ consumer' = "waiting" /\ lock' = "free"
  /\ UNCHANGED <<messages, main, mp, printed>>

spurious_wakeup ==
  /\ consumer = "waiting" /\ consumer' = "lock"
  /\ UNCHANGED <<messages, lock, main, mp, printed>>

process_take ==
  /\ consumer = "test" /\ messages # <<>>
  /\ mp' = <<Head(messages)>> /\ messages' = Tail(messages)
  /\ consumer' = "print" /\ lock' = "free"
  /\ UNCHANGED <<main, printed>>

process_print_no_break ==
  /\ consumer = "print"
  /\ printed' = printed \o mp /\ mp' = <<>>
  /\ consumer' = "lock"
  /\ UNCHANGED <<messages, lock, main>>

process_print ==
  /\ consumer = "print"
  /\ printed' = printed \o mp /\ mp' = <<>>
  /\ consumer' = IF mp = <<-1>> THEN "returned" ELSE "lock"
  /\ UNCHANGED <<messages, lock, main>>

consumer_thread == process_lock \/ process_wait \/ process_take \/ process_print
enqueue_msg == enqueue_lock \/ enqueue_push \/ enqueue_signal

Exited == main.at = "exited" /\ UNCHANGED vars

Next == enqueue_msg \/ join \/ consumer_thread \/ spurious_wakeup \/ Exited

(* Two running threads of one program: each takes its next step. Strong    *)
(* fairness is for the mutex: a thread that finds it free again and again  *)
(* gets it, however often the other wakes for nothing. Nothing is owed a   *)
(* spurious wakeup.                                                        *)
Spec == /\ Init /\ [][Next]_vars
        /\ SF_vars(enqueue_lock) /\ WF_vars(enqueue_msg \/ join)
        /\ SF_vars(process_lock) /\ WF_vars(consumer_thread)
-----------------------------------------------------------------------------
(* The places of the two threads and who may hold the mutex.               *)
TypeOK ==
  /\ messages \in Seq(-1..Count) /\ mp \in Seq(-1..Count)
  /\ main \in [at : {"lock", "push", "unlocked", "join", "exited"},
               sent : 0..Count + 1]
  /\ consumer \in {"lock", "test", "waiting", "print", "returned"}
  /\ lock = IF main.at = "push" THEN "main"
            ELSE IF consumer = "test" THEN "consumer" ELSE "free"

(* What enqueue_msg pushed (11/10:48) is what process_msg printed, holds   *)
(* or has still to take, once each and in order, at every moment.          *)
Fifo == printed \o mp \o messages = SubSeq(Sent, 1, main.sent)

(* process_msg sleeps on a queue that is not empty (11/10:35) only while   *)
(* the signal of 11/10:50 is on its way.                                   *)
NoLostWakeup ==
  consumer = "waiting" /\ messages # <<>> => main.at = "unlocked"

(* main returns from pthread_join (11/10:74), and by then every message    *)
(* has been printed.                                                       *)
AllProcessed == main.at = "exited" /\ printed = Sent
=============================================================================
