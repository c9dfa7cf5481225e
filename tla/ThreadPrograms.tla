--------------------------- MODULE ThreadPrograms ---------------------------
(***************************************************************************)
(* The programs of chapters 11 and 12 that synchronise threads: the        *)
(* reader-writer lock of 11/9, the condition variable of 11/10, the barrier*)
(* of 11/11, the thread of 12/6 that takes the signals, and the smaller    *)
(* ones of MutexPrograms.  A behaviour runs one of them.                   *)
(***************************************************************************)
EXTENDS Integers, Sequences, FiniteSets

CONSTANTS NUM_THREADS, Count, Shapes, Values

ASSUME ThreadsAssumption == NUM_THREADS \in Nat \ {0} /\ Count \in Nat

VARIABLES program,   \* "rwlock", "cond", "barrier", "signal", "mutex"
          job_queue, rwlock, worker, rw_main, k, answer,
          messages, lock, producer, consumer, mp, printed,
          shape, drawn, v, sorter, i, slice_worker, arrived, current_idx, result,
          main, thr, blocked, pending, quit_lock, quitflag, taken,
          script, th, mtx, out, sh

Rw == INSTANCE RwQueue WITH lock <- rwlock, main <- rw_main
Cond == INSTANCE MessageQueue WITH main <- producer
Barrier == INSTANCE MultithreadSort WITH main <- sorter, worker <- slice_worker
Sig == INSTANCE QuitFlag WITH lock <- quit_lock
Mutex == INSTANCE MutexPrograms

rwVars == <<job_queue, rwlock, worker, rw_main, k, answer>>
condVars == <<messages, lock, producer, consumer, mp, printed>>
barrierVars == <<shape, drawn, v, sorter, i, slice_worker, arrived, current_idx, result>>
sigVars == <<main, thr, blocked, pending, quit_lock, quitflag, taken>>
mutexVars == <<script, th, mtx, out, sh>>
vars == <<program, rwVars, condVars, barrierVars, sigVars, mutexVars>>

(* The vector and the script of what does not run are of no interest.      *)
Init ==
  /\ program \in {"rwlock", "cond", "barrier", "signal", "mutex"}
  /\ Rw!Init /\ Cond!Init /\ Barrier!Init /\ Sig!Init
  /\ program = "mutex" \/ script = "timedlock"
  /\ Mutex!Init
  /\ program # "barrier" => shape.sz = 2 /\ drawn[0] = 0 /\ drawn[1] = 0

rw(A) == program = "rwlock" /\ A /\ UNCHANGED <<program, condVars, barrierVars, sigVars, mutexVars>>
cond(A) == program = "cond" /\ A /\ UNCHANGED <<program, rwVars, barrierVars, sigVars, mutexVars>>
barrier(A) == program = "barrier" /\ A /\ UNCHANGED <<program, rwVars, condVars, sigVars, mutexVars>>
sig(A) == program = "signal" /\ A /\ UNCHANGED <<program, rwVars, condVars, barrierVars, mutexVars>>
mutex(A) == program = "mutex" /\ A /\ UNCHANGED <<program, rwVars, condVars, barrierVars, sigVars>>

Next == rw(Rw!Next) \/ cond(Cond!Next) \/ barrier(Barrier!Next) \/ sig(Sig!Next)
        \/ mutex(Mutex!Next)

(* The fairness of the specifications; the threads of a script go on while *)
(* one of them can.                                                        *)
Spec ==
  /\ Init /\ [][Next]_vars
  /\ WF_vars(rw(Rw!main_thread)) /\ \A t \in Rw!Workers : WF_vars(rw(Rw!thread(t)))
  /\ SF_vars(cond(Cond!enqueue_lock)) /\ WF_vars(cond(Cond!enqueue_msg \/ Cond!join))
  /\ SF_vars(cond(Cond!process_lock)) /\ WF_vars(cond(Cond!consumer_thread))
  /\ WF_vars(barrier(Barrier!sort))
  /\ WF_vars(barrier(\E t \in Barrier!Workers : Barrier!thread(t)))
  /\ WF_vars(sig(Sig!main_thread)) /\ WF_vars(sig(Sig!thr_fn)) /\ SF_vars(sig(Sig!thr_lock))
  /\ WF_vars(mutex(\E t \in Mutex!Threads : Mutex!Step(t)))

-----------------------------------------------------------------------------
(* The states of the programs that have a queue or a flag.                 *)
TypeOK == Rw!TypeOK /\ Cond!TypeOK /\ Sig!TypeOK

(* 11/9: nobody changes the deque while find walks over it; find has the   *)
(* job or nullptr by what is true of the deque as the lock is released,    *)
(* and returns that job unless a worker takes one out before it is copied. *)
FindAnswers == Rw!ScanIsStable /\ Rw!FindAnswers

(* 11/10 and 12/6: nobody sleeps on a condition that holds, except while   *)
(* the signal that was sent after the unlock is on its way.                *)
NoLostWakeup == Cond!NoLostWakeup /\ Sig!NoLostWakeup

(* 12/6: only a SIGQUIT that the thread took ends the program. 11/2 to     *)
(* 12/7: mutexes, keys, handlers and joined values are what each program   *)
(* relies on.                                                              *)
ThreadsKeepRules == Sig!EndsOnlyOnQuit /\ Mutex!ThreadsSafe

(* 11/9: a job is in the deque while its worker sleeps, and not otherwise. *)
(* 11/10: every message is printed, held or queued, once and in order.     *)
QueuesKeepAll == TypeOK /\ Rw!JobWhileAlive /\ Cond!Fifo

(* 11/11: nobody passes the barrier while a worker still sorts, merge      *)
(* takes the elements in order, and a sorted permutation of what was drawn *)
(* is left; with an empty slice nobody ever passes it.                     *)
SortCorrect ==
  /\ Barrier!TypeOK /\ Barrier!BarrierHolds /\ Barrier!MergeInOrder
  /\ Barrier!SortedPermutation /\ Barrier!EmptySliceWaits

(* 11/9: main gets to its last line, which says 0. 11/10: main returns     *)
(* from pthread_join with every message printed. 11/11: sort returns if no *)
(* slice is empty, unless pthread_create failed. 12/6: every SIGQUIT the   *)
(* thread took ends the program. 11/2 to 12/7: every program ends; retry   *)
(* of 12/2 does not wait for the mutex that its own thread has.            *)
EveryProgramEnds ==
  /\ <>(\/ program = "rwlock" /\ Rw!FinalSizeZero
        \/ program = "cond" /\ Cond!AllProcessed
        \/ program = "barrier" /\ Barrier!Sorted
        \/ program = "mutex" /\ Mutex!Over
        \/ program = "signal")
  /\ Sig!QuitEnds
=============================================================================
