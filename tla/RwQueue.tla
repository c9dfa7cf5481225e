------------------------------ MODULE RwQueue ------------------------------
(***************************************************************************)
(* 11/9_usage_rwlock.cpp: every worker puts its job into a deque and takes *)
(* it out again, while main asks for the size and looks for the job of the *)
(* first worker; a reader-writer lock protects the deque. The job of a     *)
(* worker is the worker's id. The sleeps order nothing and are left out;   *)
(* find looks at one element in a step. It returns the element through a   *)
(* reference into the deque, which it copies after it has given the lock   *)
(* back: k is then the place of that reference, counted from the first     *)
(* element, and below 1 or above the last when no element is there.        *)
(***************************************************************************)
EXTENDS Integers, Sequences

CONSTANT NUM_THREADS

Workers == 0..NUM_THREADS - 1
target_id == 0

(* What find returns when it returns no job, and what it returns when the  *)
(* element that it copies is no longer one.                                *)
nullptr == NUM_THREADS
dangling == NUM_THREADS + 1

VARIABLES job_queue,
          lock,    \* [writer, readers]: who holds the rwlock
          worker,  \* places of the workers
          main,    \* place in main
          k,       \* place of find in the deque; threads created, then joined
          answer   \* what size or find returned last

vars == <<job_queue, lock, worker, main, k, answer>>

Free == [writer |-> {}, readers |-> {}]

Init ==
  /\ job_queue = <<>> /\ lock = Free
  /\ worker = [t \in Workers |-> "none"]
  /\ main = "create" /\ k = 0 /\ answer = 0

wrlock(t) == lock = Free /\ lock' = [lock EXCEPT !.writer = {t}]
rdlock == lock.writer = {} /\ lock' = [lock EXCEPT !.readers = {"main"}]
rwunlock == lock' = Free
-----------------------------------------------------------------------------
push_lock(t) ==
  /\ worker[t] = "start" /\ wrlock(t)
  /\ worker' = [worker EXCEPT ![t] = "push"]
  /\ UNCHANGED <<job_queue, main, k, answer>>

push_back(t) ==
  /\ worker[t] = "push"
  /\ job_queue' = Append(job_queue, t) /\ rwunlock
  /\ worker' = [worker EXCEPT ![t] = "pushed"]
  /\ UNCHANGED <<main, k, answer>>

(* Where std::find stops, and the deque without that element.              *)
found(q, t) == CHOOSE j \in DOMAIN q : q[j] = t /\ \A i \in 1..j - 1 : q[i] # t
erase(q, j) == SubSeq(q, 1, j - 1) \o SubSeq(q, j + 1, Len(q))

(* erase moves the elements before the gap or the ones behind it: a        *)
(* reference keeps its address, and the deque may begin one further on.    *)
shift == IF main = "copy" THEN k' \in {k, k - 1} ELSE k' = k

remove_rdlock(t) ==
  /\ worker[t] = "pushed" /\ lock.writer = {}
  /\ worker' = [worker EXCEPT ![t] = "remove"]
  /\ UNCHANGED <<job_queue, lock, main, k, answer>>

remove_lock(t) ==
  /\ worker[t] = "pushed" /\ wrlock(t)
  /\ worker' = [worker EXCEPT ![t] = "remove"]
  /\ UNCHANGED <<job_queue, main, k, answer>>

remove_first(t) ==
  /\ worker[t] = "remove"
  /\ job_queue' = Tail(job_queue) /\ rwunlock
  /\ worker' = [worker EXCEPT ![t] = "returned"]
  /\ UNCHANGED <<main, k, answer>>

remove_last(t) ==
  /\ worker[t] = "remove"
  /\ LET last == Len(job_queue)
     IN job_queue' = IF last > 0 /\ job_queue[last] = t
                       THEN erase(job_queue, last) ELSE job_queue
  /\ rwunlock
  /\ worker' = [worker EXCEPT ![t] = "returned"]
  /\ UNCHANGED <<main, k, answer>>

(* std::find of the job, and erase when it is there.                       *)
remove(t) ==
  /\ worker[t] = "remove"
  /\ IF \E j \in DOMAIN job_queue : job_queue[j] = t
       THEN job_queue' = erase(job_queue, found(job_queue, t)) /\ shift
       ELSE UNCHANGED <<job_queue, k>>
  /\ rwunlock
  /\ worker' = [worker EXCEPT ![t] = "returned"]
  /\ UNCHANGED <<main, answer>>

thread(t) == push_lock(t) \/ push_back(t) \/ remove_lock(t) \/ remove(t)
-----------------------------------------------------------------------------
create ==
  /\ main = "create"
  /\ IF k < NUM_THREADS
       THEN worker' = [worker EXCEPT ![k] = "start"] /\ k' = k + 1 /\ UNCHANGED main
       ELSE main' = "size" /\ k' = 0 /\ UNCHANGED worker
  /\ UNCHANGED <<job_queue, lock, answer>>

size_lock ==
  /\ main \in {"size", "final"} /\ rdlock
  /\ main' = IF main = "size" THEN "count" ELSE "recount"
  /\ UNCHANGED <<job_queue, worker, k, answer>>

size ==
  /\ main \in {"count", "recount"} /\ rwunlock
  /\ answer' = Len(job_queue)
  /\ main' = IF main = "count" THEN "find" ELSE "exited"
  /\ UNCHANGED <<job_queue, worker, k>>

find_lock ==
  /\ main = "find" /\ rdlock
  /\ main' = "scan" /\ k' = 1
  /\ UNCHANGED <<job_queue, worker, answer>>

find ==
  /\ main = "scan" /\ k <= Len(job_queue) /\ job_queue[k] # target_id
  /\ k' = k + 1
  /\ UNCHANGED <<job_queue, lock, worker, main, answer>>

find_unlocks_early ==
  /\ main = "scan" /\ rwunlock
  /\ \/ k >= Len(job_queue) /\ answer' = nullptr /\ main' = "join" /\ k' = 0
     \/ k < Len(job_queue) /\ job_queue[k] = target_id /\ main' = "copy" /\ UNCHANGED <<k, answer>>
  /\ UNCHANGED <<job_queue, worker>>

(* The lock is given back before the job is copied.                        *)
find_unlocks ==
  /\ main = "scan" /\ rwunlock
  /\ \/ k > Len(job_queue) /\ answer' = nullptr /\ main' = "join" /\ k' = 0
     \/ k <= Len(job_queue) /\ job_queue[k] = target_id /\ main' = "copy" /\ UNCHANGED <<k, answer>>
  /\ UNCHANGED <<job_queue, worker>>

(* The copy of the element that the reference means by now. It is undefined*)
(* where there is none, and while a worker moves the elements.             *)
find_copy ==
  /\ main = "copy"
  /\ \/ k \in DOMAIN job_queue /\ answer' = job_queue[k]
     \/ /\ k \notin DOMAIN job_queue \/ \E t \in Workers : worker[t] = "remove"
        /\ answer' \in {nullptr, dangling}
  /\ main' = "join" /\ k' = 0
  /\ UNCHANGED <<job_queue, lock, worker>>

join ==
  /\ main = "join"
  /\ IF k < NUM_THREADS THEN worker[k] = "returned" /\ k' = k + 1 /\ UNCHANGED main
                        ELSE main' = "final" /\ UNCHANGED k
  /\ UNCHANGED <<job_queue, lock, worker, answer>>

main_thread == create \/ size_lock \/ size \/ find_lock \/ find \/ find_unlocks \/ find_copy
               \/ join
Exited == main = "exited" /\ UNCHANGED vars

Next == main_thread \/ (\E t \in Workers : thread(t)) \/ Exited

(* All threads run; every thread takes the lock a few times only, so that  *)
(* it is free in the end for the one that still waits.                     *)
Spec == /\ Init /\ [][Next]_vars /\ WF_vars(main_thread)
        /\ \A t \in Workers : WF_vars(thread(t))
-----------------------------------------------------------------------------
(* The deque, the holders of the lock, the places of the threads, the      *)
(* index of find, which a reference left behind may carry out of the deque.*)
TypeOK ==
  /\ job_queue \in Seq(Workers)
  /\ lock.writer \subseteq Workers /\ lock.readers \subseteq {"main"}
  /\ worker \in [Workers -> {"none", "start", "push", "pushed", "remove", "returned"}]
  /\ k \in IF main = "copy" THEN Int
           ELSE 0..(IF main = "scan" THEN Len(job_queue) + 1 ELSE NUM_THREADS)

(* A worker's job is in the deque once while the worker sleeps, and at no  *)
(* other time: push_back and remove (11/9:33-46) lose nobody else's job.   *)
JobWhileAlive ==
  \A t \in Workers :
    LET places == {j \in DOMAIN job_queue : job_queue[j] = t}
    IN IF worker[t] \in {"pushed", "remove"}
         THEN \E j \in DOMAIN job_queue : places = {j}
         ELSE places = {}

(* While find walks over the deque (11/9:50) nobody changes it, and what   *)
(* it has passed does not hold the job it looks for.                       *)
ScanIsStable ==
  [][main = "scan" => /\ UNCHANGED job_queue
                      /\ target_id \notin {job_queue[j] : j \in 1..k - 1}]_vars

(* The reference of find means the job that find looked for.               *)
Refers == k \in DOMAIN job_queue /\ job_queue[k] = target_id

(* find has a reference to the first worker's job as it gives the lock back*)
(* when that job is in the deque, and returns nullptr when it is not       *)
(* (11/9:51-57). The copy is made without the lock (11/9:53), so that the  *)
(* job is returned if nobody has taken a job out since, its own or another:*)
(* only a remove makes the reference mean something else, and the copy is  *)
(* of the job unless a remove is under way.                                *)
FindAnswers ==
  [][/\ main = "scan" /\ main' # "scan" =>
          IF worker[target_id] \in {"pushed", "remove"}
            THEN main' = "copy" /\ Refers'
            ELSE main' = "join" /\ answer' = nullptr
     /\ main = "copy" /\ Refers =>
          \/ main' = "copy" /\ Refers'
          \/ main' = "join" /\ answer' = target_id
          \/ \E t \in Workers : worker[t] = "remove"]_vars

(* The last line main prints (11/9:111) says 0, and main gets there.       *)
FinalSizeZero == main = "exited" /\ answer = 0
=============================================================================
