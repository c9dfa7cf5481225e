-------------------------- MODULE MultithreadSort --------------------------
(***************************************************************************)
(* 11/11_usage_barrier.cpp: sort gives every worker a slice of the vector, *)
(* waits for them at a barrier, joins them and merges the sorted slices.   *)
(* Indices are the code's, from 0.  The barrier counts every worker and    *)
(* main, and a worker whose slice is empty is not created: such a shape    *)
(* never leaves the barrier.  Shapes where a slice would begin past the    *)
(* end, so that count wraps, are left out.                                 *)
(***************************************************************************)
EXTENDS Integers, FiniteSets, Sequences, TLC

CONSTANTS Shapes,  \* [sz, n]: sizes of the vector and numbers of threads
          Values   \* what the generator draws

elements_per_thread(s) == IF s.sz = 0 THEN 1 ELSE (s.sz + s.n - 1) \div s.n

InRange == {s \in Shapes : s.n > 0 /\ (s.n - 1) * elements_per_thread(s) <= s.sz}

VARIABLES shape,
          drawn,        \* the vector as the constructor left it
          v,
          main,         \* place in sort
          i,            \* threads created; then threads joined
          worker,       \* places of the workers
          arrived,      \* threads waiting at the barrier
          current_idx,  \* merge: next element of every slice
          result

vars == <<shape, drawn, v, main, i, worker, arrived, current_idx, result>>

Workers == 0..shape.n - 1

Lower(a, b) == IF a < b THEN a ELSE b
start_idx(t) == t * elements_per_thread(shape)
end_idx(t) == Lower(start_idx(t) + elements_per_thread(shape), shape.sz)
Slice(t) == start_idx(t)..end_idx(t) - 1
EmptySlice == \E t \in Workers : Slice(t) = {}

Init ==
  /\ shape \in InRange
  /\ drawn \in [0..shape.sz - 1 -> Values] /\ v = drawn
  /\ main = "create" /\ i = 0
  /\ worker = [t \in Workers |-> "none"] /\ arrived = {}
  /\ current_idx = [t \in Workers |-> start_idx(t)] /\ result = <<>>
-----------------------------------------------------------------------------
create_thread ==
  /\ main = "create" /\ i < shape.n
  /\ worker' = [worker EXCEPT ![i] = IF Slice(i) = {} THEN "none" ELSE "sort"]
  /\ i' = i + 1
  /\ UNCHANGED <<shape, drawn, v, main, arrived, current_idx, result>>

(* pthread_create fails: nobody catches the exception.                     *)
create_throws ==
  /\ main = "create" /\ i < shape.n /\ Slice(i) # {}
  /\ main' = "terminated"
  /\ UNCHANGED <<shape, drawn, v, i, worker, arrived, current_idx, result>>

barrier_without_main(t) ==
  IF Cardinality(arrived) < shape.n - 1
    THEN arrived' = arrived \cup {t}
    ELSE arrived' = {}

(* pthread_barrier_wait of thread t, -1 for main: the last to come lets    *)
(* all of them go.                                                         *)
barrier_wait(t) ==
  IF Cardinality(arrived) < shape.n
    THEN arrived' = arrived \cup {t}
    ELSE arrived' = {}

main_waits ==
  /\ main = "create" /\ i = shape.n
  /\ barrier_wait(-1)
  /\ main' = "barrier" /\ i' = 0
  /\ UNCHANGED <<shape, drawn, v, worker, current_idx, result>>

worker_sort_short(t) ==
  /\ main # "terminated" /\ worker[t] = "sort"
  /\ worker' = [worker EXCEPT ![t] = "sorted"]
  /\ LET n == Cardinality(Slice(t)) - 1
         s == SortSeq([k \in 1..n |-> v[start_idx(t) + k - 1]],
                      LAMBDA a, b : a < b)
     IN v' = [k \in DOMAIN v |-> IF k - start_idx(t) \in 0..n - 1
                                   THEN s[k - start_idx(t) + 1] ELSE v[k]]
  /\ UNCHANGED <<shape, drawn, main, i, arrived, current_idx, result>>

(* std::sort of the slice: its elements in order, the others untouched.    *)
worker_sort(t) ==
  /\ main # "terminated" /\ worker[t] = "sort"
  /\ worker' = [worker EXCEPT ![t] = "sorted"]
  /\ LET s == SortSeq([k \in 1..Cardinality(Slice(t)) |-> v[start_idx(t) + k - 1]],
                      LAMBDA a, b : a < b)
     IN v' = [k \in DOMAIN v |-> IF k \in Slice(t) THEN s[k - start_idx(t) + 1]
                                                   ELSE v[k]]
  /\ UNCHANGED <<shape, drawn, main, i, arrived, current_idx, result>>

worker_waits(t) ==
  /\ main # "terminated" /\ worker[t] = "sorted"
  /\ worker' = [worker EXCEPT ![t] = "barrier"]
  /\ barrier_wait(t)
  /\ UNCHANGED <<shape, drawn, v, main, i, current_idx, result>>

worker_returns(t) ==
  /\ main # "terminated" /\ worker[t] = "barrier" /\ t \notin arrived
  /\ worker' = [worker EXCEPT ![t] = "returned"]
  /\ UNCHANGED <<shape, drawn, v, main, i, arrived, current_idx, result>>

join_same ==
  /\ main = "barrier" /\ -1 \notin arrived
  /\ IF i < shape.n THEN worker[i] = "returned" /\ UNCHANGED <<i, main>>
                    ELSE main' = "merge" /\ UNCHANGED i
  /\ UNCHANGED <<shape, drawn, v, worker, arrived, current_idx, result>>

join ==
  /\ main = "barrier" /\ -1 \notin arrived
  /\ IF i < shape.n THEN worker[i] = "returned" /\ i' = i + 1 /\ UNCHANGED main
                    ELSE main' = "merge" /\ UNCHANGED i
  /\ UNCHANGED <<shape, drawn, v, worker, arrived, current_idx, result>>
-----------------------------------------------------------------------------
first_thread_idx ==
  CHOOSE t \in Workers : /\ current_idx[t] < end_idx(t)
                         /\ \A u \in 0..t - 1 : current_idx[u] = end_idx(u)

(* The slice whose next element is smallest, the first of them on a tie.   *)
min_thread_idx ==
  CHOOSE t \in Workers :
    /\ current_idx[t] < end_idx(t)
    /\ \A u \in Workers : current_idx[u] < end_idx(u) =>
         \/ v[current_idx[t]] < v[current_idx[u]]
         \/ v[current_idx[t]] = v[current_idx[u]] /\ t <= u

merge ==
  /\ main = "merge" /\ Len(result) < shape.sz
  /\ result' = Append(result, v[current_idx[min_thread_idx]])
  /\ current_idx' = [current_idx EXCEPT ![min_thread_idx] = @ + 1]
  /\ UNCHANGED <<shape, drawn, v, main, i, worker, arrived>>

merge_moves ==
  /\ main = "merge" /\ Len(result) = shape.sz
  /\ v' = [k \in DOMAIN v |-> result[k + 1]] /\ result' = <<>>
  /\ main' = "done"
  /\ UNCHANGED <<shape, drawn, i, worker, arrived, current_idx>>

sort == create_thread \/ main_waits \/ join \/ merge \/ merge_moves
thread(t) == worker_sort(t) \/ worker_waits(t) \/ worker_returns(t)
Ended == /\ main \in {"done", "terminated"} \/ (main = "barrier" /\ EmptySlice)
         /\ UNCHANGED vars

Next == sort \/ create_throws \/ (\E t \in Workers : thread(t)) \/ Ended

(* Every thread of the process runs.                                       *)
Spec == /\ Init /\ [][Next]_vars /\ WF_vars(sort)
        /\ WF_vars(\E t \in Workers : thread(t))
-----------------------------------------------------------------------------
(* The vector keeps its length and its kind of values, and merge never     *)
(* leaves a slice.                                                         *)
TypeOK ==
  /\ shape \in InRange /\ v \in [0..shape.sz - 1 -> Values]
  /\ main \in {"create", "barrier", "merge", "done", "terminated"}
  /\ i \in 0..shape.n
  /\ worker \in [Workers -> {"none", "sort", "sorted", "barrier", "returned"}]
  /\ arrived \subseteq Workers \cup {-1}
  /\ \A t \in Workers : current_idx[t] \in start_idx(t)..end_idx(t)

(* Nobody passes the barrier of 11/11:59 and :78 while a worker still      *)
(* sorts.                                                                  *)
BarrierHolds ==
  \/ main \in {"merge", "done"}
  \/ main = "barrier" /\ -1 \notin arrived
  \/ \E t \in Workers : worker[t] = "returned"
  => \A t \in Workers : worker[t] \in {"barrier", "returned"}

(* While merge reads the slices (11/11:90), what it has taken is in order  *)
(* and no larger than anything it has still to take, so that the next      *)
(* smallest element is at the front of a slice.                            *)
MergeInOrder ==
  main = "merge" =>
    /\ \A k \in 1..Len(result) - 1 : result[k] <= result[k + 1]
    /\ \A t \in Workers : \A k \in current_idx[t]..end_idx(t) - 1 :
         result # <<>> => result[Len(result)] <= v[k]

(* sort leaves the elements the constructor drew, in order, whatever the   *)
(* number of threads: what is_sorted (11/11:66) tests, and more.           *)
SortedPermutation ==
  main = "done" =>
    /\ \A k \in 1..shape.sz - 1 : v[k - 1] <= v[k]
    /\ \A x \in Values : Cardinality({k \in DOMAIN v : v[k] = x})
                       = Cardinality({k \in DOMAIN v : drawn[k] = x})

(* With an empty slice sort does not return: it waits at the barrier       *)
(* (11/11:59) for the worker it has not created.                           *)
EmptySliceWaits == EmptySlice => main \in {"create", "barrier", "terminated"}

(* Otherwise sort returns, unless pthread_create fails.                    *)
Sorted == EmptySlice \/ main \in {"done", "terminated"}
=============================================================================
