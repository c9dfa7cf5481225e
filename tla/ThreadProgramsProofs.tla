------------------------ MODULE ThreadProgramsProofs ------------------------
(***************************************************************************)
(* Proofs about the thread programs 11/9, 11/10 and 12/6, for any number   *)
(* of workers and of messages: the reader-writer lock keeps the deque      *)
(* still while find walks over it, the queue delivers each message once    *)
(* and in order, and no wakeup is lost.                                    *)
(***************************************************************************)
EXTENDS ThreadPrograms, TLAPS

(* A step of the composition is a step of each program or leaves it alone. *)
LEMMA StepOfEach ==
  ASSUME [Next]_vars
  PROVE  [Rw!Next]_(Rw!vars) /\ [Cond!Next]_(Cond!vars) /\ [Sig!Next]_(Sig!vars)
BY Zenon DEF Next, vars, rw, cond, barrier, sig, mutex, rwVars, condVars, sigVars,
   Rw!vars, Cond!vars, Sig!vars
-----------------------------------------------------------------------------
(* 12/6: what TypeOK says, that quitflag is set only after a SIGQUIT, and  *)
(* that the signals are blocked from before the thread runs until main has *)
(* seen quitflag.                                                          *)
SigInv ==
  /\ Sig!TypeOK /\ Sig!NoLostWakeup
  /\ quitflag \/ thr \in {"lock", "set", "signal", "returned"}
       \/ main \in {"quit", "exit", "exited"} => "SIGQUIT" \in taken
  /\ main \in {"create", "lock", "test", "waiting", "woken", "quit"} => blocked
  /\ main \in {"start", "create"} => thr = "none"
  /\ Sig!EndsOnlyOnQuit

LEMMA SigInit == Sig!Init => SigInv
BY Zenon DEF Sig!Init, SigInv, Sig!TypeOK, Sig!NoLostWakeup, Sig!EndsOnlyOnQuit, Sig!Running

LEMMA SigStep ==
  ASSUME SigInv, [Sig!Next]_(Sig!vars)
  PROVE  SigInv'
<1> USE DEF SigInv, Sig!TypeOK, Sig!NoLostWakeup, Sig!EndsOnlyOnQuit, Sig!Running
<1>1. CASE Sig!block_signals   BY <1>1, Zenon DEF Sig!block_signals
<1>2. CASE Sig!create_thread   BY <1>2, Zenon DEF Sig!create_thread
<1>3. CASE Sig!main_lock       BY <1>3, Zenon DEF Sig!main_lock
<1>4. CASE Sig!wait_returns    BY <1>4, Zenon DEF Sig!wait_returns
<1>5. CASE Sig!main_test       BY <1>5, Zenon DEF Sig!main_test
<1>6. CASE Sig!restore_mask    BY <1>6, Zenon DEF Sig!restore_mask
<1>7. CASE Sig!call_exit       BY <1>7, Zenon DEF Sig!call_exit
<1>8. CASE Sig!spurious_wakeup BY <1>8, Zenon DEF Sig!spurious_wakeup
<1>9. CASE Sig!thr_sigwait     BY <1>9, Zenon DEF Sig!thr_sigwait
<1>10. CASE Sig!thr_lock       BY <1>10, Zenon DEF Sig!thr_lock
<1>11. CASE Sig!thr_set        BY <1>11, Zenon DEF Sig!thr_set
<1>12. CASE Sig!thr_signal     BY <1>12, Zenon DEF Sig!thr_signal
<1>13. CASE Sig!send           BY <1>13, Zenon DEF Sig!send, Sig!Signals
<1>14. CASE Sig!Ended \/ UNCHANGED Sig!vars  BY <1>14 DEF Sig!Ended, Sig!vars
<1>15. QED
  BY <1>1, <1>2, <1>3, <1>4, <1>5, <1>6, <1>7, <1>8, <1>9, <1>10, <1>11, <1>12, <1>13,
     <1>14, ZenonT(30) DEF Sig!Next, Sig!main_thread, Sig!thr_fn
-----------------------------------------------------------------------------
(* 11/10: mp holds a message exactly between taking and printing it, and   *)
(* main is at the mutex only with a message to send; the two threads are   *)
(* never both inside.                                                      *)
CondInv ==
  /\ Cond!TypeOK /\ Cond!Fifo /\ Cond!NoLostWakeup
  /\ printed \in Seq(-1..Count)
  /\ consumer # "print" => mp = <<>>
  /\ producer.at \in {"lock", "push"} => producer.sent <= Count
  /\ ~(producer.at = "push" /\ consumer = "test")

LEMMA SentType == Cond!Sent \in [1..Count + 1 -> -1..Count]
BY ThreadsAssumption DEF Cond!Sent

(* The prefix of what is sent grows by the message that enqueue_msg pushes.*)
LEMMA SentGrows ==
  ASSUME NEW n \in 0..Count
  PROVE  SubSeq(Cond!Sent, 1, n + 1) = Append(SubSeq(Cond!Sent, 1, n), Cond!Sent[n + 1])
OBVIOUS

(* A sequence with an element put behind it, or one taken from its front.  *)
LEMMA ConcatAppend ==
  ASSUME NEW S, NEW a \in Seq(S), NEW b \in Seq(S), NEW x \in S
  PROVE  a \o Append(b, x) = Append(a \o b, x)
<1> DEFINE l == a \o Append(b, x)
           r == Append(a \o b, x)
<1>1. l \in Seq(S) /\ r \in Seq(S) /\ Len(l) = Len(r)
  OBVIOUS
<1>2. \A n \in 1..Len(l) : l[n] = r[n]
  OBVIOUS
<1> HIDE DEF l, r
<1>3. l = r
  BY SMTT(30), <1>1, <1>2
<1>4. QED
  BY <1>3, Zenon DEF l, r

LEMMA ConcatTaken ==
  ASSUME NEW S, NEW a \in Seq(S), NEW b \in Seq(S), b # <<>>
  PROVE  a \o <<Head(b)>> \o Tail(b) = a \o b
<1> DEFINE l == a \o <<Head(b)>> \o Tail(b)
           r == a \o b
<1>1. l \in Seq(S) /\ r \in Seq(S) /\ Len(l) = Len(r)
  OBVIOUS
<1>2. \A n \in 1..Len(l) : l[n] = r[n]
  OBVIOUS
<1> HIDE DEF l, r
<1>3. l = r
  BY SMTT(30), <1>1, <1>2
<1>4. QED
  BY <1>3, Zenon DEF l, r

LEMMA CondInit == Cond!Init => CondInv
<1> SUFFICES ASSUME Cond!Init PROVE CondInv
  BY Zenon
<1>1. Cond!Fifo
  BY SentType, ThreadsAssumption DEF Cond!Init, Cond!Fifo
<1>2. QED
  BY <1>1, ThreadsAssumption DEF Cond!Init, CondInv, Cond!TypeOK, Cond!NoLostWakeup

LEMMA CondStep ==
  ASSUME CondInv, [Cond!Next]_(Cond!vars)
  PROVE  CondInv'
<1> USE ThreadsAssumption
<1>t. /\ messages \in Seq(-1..Count) /\ mp \in Seq(-1..Count) /\ printed \in Seq(-1..Count)
      /\ producer \in [at : {"lock", "push", "unlocked", "join", "exited"}, sent : 0..Count + 1]
      /\ printed \o mp \o messages = SubSeq(Cond!Sent, 1, producer.sent)
      /\ consumer # "print" => mp = <<>>
  BY Zenon DEF CondInv, Cond!TypeOK, Cond!Fifo
<1>1. CASE Cond!enqueue_lock
  BY <1>1, Zenon DEF Cond!enqueue_lock, Cond!acquire, CondInv, Cond!TypeOK, Cond!Fifo, Cond!NoLostWakeup
<1>2. CASE Cond!enqueue_push
  <2> DEFINE id == Cond!Sent[producer.sent + 1]
  <2>1. /\ producer.at = "push" /\ producer.sent \in 0..Count
        /\ producer' = [at |-> "unlocked", sent |-> producer.sent + 1]
        /\ messages' = Append(messages, id) /\ lock' = "free"
        /\ mp' = mp /\ printed' = printed /\ consumer' = consumer
    BY <1>2, <1>t DEF Cond!enqueue_push, CondInv
  <2>2. id \in -1..Count
    BY SMTT(30), <2>1, SentType
  <2> HIDE DEF id
  <2>3. printed \o mp \o Append(messages, id) = Append(printed \o mp \o messages, id)
    <3> DEFINE Ids == -1..Count
    <3>1. printed \o mp \in Seq(Ids) /\ messages \in Seq(Ids) /\ id \in Ids
      BY <1>t, <2>2
    <3> HIDE DEF Ids
    <3>2. QED
      BY <3>1, ConcatAppend
  <2>4. Append(SubSeq(Cond!Sent, 1, producer.sent), id) = SubSeq(Cond!Sent, 1, producer.sent + 1)
    BY <2>1, SentGrows, Zenon DEF id
  <2>5. Cond!Fifo'
    BY <1>t, <2>1, <2>3, <2>4, Zenon DEF Cond!Fifo
  <2>6. Cond!TypeOK'
    BY SMTT(30), <1>t, <2>1, <2>2 DEF CondInv, Cond!TypeOK
  <2>7. QED
    BY <1>t, <2>1, <2>5, <2>6, Zenon DEF CondInv, Cond!NoLostWakeup
<1>3. CASE Cond!enqueue_signal
  <2>1. /\ producer.at = "unlocked"
        /\ producer'.at = (IF producer.sent > Count THEN "join" ELSE "lock")
        /\ producer'.sent = producer.sent
        /\ producer' \in [at : {"lock", "push", "unlocked", "join", "exited"},
                         sent : 0..Count + 1]
        /\ consumer' = (IF consumer = "waiting" THEN "lock" ELSE consumer)
        /\ messages' = messages /\ lock' = lock /\ mp' = mp /\ printed' = printed
    BY <1>3, <1>t, Zenon DEF Cond!enqueue_signal
  <2>2. Cond!Fifo'
    BY <1>t, <2>1, Zenon DEF Cond!Fifo
  <2>3. QED
    BY SMTT(30), <1>t, <2>1, <2>2 DEF CondInv, Cond!TypeOK, Cond!NoLostWakeup
<1>4. CASE Cond!join
  BY <1>4, Zenon DEF Cond!join, CondInv, Cond!TypeOK, Cond!Fifo, Cond!NoLostWakeup
<1>5. CASE Cond!process_lock
  BY <1>5, Zenon DEF Cond!process_lock, Cond!acquire, CondInv, Cond!TypeOK, Cond!Fifo, Cond!NoLostWakeup
<1>6. CASE Cond!process_wait
  BY <1>6, Zenon DEF Cond!process_wait, CondInv, Cond!TypeOK, Cond!Fifo, Cond!NoLostWakeup
<1>7. CASE Cond!process_take
  <2>1. /\ consumer = "test" /\ messages # <<>> /\ mp = <<>>
        /\ mp' = <<Head(messages)>> /\ messages' = Tail(messages)
        /\ consumer' = "print" /\ lock' = "free"
        /\ producer' = producer /\ printed' = printed
    BY <1>7, <1>t, Zenon DEF Cond!process_take
  <2>2. mp' \in Seq(-1..Count) /\ messages' \in Seq(-1..Count)
    BY SMTT(30), <1>t, <2>1
  <2>3. printed \o <<Head(messages)>> \o Tail(messages) = printed \o <<>> \o messages
    <3> DEFINE Ids == -1..Count
    <3>1. printed \in Seq(Ids) /\ messages \in Seq(Ids) /\ printed \o <<>> = printed
      BY <1>t
    <3> HIDE DEF Ids
    <3>2. QED
      BY SMTT(30), <2>1, <3>1, ConcatTaken
  <2>4. Cond!Fifo'
    BY <1>t, <2>1, <2>3, Zenon DEF Cond!Fifo
  <2>5. QED
    BY <1>t, <2>1, <2>2, <2>4, Zenon DEF CondInv, Cond!TypeOK, Cond!NoLostWakeup
<1>8. CASE Cond!process_print
  <2>1. /\ consumer = "print" /\ printed' = printed \o mp /\ mp' = <<>>
        /\ consumer' \in {"returned", "lock"}
        /\ messages' = messages /\ lock' = lock /\ producer' = producer
    BY <1>8, Zenon DEF Cond!process_print
  <2>2. printed \o mp \in Seq(-1..Count) /\ printed \o mp \o <<>> = printed \o mp
    BY <1>t
  <2>3. Cond!Fifo'
    BY <1>t, <2>1, <2>2, Zenon DEF Cond!Fifo
  <2>4. QED
    BY SMTT(30), <1>t, <2>1, <2>2, <2>3 DEF CondInv, Cond!TypeOK, Cond!NoLostWakeup
<1>9. CASE Cond!spurious_wakeup
  BY <1>9, Zenon DEF Cond!spurious_wakeup, CondInv, Cond!TypeOK, Cond!Fifo, Cond!NoLostWakeup
<1>10. CASE Cond!Exited \/ UNCHANGED Cond!vars
  BY <1>10, Zenon DEF Cond!Exited, Cond!vars, CondInv, Cond!TypeOK, Cond!Fifo, Cond!NoLostWakeup
<1>11. QED
  BY SMTT(30), <1>1, <1>2, <1>3, <1>4, <1>5, <1>6, <1>7, <1>8, <1>9, <1>10
     DEF Cond!Next, Cond!enqueue_msg, Cond!consumer_thread
-----------------------------------------------------------------------------
(* 11/9: who is inside the deque, and with whom. The lock says exactly who *)
(* is, at most one worker, and no worker together with main.               *)
Inside == {"push", "remove"}
RwLocked ==
  /\ rwlock = [writer  |-> {t \in Rw!Workers : worker[t] \in Inside},
               readers |-> IF rw_main \in {"count", "recount", "scan"}
                             THEN {"main"} ELSE {}]
  /\ \A s, t \in Rw!Workers : worker[s] \in Inside /\ worker[t] \in Inside => s = t
  /\ rw_main \in {"count", "recount", "scan"} =>
       \A t \in Rw!Workers : worker[t] \notin Inside

(* The deque has the job of each worker that sleeps, once.                 *)
RwJobs ==
  /\ \A t \in Rw!Workers :
       worker[t] \in {"pushed", "remove"} <=> \E j \in 1..Len(job_queue) : job_queue[j] = t
  /\ \A i1, i2 \in 1..Len(job_queue) : job_queue[i1] = job_queue[i2] => i1 = i2

(* find has passed no job of the first worker; a worker that is not yet    *)
(* created has no place. Nothing holds of the reference that find copies:  *)
(* any worker may have taken its job out by then.                          *)
RwMain ==
  /\ rw_main \in {"create", "size", "count", "find", "scan", "copy", "join", "final",
                  "recount", "exited"}
  /\ k \in Int
  /\ rw_main # "copy" => k \in Nat
  /\ rw_main = "scan" => /\ k \in 1..Len(job_queue) + 1
                         /\ \A j \in 1..k - 1 : job_queue[j] # Rw!target_id
  /\ rw_main \notin {"scan", "copy"} => k <= NUM_THREADS
  /\ rw_main = "create" => \A t \in Rw!Workers : t >= k => worker[t] = "none"

RwTypes ==
  /\ job_queue \in Seq(Rw!Workers)
  /\ worker \in [Rw!Workers -> {"none", "start", "push", "pushed", "remove", "returned"}]

RwInv == RwTypes /\ RwLocked /\ RwJobs /\ RwMain

LEMMA RwInit == Rw!Init => RwInv
<1> SUFFICES ASSUME Rw!Init PROVE RwInv
  BY Zenon
<1> USE ThreadsAssumption
<1>1. RwTypes   BY DEF Rw!Init, RwTypes
<1>2. RwLocked  BY Zenon DEF Rw!Init, RwLocked, Inside, Rw!Free
<1>3. RwJobs    BY DEF Rw!Init, RwJobs
<1>4. RwMain    BY DEF Rw!Init, RwMain
<1>5. QED       BY <1>1, <1>2, <1>3, <1>4, Zenon DEF RwInv

(* The deque after an element was put behind the others.                   *)
LEMMA Pushed ==
  ASSUME NEW S, NEW q \in Seq(S), NEW t \in S
  PROVE  /\ Append(q, t) \in Seq(S) /\ Len(Append(q, t)) = Len(q) + 1
         /\ \A i1 \in 1..Len(q) : Append(q, t)[i1] = q[i1]
         /\ Append(q, t)[Len(q) + 1] = t
OBVIOUS

(* The deque after its element j was erased.                               *)
LEMMA Erased ==
  ASSUME NEW S, NEW q \in Seq(S), NEW j \in 1..Len(q)
  PROVE  /\ Rw!erase(q, j) \in Seq(S) /\ Len(Rw!erase(q, j)) = Len(q) - 1
         /\ \A i1 \in 1..Len(q) - 1 :
              Rw!erase(q, j)[i1] = IF i1 < j THEN q[i1] ELSE q[i1 + 1]
<1>1. SubSeq(q, 1, j - 1) \in Seq(S) /\ Len(SubSeq(q, 1, j - 1)) = j - 1
  OBVIOUS
<1>2. /\ SubSeq(q, j + 1, Len(q)) \in Seq(S)
      /\ Len(SubSeq(q, j + 1, Len(q))) = Len(q) - j
  OBVIOUS
<1>3. \A i1 \in 1..j - 1 : SubSeq(q, 1, j - 1)[i1] = q[i1]
  OBVIOUS
<1>4. \A i1 \in 1..Len(q) - j : SubSeq(q, j + 1, Len(q))[i1] = q[i1 + j]
  OBVIOUS
<1> DEFINE l == SubSeq(q, 1, j - 1)
           r == SubSeq(q, j + 1, Len(q))
<1> HIDE DEF l, r
<1>5. /\ l \in Seq(S) /\ Len(l) = j - 1 /\ r \in Seq(S) /\ Len(r) = Len(q) - j
      /\ \A i1 \in 1..j - 1 : l[i1] = q[i1]
      /\ \A i1 \in 1..Len(q) - j : r[i1] = q[i1 + j]
  BY <1>1, <1>2, <1>3, <1>4, Zenon DEF l, r
<1>6. /\ l \o r \in Seq(S) /\ Len(l \o r) = Len(q) - 1
      /\ \A i1 \in 1..Len(q) - 1 : (l \o r)[i1] = IF i1 < j THEN q[i1] ELSE q[i1 + 1]
  <2>0. l \in Seq(S) /\ r \in Seq(S)
    BY <1>5, Zenon
  <2>1. l \o r \in Seq(S) /\ Len(l \o r) = Len(l) + Len(r)
    BY <2>0
  <2>1a. \A i1 \in 1..Len(l) + Len(r) :
          (l \o r)[i1] = IF i1 <= Len(l) THEN l[i1] ELSE r[i1 - Len(l)]
    BY <2>0
  <2>2. ASSUME NEW i1 \in 1..Len(q) - 1, i1 < j PROVE (l \o r)[i1] = q[i1]
    BY SMTT(30), <1>5, <2>1a, <2>2
  <2>3. ASSUME NEW i1 \in 1..Len(q) - 1, ~(i1 < j) PROVE (l \o r)[i1] = q[i1 + 1]
    <3>1. i1 \in 1..Len(l) + Len(r) /\ ~(i1 <= Len(l)) /\ i1 - Len(l) = i1 - (j - 1)
      BY <1>5, <2>3
    <3>2. (l \o r)[i1] = r[i1 - (j - 1)]
      BY <2>1a, <3>1, Zenon
    <3>3. i1 - (j - 1) \in 1..Len(q) - j /\ (i1 - (j - 1)) + j = i1 + 1
      BY <2>3
    <3>4. QED
      BY <1>5, <3>2, <3>3, Zenon
  <2>4. QED
    BY SMTT(30), <1>5, <2>1, <2>2, <2>3
<1>7. QED
  BY <1>6, Zenon DEF Rw!erase, l, r

(* A worker that is inside is there alone.                                 *)
LEMMA InsideAlone ==
  ASSUME RwLocked, NEW t \in Rw!Workers, worker[t] \in Inside
  PROVE  /\ rw_main \notin {"count", "recount", "scan"}
         /\ \A s \in Rw!Workers \ {t} : worker[s] \notin Inside
BY Zenon DEF RwLocked

(* Nobody is inside while the lock is free.                                *)
LEMMA NobodyInside ==
  ASSUME RwLocked, rwlock = Rw!Free
  PROVE  /\ rw_main \notin {"count", "recount", "scan"}
         /\ \A s \in Rw!Workers : worker[s] \notin Inside
<1>1. /\ {t \in Rw!Workers : worker[t] \in Inside} = {}
      /\ (IF rw_main \in {"count", "recount", "scan"} THEN {"main"} ELSE {}) = {}
  BY DEF RwLocked, Rw!Free
<1>2. QED
  BY <1>1, Zenon

(* A worker that takes the write lock.                                     *)
LEMMA WriterEnters ==
  ASSUME RwInv, NEW t \in Rw!Workers, NEW place \in Inside, Rw!wrlock(t),
         worker[t] = IF place = "push" THEN "start" ELSE "pushed",
         worker' = [worker EXCEPT ![t] = place],
         UNCHANGED <<job_queue, rw_main, k, answer>>
  PROVE  RwInv'
<1>1. /\ rwlock = Rw!Free /\ rwlock' = [writer |-> {t}, readers |-> {}]
      /\ job_queue' = job_queue /\ rw_main' = rw_main /\ k' = k
  BY Zenon DEF Rw!wrlock, Rw!Free
<1>2. /\ rw_main \notin {"count", "recount", "scan"}
      /\ \A s \in Rw!Workers : worker[s] \notin Inside
  BY <1>1, NobodyInside, Zenon DEF RwInv
<1>3. /\ worker'[t] = place /\ \A s \in Rw!Workers \ {t} : worker'[s] = worker[s]
      /\ RwTypes'
  BY <1>1, Zenon DEF RwInv, RwTypes, Inside
<1>4. RwLocked'
  BY <1>1, <1>2, <1>3, Zenon DEF RwLocked
<1>5. RwJobs'
  BY <1>1, <1>3 DEF RwInv, RwJobs, Inside
<1>6. RwMain'
  BY <1>1, <1>2, <1>3, Zenon DEF RwInv, RwMain, Inside
<1>7. QED
  BY <1>3, <1>4, <1>5, <1>6, Zenon DEF RwInv

(* A worker that leaves with the deque as it should then be.               *)
LEMMA WriterLeaves ==
  ASSUME RwInv, NEW t \in Rw!Workers, worker[t] \in Inside, Rw!rwunlock,
         worker' = [worker EXCEPT ![t] = IF worker[t] = "push" THEN "pushed" ELSE "returned"],
         job_queue' \in Seq(Rw!Workers), RwJobs',
         IF rw_main = "copy" THEN k' \in Int ELSE k' = k,
         rw_main' = rw_main
  PROVE  RwInv'
<1>1. /\ rwlock' = [writer |-> {}, readers |-> {}]
      /\ rw_main' = rw_main
      /\ IF rw_main = "copy" THEN k' \in Int ELSE k' = k
  BY Zenon DEF Rw!rwunlock, Rw!Free
<1>2. /\ rw_main \notin {"count", "recount", "scan"}
      /\ \A s \in Rw!Workers \ {t} : worker[s] \notin Inside
  BY InsideAlone, Zenon DEF RwInv
<1>3. /\ worker'[t] \in {"pushed", "returned"}
      /\ \A s \in Rw!Workers \ {t} : worker'[s] = worker[s]
      /\ RwTypes'
  BY Zenon DEF RwInv, RwTypes, Inside
<1>4. RwLocked'
  BY <1>1, <1>2, <1>3, Zenon DEF RwLocked, Inside
<1>5. RwMain'
  BY <1>1, <1>2, <1>3, Zenon DEF RwInv, RwMain, Inside
<1>6. QED
  BY <1>3, <1>4, <1>5, Zenon DEF RwInv

LEMMA PushKeeps ==
  ASSUME RwInv, NEW t \in Rw!Workers, Rw!push_back(t)
  PROVE  RwInv'
<1>1. /\ worker[t] = "push" /\ job_queue' = Append(job_queue, t) /\ Rw!rwunlock
      /\ worker' = [worker EXCEPT ![t] = "pushed"] /\ UNCHANGED <<rw_main, k, answer>>
  BY Zenon DEF Rw!push_back
<1>2. /\ job_queue \in Seq(Rw!Workers) /\ Len(job_queue) \in Nat
      /\ worker'[t] = "pushed" /\ \A s \in Rw!Workers \ {t} : worker'[s] = worker[s]
      /\ RwJobs
  BY <1>1 DEF RwInv, RwTypes
<1>3. /\ job_queue' \in Seq(Rw!Workers) /\ Len(job_queue') = Len(job_queue) + 1
      /\ \A j \in 1..Len(job_queue) : job_queue'[j] = job_queue[j]
      /\ job_queue'[Len(job_queue) + 1] = t
  BY SMTT(30), <1>1, <1>2, Pushed
<1>4. \A j \in 1..Len(job_queue) : job_queue[j] # t
  BY <1>1, <1>2, Zenon DEF RwJobs
<1>5. \A i1, i2 \in 1..Len(job_queue') : job_queue'[i1] = job_queue'[i2] => i1 = i2
  BY SMTT(30), <1>2, <1>3, <1>4 DEF RwJobs
<1>6. ASSUME NEW s \in Rw!Workers
      PROVE  worker'[s] \in {"pushed", "remove"}
               <=> \E j \in 1..Len(job_queue') : job_queue'[j] = s
  <2>1. CASE s = t
    BY SMTT(30), <1>2, <1>3, <2>1
  <2>2. CASE s # t
    <3>1. (\E j \in 1..Len(job_queue') : job_queue'[j] = s)
            <=> \E j \in 1..Len(job_queue) : job_queue[j] = s
      BY SMTT(30), <1>2, <1>3, <2>2
    <3>2. QED
      BY <1>2, <2>2, <3>1, Zenon DEF RwJobs
  <2>3. QED
    BY <2>1, <2>2, Zenon
<1>7. RwJobs'
  BY <1>5, <1>6, Zenon DEF RwJobs
<1>8. worker[t] \in Inside
        /\ worker' = [worker EXCEPT ![t] = IF worker[t] = "push" THEN "pushed" ELSE "returned"]
  BY <1>1, Zenon DEF Inside
<1>9. rw_main' = rw_main /\ IF rw_main = "copy" THEN k' \in Int ELSE k' = k
  BY <1>1, Zenon DEF RwInv, RwMain
<1>10. QED
  BY <1>1, <1>3, <1>7, <1>8, <1>9, WriterLeaves, Zenon

LEMMA RemoveKeeps ==
  ASSUME RwInv, NEW t \in Rw!Workers, Rw!remove(t)
  PROVE  RwInv'
<1>1. /\ worker[t] = "remove" /\ Rw!rwunlock
      /\ worker' = [worker EXCEPT ![t] = "returned"] /\ rw_main' = rw_main
  BY Zenon DEF Rw!remove
<1>2. /\ job_queue \in Seq(Rw!Workers) /\ Len(job_queue) \in Nat
      /\ worker'[t] = "returned" /\ \A s \in Rw!Workers \ {t} : worker'[s] = worker[s]
      /\ RwJobs
  BY <1>1 DEF RwInv, RwTypes
<1>3. PICK j \in 1..Len(job_queue) : job_queue[j] = t
  BY <1>1, <1>2, Zenon DEF RwJobs
<1>4. \A n \in 1..Len(job_queue) : job_queue[n] = t => n = j
  BY <1>2, <1>3, Zenon DEF RwJobs
<1>5. Rw!found(job_queue, t) = j
  <2>1. DOMAIN job_queue = 1..Len(job_queue)
    BY <1>2
  <2>2. j \in DOMAIN job_queue /\ job_queue[j] = t /\ \A n \in 1..j - 1 : job_queue[n] # t
    BY SMTT(30), <1>2, <1>3, <1>4, <2>1
  <2>3. QED
    BY <1>4, <2>1, <2>2, Zenon DEF Rw!found
<1>6. job_queue' = Rw!erase(job_queue, j)
  BY SMTT(30), <1>2, <1>3, <1>5 DEF Rw!remove
<1>7. /\ job_queue' \in Seq(Rw!Workers) /\ Len(job_queue') = Len(job_queue) - 1
      /\ \A n \in 1..Len(job_queue) - 1 :
           job_queue'[n] = IF n < j THEN job_queue[n] ELSE job_queue[n + 1]
  BY <1>2, <1>3, <1>6, Erased, Zenon
<1> DEFINE at(pos) == IF pos < j THEN pos ELSE pos + 1
<1>8. /\ \A n \in 1..Len(job_queue') :
           at(n) \in 1..Len(job_queue) /\ job_queue'[n] = job_queue[at(n)]
      /\ \A i1, i2 \in 1..Len(job_queue') : at(i1) = at(i2) => i1 = i2
      /\ \A n \in 1..Len(job_queue) : n # j => \E m \in 1..Len(job_queue') : at(m) = n
      /\ \A n \in 1..Len(job_queue') : at(n) # j
  <2>1. \A n \in 1..Len(job_queue') :
           at(n) \in 1..Len(job_queue) /\ job_queue'[n] = job_queue[at(n)]
    BY <1>2, <1>7
  <2>2. /\ \A i1, i2 \in 1..Len(job_queue') : at(i1) = at(i2) => i1 = i2
        /\ \A n \in 1..Len(job_queue') : at(n) # j
    BY <1>2, <1>7
  <2>3. ASSUME NEW n \in 1..Len(job_queue), n # j
        PROVE  \E m \in 1..Len(job_queue') : at(m) = n
    <3>1. CASE n < j  BY SMTT(30), <1>2, <1>7, <2>3, <3>1
    <3>2. CASE n > j
      <4>1. n - 1 \in 1..Len(job_queue') /\ at(n - 1) = n
        BY SMTT(30), <1>2, <1>7, <3>2
      <4>2. QED
        BY <4>1, Zenon
    <3>3. QED
      BY SMTT(30), <1>2, <2>3, <3>1, <3>2
  <2>4. QED
    BY <2>1, <2>2, <2>3, Zenon
<1> HIDE DEF at
<1>9. \A i1, i2 \in 1..Len(job_queue') : job_queue'[i1] = job_queue'[i2] => i1 = i2
  <2>1. \A i1, i2 \in 1..Len(job_queue) : job_queue[i1] = job_queue[i2] => i1 = i2
    BY <1>2, Zenon DEF RwJobs
  <2>2. QED
    BY <1>8, <2>1
<1>10. ASSUME NEW s \in Rw!Workers
      PROVE  worker'[s] \in {"pushed", "remove"}
               <=> \E n \in 1..Len(job_queue') : job_queue'[n] = s
  <2>1. CASE s = t
    <3>1. \A n \in 1..Len(job_queue') : job_queue'[n] # t
      BY <1>4, <1>8, Zenon
    <3>2. worker'[t] \notin {"pushed", "remove"}
      BY <1>2
    <3>3. QED
      BY <2>1, <3>1, <3>2, Zenon
  <2>2. CASE s # t
    <3>1. (\E n \in 1..Len(job_queue) : job_queue[n] = s)
            <=> \E n \in 1..Len(job_queue') : job_queue'[n] = s
      BY <1>3, <1>8, <2>2, Zenon
    <3>2. QED
      BY <1>2, <2>2, <3>1, Zenon DEF RwJobs
  <2>3. QED
    BY <2>1, <2>2, Zenon
<1>11. RwJobs'
  BY <1>9, <1>10, Zenon DEF RwJobs
<1>12. worker[t] \in Inside
        /\ worker' = [worker EXCEPT ![t] = IF worker[t] = "push" THEN "pushed" ELSE "returned"]
  BY <1>1, Zenon DEF Inside
<1>13. IF rw_main = "copy" THEN k' \in Int ELSE k' = k
  BY DEF RwInv, RwMain, Rw!remove, Rw!shift
<1>14. QED
  BY <1>1, <1>7, <1>11, <1>12, <1>13, WriterLeaves, Zenon

(* main takes the read lock, and gives it back.                            *)
LEMMA ReaderKeeps ==
  ASSUME RwLocked, worker' = worker, rw_main' # rw_main,
         \/ /\ Rw!rdlock /\ rw_main' \in {"count", "recount", "scan"}
         \/ /\ Rw!rwunlock /\ rw_main \in {"count", "recount", "scan"}
            /\ rw_main' \notin {"count", "recount", "scan"}
  PROVE  RwLocked'
<1>1. CASE Rw!rdlock /\ rw_main' \in {"count", "recount", "scan"}
  <2>1. /\ rwlock.writer = {t \in Rw!Workers : worker[t] \in Inside} /\ rwlock.writer = {}
        /\ rwlock' = [writer |-> {}, readers |-> {"main"}]
    BY <1>1, Zenon DEF Rw!rdlock, RwLocked
  <2>2. \A t \in Rw!Workers : worker[t] \notin Inside
    BY <2>1, Zenon
  <2>3. QED
    BY <1>1, <2>1, <2>2, Zenon DEF RwLocked
<1>2. CASE /\ Rw!rwunlock /\ rw_main \in {"count", "recount", "scan"}
           /\ rw_main' \notin {"count", "recount", "scan"}
  <2>1. \A t \in Rw!Workers : worker[t] \notin Inside
    BY <1>2, Zenon DEF RwLocked
  <2>2. QED
    BY <1>2, <2>1, Zenon DEF RwLocked, Rw!rwunlock, Rw!Free
<1>3. QED
  BY <1>1, <1>2, Zenon

LEMMA CreateKeeps ==
  ASSUME RwInv, Rw!create
  PROVE  RwInv'
<1> USE ThreadsAssumption
<1>1. /\ rw_main = "create" /\ k \in Nat /\ k <= NUM_THREADS
      /\ \A t \in Rw!Workers : t >= k => worker[t] = "none"
      /\ job_queue' = job_queue /\ rwlock' = rwlock
      /\ RwTypes /\ RwLocked /\ RwJobs
  BY Zenon DEF RwInv, RwMain, Rw!create
<1>2. CASE k < NUM_THREADS
  <2>1. /\ k \in Rw!Workers /\ worker[k] = "none" /\ rw_main' = rw_main /\ k' = k + 1
        /\ worker' = [worker EXCEPT ![k] = "start"]
    BY <1>1, <1>2 DEF Rw!create, Rw!Workers
  <2>2. /\ worker'[k] = "start" /\ \A t \in Rw!Workers \ {k} : worker'[t] = worker[t]
        /\ RwTypes'
    BY <1>1, <2>1, Zenon DEF RwTypes
  <2>3. {t \in Rw!Workers : worker'[t] \in Inside} = {t \in Rw!Workers : worker[t] \in Inside}
    BY <2>1, <2>2, Zenon DEF Inside
  <2>4. RwLocked'
    BY <1>1, <2>1, <2>2, <2>3, Zenon DEF RwLocked, Inside
  <2>5. RwJobs'
    BY SMTT(30), <1>1, <2>1, <2>2 DEF RwJobs
  <2>6. RwMain'
    BY SMTT(30), <1>1, <1>2, <2>1, <2>2 DEF RwMain, Rw!Workers
  <2>7. QED
    BY <2>2, <2>4, <2>5, <2>6, Zenon DEF RwInv
<1>3. CASE ~(k < NUM_THREADS)
  <2>1. rw_main' = "size" /\ k' = 0 /\ worker' = worker
    BY <1>3, Zenon DEF Rw!create
  <2>2. RwLocked' /\ RwJobs' /\ RwTypes'
    BY <1>1, <2>1 DEF RwLocked, RwJobs, RwTypes
  <2>3. QED
    BY SMTT(30), <1>1, <2>1, <2>2 DEF RwInv, RwMain
<1>4. QED
  BY <1>2, <1>3, Zenon

(* Where main goes with the lock and its counter.                          *)
LEMMA MainKeeps ==
  ASSUME RwInv, Rw!size_lock \/ Rw!size \/ Rw!find_lock \/ Rw!find \/ Rw!find_unlocks
                \/ Rw!find_copy \/ Rw!join
  PROVE  RwInv'
<1> USE ThreadsAssumption
<1>1. /\ job_queue' = job_queue /\ worker' = worker /\ Len(job_queue) \in Nat
      /\ RwTypes' /\ RwJobs'
  BY DEF RwInv, RwTypes, RwJobs, Rw!size_lock, Rw!size, Rw!find_lock, Rw!find,
         Rw!find_unlocks, Rw!find_copy, Rw!join
<1>2. CASE Rw!size_lock
  <2>1. RwLocked'
    BY <1>1, <1>2, ReaderKeeps, Zenon DEF RwInv, Rw!size_lock
  <2>2. RwMain'
    BY <1>1, <1>2, Zenon DEF RwInv, RwMain, Rw!size_lock
  <2>3. QED
    BY <1>1, <2>1, <2>2, Zenon DEF RwInv
<1>3. CASE Rw!size
  <2>1. RwLocked'
    BY <1>1, <1>3, ReaderKeeps, Zenon DEF RwInv, Rw!size
  <2>2. RwMain'
    BY <1>1, <1>3, ZenonT(30) DEF RwInv, RwMain, Rw!size
  <2>3. QED
    BY <1>1, <2>1, <2>2, Zenon DEF RwInv
<1>4. CASE Rw!find_lock
  <2>1. RwLocked'
    BY <1>1, <1>4, ReaderKeeps, Zenon DEF RwInv, Rw!find_lock
  <2>2. RwMain'
    BY SMTT(30), <1>1, <1>4 DEF RwInv, RwMain, Rw!find_lock
  <2>3. QED
    BY <1>1, <2>1, <2>2, Zenon DEF RwInv
<1>5. CASE Rw!find
  <2>1. RwLocked'
    BY <1>1, <1>5, Zenon DEF RwInv, RwLocked, Rw!find
  <2>2. RwMain'
    BY SMTT(30), <1>1, <1>5 DEF RwInv, RwMain, Rw!find
  <2>3. QED
    BY <1>1, <2>1, <2>2, Zenon DEF RwInv
<1>6. CASE Rw!find_unlocks
  <2>1. RwLocked'
    BY <1>1, <1>6, ReaderKeeps, Zenon DEF RwInv, Rw!find_unlocks
  <2>2. RwMain'
    BY SMTT(30), <1>1, <1>6 DEF RwInv, RwMain, Rw!find_unlocks
  <2>3. QED
    BY <1>1, <2>1, <2>2, Zenon DEF RwInv
<1>7. CASE Rw!find_copy
  <2>1. RwLocked'
    BY <1>1, <1>7, Zenon DEF RwInv, RwLocked, Rw!find_copy
  <2>2. RwMain'
    BY SMTT(30), <1>1, <1>7 DEF RwInv, RwMain, Rw!find_copy
  <2>3. QED
    BY <1>1, <2>1, <2>2, Zenon DEF RwInv
<1>8. CASE Rw!join
  <2>1. RwLocked'
    BY <1>1, <1>8, Zenon DEF RwInv, RwLocked, Rw!join
  <2>2. RwMain'
    BY SMTT(30), <1>1, <1>8 DEF RwInv, RwMain, Rw!join
  <2>3. QED
    BY <1>1, <2>1, <2>2, Zenon DEF RwInv
<1>9. QED
  BY <1>2, <1>3, <1>4, <1>5, <1>6, <1>7, <1>8, Zenon

LEMMA RwStep ==
  ASSUME RwInv, [Rw!Next]_(Rw!vars)
  PROVE  RwInv'
<1>1. CASE \E t \in Rw!Workers : Rw!thread(t)
  <2>1. PICK t \in Rw!Workers : Rw!thread(t)
    BY <1>1, Zenon
  <2>2. CASE Rw!push_lock(t)
    <3>1. /\ "push" \in Inside /\ Rw!wrlock(t)
          /\ worker[t] = (IF "push" = "push" THEN "start" ELSE "pushed")
          /\ worker' = [worker EXCEPT ![t] = "push"]
          /\ UNCHANGED <<job_queue, rw_main, k, answer>>
      BY <2>2, Zenon DEF Rw!push_lock, Inside
    <3>2. QED
      BY <3>1, WriterEnters, Zenon
  <2>3. CASE Rw!remove_lock(t)
    <3>1. /\ "remove" \in Inside /\ Rw!wrlock(t)
          /\ worker[t] = (IF "remove" = "push" THEN "start" ELSE "pushed")
          /\ worker' = [worker EXCEPT ![t] = "remove"]
          /\ UNCHANGED <<job_queue, rw_main, k, answer>>
      BY <2>3, Zenon DEF Rw!remove_lock, Inside
    <3>2. QED
      BY <3>1, WriterEnters, Zenon
  <2>4. QED
    BY <2>1, <2>2, <2>3, PushKeeps, RemoveKeeps, Zenon DEF Rw!thread
<1>2. CASE Rw!main_thread
  BY <1>2, CreateKeeps, MainKeeps, Zenon DEF Rw!main_thread
<1>3. CASE Rw!Exited \/ UNCHANGED Rw!vars
  <2>1. /\ job_queue' = job_queue /\ rwlock' = rwlock /\ worker' = worker
        /\ rw_main' = rw_main /\ k' = k
    BY <1>3, Zenon DEF Rw!Exited, Rw!vars
  <2>2. RwTypes' /\ RwLocked' /\ RwJobs'
    BY <2>1, Zenon DEF RwInv, RwTypes, RwLocked, RwJobs
  <2>3. RwMain'
    BY <2>1, Zenon DEF RwInv, RwMain
  <2>4. QED
    BY <2>2, <2>3, Zenon DEF RwInv
<1>4. QED
  BY <1>1, <1>2, <1>3, Zenon DEF Rw!Next

(* What the invariant says of the deque in the words of RwQueue.           *)
LEMMA RwSound == RwInv => Rw!TypeOK /\ Rw!JobWhileAlive
<1> SUFFICES ASSUME RwInv PROVE Rw!TypeOK /\ Rw!JobWhileAlive
  BY Zenon
<1> USE ThreadsAssumption
<1>1. /\ job_queue \in Seq(Rw!Workers) /\ DOMAIN job_queue = 1..Len(job_queue)
      /\ Len(job_queue) \in Nat
      /\ \A i1, i2 \in 1..Len(job_queue) : job_queue[i1] = job_queue[i2] => i1 = i2
  BY DEF RwInv, RwTypes, RwJobs
<1>2. Rw!TypeOK
  <2>1. rwlock.writer \subseteq Rw!Workers /\ rwlock.readers \subseteq {"main"}
    BY Zenon DEF RwInv, RwLocked
  <2>2. k \in IF rw_main = "copy" THEN Int
                ELSE 0..(IF rw_main = "scan" THEN Len(job_queue) + 1 ELSE NUM_THREADS)
    BY <1>1 DEF RwInv, RwMain
  <2>3. QED
    BY <1>1, <2>1, <2>2, Zenon DEF RwInv, RwTypes, Rw!TypeOK
<1>3. ASSUME NEW t \in Rw!Workers
      PROVE  IF worker[t] \in {"pushed", "remove"}
               THEN \E j \in DOMAIN job_queue : {n \in DOMAIN job_queue : job_queue[n] = t} = {j}
               ELSE {n \in DOMAIN job_queue : job_queue[n] = t} = {}
  <2>1. CASE worker[t] \in {"pushed", "remove"}
    <3>1. PICK n \in 1..Len(job_queue) : job_queue[n] = t
      BY <2>1, Zenon DEF RwInv, RwJobs
    <3>2. {j \in DOMAIN job_queue : job_queue[j] = t} = {n}
      BY <1>1, <3>1, Zenon
    <3>3. QED
      BY <1>1, <2>1, <3>2, Zenon
  <2>2. CASE worker[t] \notin {"pushed", "remove"}
    <3>1. {j \in DOMAIN job_queue : job_queue[j] = t} = {}
      BY <1>1, <2>2 DEF RwInv, RwJobs
    <3>2. QED
      BY <2>2, <3>1, Zenon
  <2>3. QED
    BY <2>1, <2>2, Zenon
<1>4. QED
  BY <1>2, <1>3, Zenon DEF Rw!JobWhileAlive

(* While find walks, nobody else has a step, and what find has when it     *)
(* gives the lock back is what the deque says.                             *)
LEMMA ScanStep ==
  ASSUME RwInv, [Rw!Next]_(Rw!vars), rw_main = "scan"
  PROVE  /\ job_queue' = job_queue
         /\ Rw!target_id \notin {job_queue[j] : j \in 1..k - 1}
         /\ rw_main' # "scan" =>
              IF worker[Rw!target_id] \in {"pushed", "remove"}
                THEN rw_main' = "copy" /\ Rw!Refers'
                ELSE rw_main' = "join" /\ answer' = Rw!nullptr
<1> USE ThreadsAssumption
<1>1. /\ \A t \in Rw!Workers : worker[t] \notin Inside
      /\ rwlock # Rw!Free
  <2>1. rwlock.readers = {"main"} /\ \A t \in Rw!Workers : worker[t] \notin Inside
    BY Zenon DEF RwInv, RwLocked
  <2>2. QED
    BY <2>1 DEF Rw!Free
<1>2. \A t \in Rw!Workers : ~Rw!thread(t)
  BY <1>1, Zenon DEF Rw!thread, Rw!push_lock, Rw!push_back, Rw!remove_lock, Rw!remove, Rw!wrlock, Inside
<1>3. Rw!find \/ Rw!find_unlocks \/ UNCHANGED Rw!vars
  BY <1>2, Zenon DEF Rw!Next, Rw!main_thread, Rw!create, Rw!size_lock, Rw!size, Rw!find_lock,
              Rw!find_copy, Rw!join, Rw!Exited
<1>4. /\ k \in 1..Len(job_queue) + 1 /\ Len(job_queue) \in Nat
      /\ DOMAIN job_queue = 1..Len(job_queue)
      /\ \A j \in 1..k - 1 : job_queue[j] # Rw!target_id
  BY DEF RwInv, RwMain, RwTypes
<1>5. job_queue' = job_queue
  BY <1>3, Zenon DEF Rw!find, Rw!find_unlocks, Rw!vars
<1>6. ASSUME rw_main' # "scan"
      PROVE  IF worker[Rw!target_id] \in {"pushed", "remove"}
               THEN rw_main' = "copy" /\ Rw!Refers'
               ELSE rw_main' = "join" /\ answer' = Rw!nullptr
  <2>1. \/ k > Len(job_queue) /\ answer' = Rw!nullptr /\ rw_main' = "join"
        \/ /\ k <= Len(job_queue) /\ job_queue[k] = Rw!target_id
           /\ k' = k /\ rw_main' = "copy"
    BY <1>3, <1>6, Zenon DEF Rw!find, Rw!find_unlocks, Rw!vars
  <2>2. Rw!target_id \in Rw!Workers
    BY DEF Rw!target_id, Rw!Workers
  <2>3. CASE k > Len(job_queue)
    <3>1. ~\E j \in 1..Len(job_queue) : job_queue[j] = Rw!target_id
      BY SMTT(30), <1>4, <2>3
    <3>2. worker[Rw!target_id] \notin {"pushed", "remove"}
      BY <2>2, <3>1, Zenon DEF RwInv, RwJobs
    <3>3. rw_main' = "join" /\ answer' = Rw!nullptr
      BY ONLY <1>4, <2>1, <2>3
    <3>4. QED
      BY <3>2, <3>3, Zenon
  <2>4. CASE k <= Len(job_queue)
    <3>1. /\ k \in 1..Len(job_queue) /\ job_queue[k] = Rw!target_id
          /\ k' = k /\ rw_main' = "copy"
      BY ONLY <1>4, <2>1, <2>4
    <3>2. worker[Rw!target_id] \in {"pushed", "remove"}
      BY <2>2, <3>1, Zenon DEF RwInv, RwJobs
    <3>3. Rw!Refers'
      BY <1>4, <1>5, <3>1, Zenon DEF Rw!Refers
    <3>4. QED
      BY <3>1, <3>2, <3>3, Zenon
  <2>5. QED
    BY ONLY <1>4, <2>3, <2>4
<1>7. QED
  BY <1>4, <1>5, <1>6, Zenon

(* The job stays behind the reference until a worker takes a job out.      *)
LEMMA CopyStep ==
  ASSUME RwInv, [Rw!Next]_(Rw!vars), rw_main = "copy", Rw!Refers,
         \A t \in Rw!Workers : worker[t] # "remove"
  PROVE  \/ rw_main' = "copy" /\ Rw!Refers'
         \/ rw_main' = "join" /\ answer' = Rw!target_id
<1>1. CASE \E t \in Rw!Workers : Rw!push_back(t)
  <2>1. PICK t \in Rw!Workers : Rw!push_back(t)
    BY <1>1, Zenon
  <2>2. /\ job_queue' = Append(job_queue, t) /\ k' = k /\ rw_main' = rw_main
        /\ job_queue \in Seq(Rw!Workers)
    BY <2>1, Zenon DEF Rw!push_back, RwInv, RwTypes
  <2>3. Rw!Refers'
    BY SMTT(30), <2>2 DEF Rw!Refers
  <2>4. QED
    BY <2>2, <2>3, Zenon
<1>2. CASE Rw!find_copy
  BY <1>2, Zenon DEF Rw!find_copy, Rw!Refers
<1>3. CASE \/ \E t \in Rw!Workers : Rw!push_lock(t) \/ Rw!remove_lock(t)
           \/ UNCHANGED Rw!vars
  <2>1. job_queue' = job_queue /\ k' = k /\ rw_main' = rw_main
    BY <1>3, Zenon DEF Rw!push_lock, Rw!remove_lock, Rw!vars
  <2>2. QED
    BY <2>1, Zenon DEF Rw!Refers
<1>4. QED
  BY <1>1, <1>2, <1>3, Zenon DEF Rw!Next, Rw!thread, Rw!remove, Rw!main_thread, Rw!create,
     Rw!size_lock, Rw!size, Rw!find_lock, Rw!find, Rw!find_unlocks, Rw!join, Rw!Exited
-----------------------------------------------------------------------------
ThreadInv == RwInv /\ CondInv /\ SigInv

(* The invariant of the three programs, whichever of them runs.            *)
THEOREM ThreadInvariance == Spec => []ThreadInv
<1>1. Init => ThreadInv
  BY RwInit, CondInit, SigInit, Zenon DEF Init, ThreadInv
<1>2. ThreadInv /\ [Next]_vars => ThreadInv'
  <2> SUFFICES ASSUME ThreadInv, [Next]_vars PROVE ThreadInv'
    BY Zenon
  <2>1. [Rw!Next]_(Rw!vars) /\ [Cond!Next]_(Cond!vars) /\ [Sig!Next]_(Sig!vars)
    BY StepOfEach, Zenon
  <2>2. RwInv /\ CondInv /\ SigInv
    BY Zenon DEF ThreadInv
  <2>3. QED
    BY <2>1, <2>2, RwStep, CondStep, SigStep, Zenon DEF ThreadInv
<1>3. QED
  BY <1>1, <1>2, PTL DEF Spec

(* 11/9: each worker's job is in the deque exactly while the worker sleeps;*)
(* 11/10: each message is printed, held or queued, once and in order.      *)
THEOREM QueuesKept == Spec => []QueuesKeepAll
<1>1. ThreadInv => QueuesKeepAll
  BY RwSound, Zenon DEF ThreadInv, CondInv, SigInv, QueuesKeepAll, TypeOK
<1>2. QED
  BY <1>1, ThreadInvariance, PTL

(* 11/10 and 12/6: nobody sleeps on a condition that holds, except while   *)
(* the signal sent after the unlock is on its way.                         *)
THEOREM WakeupsKept == Spec => []NoLostWakeup
<1>1. ThreadInv => NoLostWakeup
  BY Zenon DEF ThreadInv, CondInv, SigInv, NoLostWakeup
<1>2. QED
  BY <1>1, ThreadInvariance, PTL

(* 12/6: only a SIGQUIT that the thread took ends the program.             *)
THEOREM QuitEndsOnly == Spec => []Sig!EndsOnlyOnQuit
<1>1. ThreadInv => Sig!EndsOnlyOnQuit
  BY Zenon DEF ThreadInv, SigInv
<1>2. QED
  BY <1>1, ThreadInvariance, PTL

(* 11/9: the deque does not change under find, which has the first worker's*)
(* job as it releases the lock exactly when that job is in the deque, and  *)
(* returns it unless a worker takes a job out before find has copied it.   *)
THEOREM FindIsRight == Spec => FindAnswers
<1> DEFINE Stable == rw_main = "scan" =>
                       /\ UNCHANGED job_queue
                       /\ Rw!target_id \notin {job_queue[j] : j \in 1..k - 1}
           Right == /\ rw_main = "scan" /\ rw_main' # "scan" =>
                         IF worker[Rw!target_id] \in {"pushed", "remove"}
                           THEN rw_main' = "copy" /\ Rw!Refers'
                           ELSE rw_main' = "join" /\ answer' = Rw!nullptr
                    /\ rw_main = "copy" /\ Rw!Refers =>
                         \/ rw_main' = "copy" /\ Rw!Refers'
                         \/ rw_main' = "join" /\ answer' = Rw!target_id
                         \/ \E t \in Rw!Workers : worker[t] = "remove"
<1>1. ThreadInv /\ [Next]_vars => [Stable]_(Rw!vars) /\ [Right]_(Rw!vars)
  <2> SUFFICES ASSUME ThreadInv, [Next]_vars PROVE Stable /\ Right
    BY Zenon
  <2>1. [Rw!Next]_(Rw!vars) /\ RwInv
    BY StepOfEach, Zenon DEF ThreadInv
  <2>2. QED
    BY <2>1, ScanStep, CopyStep, Zenon
<1>2. Spec => [][Stable]_(Rw!vars) /\ [][Right]_(Rw!vars)
  BY <1>1, ThreadInvariance, PTL DEF Spec
<1>3. QED
  BY <1>2, PTL DEF FindAnswers, Rw!ScanIsStable, Rw!FindAnswers
=============================================================================
