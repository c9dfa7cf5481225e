------------------------- MODULE DaemonRelayProofs -------------------------
(***************************************************************************)
(* Proofs about two kinds of program that run until they are ended: the    *)
(* daemons of chapter 13 (Daemon), for any set of instances of any kinds,  *)
(* any descriptors they inherit and any number of SIGHUPs; and the relay   *)
(* of 17/1 (MqueueRelay), for any queues and sizes, any number of messages *)
(* and of failed reads.                                                    *)
(***************************************************************************)
EXTENDS Daemon, MqueueRelay, WellFoundedInduction, TLAPS

Starting == {"start", "fork"}
Leading == {"setsid", "sigaction", "fork2"}
Opening == {"open", "lock"}
Locked == {"ftruncate", "write"}
Past == {"sigterm", "sighup", "sig_dfl", "mask", "pthread_create", "running"}

Types ==
  /\ DaemonTypeOK
  /\ pc \in [Daemons -> Starting \cup Leading \cup {"close", Dead} \cup Opening \cup Locked \cup Past]
  /\ blocked \in [Daemons -> BOOLEAN]

(* The generation of a process tells the forks it has behind it.           *)
Generation(d) ==
  /\ pc[d] \in Starting => pid[d] = 0
  /\ pc[d] \in Leading => pid[d] = 1

(* Who is past lockfile has the lock, and who has written its process id   *)
(* into LOCKFILE finds it there.                                           *)
Owner(d) ==
  /\ pc[d] \in Locked \cup Past => lock = d
  /\ pc[d] \in Past => pidfile = Pid(d)

(* How far daemonize has detached a process.                               *)
Detached(d) ==
  /\ pc[d] = "setsid" => ~leader[d]
  /\ pc[d] \in {"sigaction", "fork2"} => ~terminal[d]
  /\ pc[d] \in {"close"} \cup Opening \cup Locked \cup Past => ~leader[d] /\ ~terminal[d]
  /\ pc[d] \in Starting \cup Leading \cup {"close"} => fds[d] = Inherited
  /\ pc[d] = "open" => fds[d] = 0..2
  /\ pc[d] \in {"lock"} \cup Locked \cup Past => fds[d] = 0..3

(* What SIGHUP does at each place of main.                                 *)
Handling(d) ==
  /\ pc[d] \in {"sigterm", "sighup"} => Kind[d] = "handler"
  /\ pc[d] \in {"sig_dfl", "mask", "pthread_create"} => Kind[d] = "thread"
  /\ pc[d] \in {"fork2", "close", "sigterm", "sighup", "sig_dfl"} \cup Opening \cup Locked =>
       hup[d] = "SIG_IGN"
  /\ pc[d] = "running" /\ Kind[d] = "handler" => hup[d] = "sighup"
  /\ pc[d] \in {"pthread_create", "running"} /\ Kind[d] = "thread" => blocked[d]

Daemonized(d) ==
  /\ Kind[d] # "singleton" => Detached(d) /\ Handling(d)
  /\ Kind[d] = "singleton" =>
       /\ pc[d] \notin {"fork", "close"} \cup Leading
       /\ pc[d] \in {"start", "open"} => fds[d] = Inherited

DaemonInv == Types /\ \A d \in Daemons : Generation(d) /\ Owner(d) /\ Daemonized(d)

-----------------------------------------------------------------------------
(* The descriptor that open returns: there is one while not all are taken, *)
(* and it is 3 once daemonize is through.                                  *)
LEMMA LowestIsFree ==
  ASSUME NEW S, \E n \in 0..(RlimMax - 1) : n \notin S
  PROVE  lowest(S) \in Nat
<1> DEFINE T == {n \in 0..(RlimMax - 1) : n \notin S}
<1>1. T \in SUBSET Nat /\ T # {}
  BY DaemonAssumption
<1>2. PICK x \in T : \A y \in T : ~ (<<y, x>> \in OpToRel(<, Nat))
  <2> HIDE DEF T
  <2> QED
    BY <1>1, NatLessThanWellFounded, WFMin, Zenon
<1>3. \A y \in T : ~ (y < x)
  BY <1>1, <1>2, Zenon DEF OpToRel
<1>4. \A m \in 0..(x - 1) : m \in S
  BY <1>3, DaemonAssumption
<1>5. \E n \in 0..(RlimMax - 1) : n \notin S /\ \A m \in 0..(n - 1) : m \in S
  BY <1>4, Zenon
<1>6. lowest(S) \in 0..(RlimMax - 1)
  BY <1>5, Zenon DEF lowest
<1> QED
  BY <1>6, DaemonAssumption

LEMMA LowestIsThree == lowest(0..2) = 3
<1>1. 3 \in 0..(RlimMax - 1) /\ 3 \notin 0..2 /\ \A m \in 0..(3 - 1) : m \in 0..2
  BY DaemonAssumption
<1>2. ASSUME NEW n \in 0..(RlimMax - 1), n \notin 0..2, \A m \in 0..(n - 1) : m \in 0..2
      PROVE  n = 3
  <2>1. n \in Nat /\ n > 2
    BY <1>2, DaemonAssumption
  <2>2. CASE n > 3
    BY <1>2, <2>1, <2>2
  <2> QED
    BY <2>1, <2>2
<1> QED
  BY <1>1, <1>2, Zenon DEF lowest

-----------------------------------------------------------------------------
(* What a step of d leaves alone: the other processes, a lock they have,   *)
(* and LOCKFILE unless d has it locked.                                    *)
Frame(d) ==
  /\ \A e \in Daemons \ {d} :
       /\ pc'[e] = pc[e] /\ pid'[e] = pid[e] /\ fds'[e] = fds[e] /\ hup'[e] = hup[e]
       /\ leader'[e] = leader[e] /\ terminal'[e] = terminal[e] /\ blocked'[e] = blocked[e]
       /\ lock = e => lock' = e
  /\ pidfile' = pidfile \/ lock = d

(* The place of d itself.                                                  *)
Own(d) == Generation(d) /\ Owner(d) /\ Daemonized(d)

(* The others stay where the invariant has them.                           *)
LEMMA OthersKeep ==
  ASSUME DaemonInv, NEW d \in Daemons, NEW e \in Daemons \ {d}, Frame(d)
  PROVE  Own(e)'
<1>1. Generation(e)' /\ Daemonized(e)'
  BY DEF DaemonInv, Frame, Generation, Daemonized, Detached, Handling
<1>2. Owner(e)'
  BY Zenon DEF DaemonInv, Frame, Owner, Pid
<1> QED
  BY <1>1, <1>2, Zenon DEF Own

(* daemonize detaches the process it is called in.                         *)
LEMMA DaemonizeKeeps ==
  ASSUME DaemonInv, NEW d \in Daemons,
         run(d) \/ daemonize(d)
  PROVE  Frame(d) /\ Types' /\ Own(d)'
<1> USE DaemonAssumption DEF Starting, Leading, Opening, Locked, Past
<1>1. Types /\ Own(d)
  BY Zenon DEF DaemonInv, Own
<1>2. CASE run(d)
  <2>1. Frame(d)
    BY <1>1, <1>2, Zenon DEF Types, DaemonTypeOK, Own, Owner, Frame, None, run, Go, process
  <2>2. Types'
    BY <1>1, <1>2, Zenon DEF Types, DaemonTypeOK, Own, Generation, Pid, run, Go, process
  <2>3. Own(d)'
    BY <1>1, <1>2, Zenon DEF Types, DaemonTypeOK, Own, Generation, Owner, Daemonized, Detached,
      Handling, Pid, Dead, None, run, Go, process
  <2> QED
    BY <2>1, <2>2, <2>3, Zenon
<1>3. CASE fork_first(d)
  <2>1. Frame(d)
    BY <1>1, <1>3, Zenon DEF Types, DaemonTypeOK, Own, Owner, Frame, None, fork_first, Go, process
  <2>2. Types'
    BY <1>1, <1>3 DEF Types, DaemonTypeOK, Own, Generation, Pid, fork_first, Go, process
  <2>3. Own(d)'
    BY <1>1, <1>3 DEF Types, DaemonTypeOK, Own, Generation, Owner, Daemonized, Detached,
      Handling, Pid, Dead, None, fork_first, Go, process
  <2> QED
    BY <2>1, <2>2, <2>3, Zenon
<1>4. CASE setsid(d)
  <2>1. Frame(d)
    BY <1>1, <1>4 DEF Types, DaemonTypeOK, Own, Owner, Frame, None, setsid, Go, process
  <2>2. Types'
    BY <1>1, <1>4, Zenon DEF Types, DaemonTypeOK, Own, Generation, Pid, setsid, Go, process
  <2>3. Own(d)'
    BY <1>1, <1>4, Zenon DEF Types, DaemonTypeOK, Own, Generation, Owner, Daemonized, Detached,
      Handling, Pid, Dead, None, setsid, Go, process
  <2> QED
    BY <2>1, <2>2, <2>3, Zenon
<1>5. CASE ignore_hup(d)
  <2>1. Frame(d)
    BY <1>1, <1>5, Zenon DEF Types, DaemonTypeOK, Own, Owner, Frame, None, ignore_hup, Go, process
  <2>2. Types'
    BY <1>1, <1>5, Zenon DEF Types, DaemonTypeOK, Own, Generation, Pid, ignore_hup, Go, process
  <2>3. Own(d)'
    BY <1>1, <1>5, Zenon DEF Types, DaemonTypeOK, Own, Generation, Owner, Daemonized, Detached,
      Handling, Pid, Dead, None, ignore_hup, Go, process
  <2> QED
    BY <2>1, <2>2, <2>3, Zenon
<1>6. CASE fork_second(d)
  <2>1. Frame(d)
    BY <1>1, <1>6, Zenon DEF Types, DaemonTypeOK, Own, Owner, Frame, None, fork_second, Go, process
  <2>2. Types'
    BY <1>1, <1>6 DEF Types, DaemonTypeOK, Own, Generation, Pid, fork_second, Go, process
  <2>3. Own(d)'
    BY <1>1, <1>6, Zenon DEF Types, DaemonTypeOK, Own, Generation, Owner, Daemonized, Detached,
      Handling, Pid, Dead, None, fork_second, Go, process
  <2> QED
    BY <2>1, <2>2, <2>3, Zenon
<1>7. CASE close_all(d)
  <2>1. Frame(d)
    BY <1>1, <1>7 DEF Types, DaemonTypeOK, Own, Owner, Frame, None, close_all, Go, Exits, process
  <2>2. Types'
    BY <1>1, <1>7 DEF Types, DaemonTypeOK, Own, Generation, Pid, close_all, Go, Exits, process
  <2>3. Own(d)'
    BY <1>1, <1>7 DEF Types, DaemonTypeOK, Own, Generation, Owner, Daemonized, Detached,
      Handling, Pid, Dead, None, close_all, Go, Exits, process
  <2> QED
    BY <2>1, <2>2, <2>3, Zenon
<1> QED
  BY <1>2, <1>3, <1>4, <1>5, <1>6, <1>7, Zenon DEF daemonize

(* already_running lets one process past the lock at a time.               *)
LEMMA AlreadyRunningKeeps ==
  ASSUME DaemonInv, NEW d \in Daemons,
         already_running(d)
  PROVE  Frame(d) /\ Types' /\ Own(d)'
<1> USE DaemonAssumption DEF Starting, Leading, Opening, Locked, Past
<1>1. Types /\ Own(d)
  BY Zenon DEF DaemonInv, Own
<1>2. CASE open(d)
  <2>1. Frame(d)
    BY <1>1, <1>2, Zenon DEF Types, DaemonTypeOK, Own, Owner, Frame, None, open, Go, process
  <2>2. lowest(fds[d]) \in Nat
    <3>1. fds[d] = Inherited \/ fds[d] = 0..2
      BY <1>1, <1>2, Zenon DEF Own, Daemonized, Detached, open
    <3>2. \E n \in 0..(RlimMax - 1) : n \notin Inherited
      BY Zenon
    <3> QED
      BY <3>1, <3>2, LowestIsFree, LowestIsThree
  <2>3. Types'
    BY <1>1, <1>2, <2>2, Zenon DEF Types, DaemonTypeOK, Own, Generation, Pid, open, Go, process
  <2>4. Kind[d] # "singleton" => fds'[d] = 0..3
    <3>1. Kind[d] # "singleton" => fds'[d] = (0..2) \cup {3}
      BY <1>1, <1>2, LowestIsThree, Zenon DEF Types, DaemonTypeOK, Own, Daemonized, Detached, open
    <3> QED
      BY <3>1
  <2>5. Own(d)'
    BY <1>1, <1>2, <2>4, Zenon DEF Types, DaemonTypeOK, Own, Generation, Owner, Daemonized, Detached,
      Handling, Pid, Dead, None, open, Go, process
  <2> QED
    BY <2>1, <2>3, <2>5, Zenon
<1>3. CASE lockfile(d)
  <2>1. Frame(d)
    BY <1>1, <1>3 DEF Types, DaemonTypeOK, Own, Owner, Frame, None, lockfile, Go, Exits, process
  <2>2. Types'
    BY <1>1, <1>3 DEF Types, DaemonTypeOK, Own, Generation, Pid, lockfile, Go, Exits, process
  <2>3. Own(d)'
    BY <1>1, <1>3 DEF Types, DaemonTypeOK, Own, Generation, Owner, Daemonized, Detached,
      Handling, Pid, Dead, None, lockfile, Go, Exits, process
  <2> QED
    BY <2>1, <2>2, <2>3, Zenon
<1>4. CASE ftruncate(d)
  <2>1. Frame(d)
    BY <1>1, <1>4, Zenon DEF Types, DaemonTypeOK, Own, Owner, Frame, None, ftruncate, Go, process
  <2>2. Types'
    BY <1>1, <1>4, Zenon DEF Types, DaemonTypeOK, Own, Generation, Pid, ftruncate, Go, process
  <2>3. Own(d)'
    BY <1>1, <1>4, Zenon DEF Types, DaemonTypeOK, Own, Generation, Owner, Daemonized, Detached,
      Handling, Pid, Dead, None, ftruncate, Go, process
  <2> QED
    BY <2>1, <2>2, <2>3, Zenon
<1>5. CASE write(d)
  <2>1. Frame(d)
    BY <1>1, <1>5, Zenon DEF Types, DaemonTypeOK, Own, Owner, Frame, None, write, Go, process
  <2>2. Types'
    BY <1>1, <1>5, Zenon DEF Types, DaemonTypeOK, Own, Generation, Pid, write, Go, process
  <2>3. Own(d)'
    BY <1>1, <1>5, Zenon DEF Types, DaemonTypeOK, Own, Generation, Owner, Daemonized, Detached,
      Handling, Pid, Dead, None, write, Go, process
  <2> QED
    BY <2>1, <2>2, <2>3, Zenon
<1> QED
  BY <1>2, <1>3, <1>4, <1>5, Zenon DEF already_running

(* The rest of main, its handler and its thread.                           *)
LEMMA MainKeeps ==
  ASSUME DaemonInv, NEW d \in Daemons,
         \/ sigaction_term(d) \/ sigaction_hup(d) \/ sigaction_dfl(d)
         \/ pthread_sigmask(d) \/ pthread_create(d) \/ sighup(d) \/ thr_fn(d)
  PROVE  Frame(d) /\ Types' /\ Own(d)'
<1> USE DaemonAssumption DEF Starting, Leading, Opening, Locked, Past
<1>1. Types /\ Own(d)
  BY Zenon DEF DaemonInv, Own
<1>2. CASE sigaction_term(d)
  <2>1. Frame(d)
    BY <1>1, <1>2, Zenon DEF Types, DaemonTypeOK, Own, Owner, Frame, None, sigaction_term, Go, Step, process
  <2>2. Types'
    BY <1>1, <1>2, Zenon DEF Types, DaemonTypeOK, Own, Generation, Pid, sigaction_term, Go, Step, process
  <2>3. Own(d)'
    BY <1>1, <1>2, Zenon DEF Types, DaemonTypeOK, Own, Generation, Owner, Daemonized, Detached,
      Handling, Pid, Dead, None, sigaction_term, Go, Step, process
  <2> QED
    BY <2>1, <2>2, <2>3, Zenon
<1>3. CASE sigaction_hup(d)
  <2>1. Frame(d)
    BY <1>1, <1>3, Zenon DEF Types, DaemonTypeOK, Own, Owner, Frame, None, sigaction_hup, Go, Step, process
  <2>2. Types'
    BY <1>1, <1>3, Zenon DEF Types, DaemonTypeOK, Own, Generation, Pid, sigaction_hup, Go, Step, process
  <2>3. Own(d)'
    BY <1>1, <1>3, Zenon DEF Types, DaemonTypeOK, Own, Generation, Owner, Daemonized, Detached,
      Handling, Pid, Dead, None, sigaction_hup, Go, Step, process
  <2> QED
    BY <2>1, <2>2, <2>3, Zenon
<1>4. CASE sigaction_dfl(d)
  <2>1. Frame(d)
    BY <1>1, <1>4, Zenon DEF Types, DaemonTypeOK, Own, Owner, Frame, None, sigaction_dfl, Go, Step, process
  <2>2. Types'
    BY <1>1, <1>4, Zenon DEF Types, DaemonTypeOK, Own, Generation, Pid, sigaction_dfl, Go, Step, process
  <2>3. Own(d)'
    BY <1>1, <1>4, Zenon DEF Types, DaemonTypeOK, Own, Generation, Owner, Daemonized, Detached,
      Handling, Pid, Dead, None, sigaction_dfl, Go, Step, process
  <2> QED
    BY <2>1, <2>2, <2>3, Zenon
<1>5. CASE pthread_sigmask(d)
  <2>1. Frame(d)
    BY <1>1, <1>5, Zenon DEF Types, DaemonTypeOK, Own, Owner, Frame, None, pthread_sigmask, Go, Step, process
  <2>2. Types'
    BY <1>1, <1>5, Zenon DEF Types, DaemonTypeOK, Own, Generation, Pid, pthread_sigmask, Go, Step, process
  <2>3. Own(d)'
    BY <1>1, <1>5, Zenon DEF Types, DaemonTypeOK, Own, Generation, Owner, Daemonized, Detached,
      Handling, Pid, Dead, None, pthread_sigmask, Go, Step, process
  <2> QED
    BY <2>1, <2>2, <2>3, Zenon
<1>6. CASE pthread_create(d)
  <2>1. Frame(d)
    BY <1>1, <1>6, Zenon DEF Types, DaemonTypeOK, Own, Owner, Frame, None, pthread_create, Go, Step, process
  <2>2. Types'
    BY <1>1, <1>6, Zenon DEF Types, DaemonTypeOK, Own, Generation, Pid, pthread_create, Go, Step, process
  <2>3. Own(d)'
    BY <1>1, <1>6, Zenon DEF Types, DaemonTypeOK, Own, Generation, Owner, Daemonized, Detached,
      Handling, Pid, Dead, None, pthread_create, Go, Step, process
  <2> QED
    BY <2>1, <2>2, <2>3, Zenon
<1>7. CASE sighup(d)
  <2>1. Frame(d)
    BY <1>1, <1>7, Zenon DEF Types, DaemonTypeOK, Own, Owner, Frame, None, sighup, process
  <2>2. Types'
    BY <1>1, <1>7, Zenon DEF Types, DaemonTypeOK, Own, Generation, Pid, sighup, process
  <2>3. Own(d)'
    BY <1>1, <1>7 DEF Types, DaemonTypeOK, Own, Generation, Owner, Daemonized, Detached,
      Handling, Pid, Dead, None, sighup, process
  <2> QED
    BY <2>1, <2>2, <2>3, Zenon
<1>8. CASE thr_fn(d)
  <2>1. Frame(d)
    BY <1>1, <1>8, Zenon DEF Types, DaemonTypeOK, Own, Owner, Frame, None, thr_fn, Go, Exits, process
  <2>2. Types'
    BY SMTT(30), <1>1, <1>8 DEF Types, DaemonTypeOK, Own, Generation, Pid, thr_fn, Go, Exits, process
  <2>3. Own(d)'
    BY <1>1, <1>8 DEF Types, DaemonTypeOK, Own, Generation, Owner, Daemonized, Detached,
      Handling, Pid, Dead, None, thr_fn, Go, Exits, process
  <2> QED
    BY <2>1, <2>2, <2>3, Zenon
<1> QED
  BY <1>2, <1>3, <1>4, <1>5, <1>6, <1>7, <1>8, Zenon

(* A signal from outside ends the process or is kept for it.               *)
LEMMA SignalKeeps ==
  ASSUME DaemonInv, NEW d \in Daemons,
         send_hup(d) \/ send_term(d) \/ send_kill(d)
  PROVE  Frame(d) /\ Types' /\ Own(d)'
<1> USE DaemonAssumption DEF Starting, Leading, Opening, Locked, Past
<1>1. Types /\ Own(d)
  BY Zenon DEF DaemonInv, Own
<1>2. CASE send_hup(d)
  <2>1. Frame(d)
    BY <1>1, <1>2, Zenon DEF Types, DaemonTypeOK, Own, Owner, Frame, None, send_hup, Go, Exits, process
  <2>2. CASE pc' = pc /\ lock' = lock /\ pending' \in [Daemons -> SUBSET {"SIGHUP", "SIGTERM"}]
    <3>1. Types'
      BY <1>1, <1>2, <2>2, Zenon DEF Types, DaemonTypeOK, send_hup, process
    <3>2. Own(d)'
      BY <1>1, <1>2, <2>2 DEF Own, Generation, Owner, Daemonized, Detached, Handling, Pid,
        send_hup, process
    <3> QED
      BY <2>1, <3>1, <3>2, Zenon
  <2>3. CASE Exits(d)
    <3>1. Types'
      BY <1>1, <1>2, <2>3, Zenon DEF Types, DaemonTypeOK, send_hup, Go, Exits, process
    <3>2. Own(d)'
      BY <1>1, <1>2, <2>3 DEF Types, DaemonTypeOK, Own, Generation, Owner, Daemonized, Detached,
        Handling, Pid, Dead, None, send_hup, Go, Exits, process
    <3> QED
      BY <2>1, <3>1, <3>2, Zenon
  <2>4. \/ pc' = pc /\ lock' = lock /\ pending' \in [Daemons -> SUBSET {"SIGHUP", "SIGTERM"}]
        \/ Exits(d)
    <3>1. hup[d] \in {"SIG_DFL", "SIG_IGN", "sighup"}
      BY <1>1, Zenon DEF Types, DaemonTypeOK
    <3>2. CASE blocked[d]
      BY <1>1, <1>2, <3>2 DEF Types, DaemonTypeOK, send_hup
    <3>3. CASE ~blocked[d] /\ hup[d] = "SIG_DFL"
      BY <1>1, <1>2, <3>3, Zenon DEF Types, DaemonTypeOK, send_hup
    <3>4. CASE ~blocked[d] /\ hup[d] = "SIG_IGN"
      BY <1>1, <1>2, <3>4, Zenon DEF Types, DaemonTypeOK, send_hup
    <3>5. CASE ~blocked[d] /\ hup[d] = "sighup"
      BY <1>1, <1>2, <3>5, Zenon DEF Types, DaemonTypeOK, send_hup
    <3> QED
      BY <3>1, <3>2, <3>3, <3>4, <3>5, Zenon
  <2> QED
    BY <2>2, <2>3, <2>4, Zenon
<1>3. CASE send_term(d)
  <2>1. Frame(d)
    BY <1>1, <1>3, Zenon DEF Types, DaemonTypeOK, Own, Owner, Frame, None, send_term, Go, Exits, process
  <2>2. Types'
    BY SMTT(30), <1>1, <1>3 DEF Types, DaemonTypeOK, Own, Generation, Pid, send_term, Go, Exits, process
  <2>3. Own(d)'
    BY <1>1, <1>3 DEF Types, DaemonTypeOK, Own, Generation, Owner, Daemonized, Detached,
      Handling, Pid, Dead, None, send_term, Go, Exits, process
  <2> QED
    BY <2>1, <2>2, <2>3, Zenon
<1>4. CASE send_kill(d)
  <2>1. Frame(d)
    BY <1>1, <1>4, Zenon DEF Types, DaemonTypeOK, Own, Owner, Frame, None, send_kill, Go, Exits, process
  <2>2. Types'
    BY <1>1, <1>4, Zenon DEF Types, DaemonTypeOK, Own, Generation, Pid, send_kill, Go, Exits, process
  <2>3. Own(d)'
    BY <1>1, <1>4 DEF Types, DaemonTypeOK, Own, Generation, Owner, Daemonized, Detached,
      Handling, Pid, Dead, None, send_kill, Go, Exits, process
  <2> QED
    BY <2>1, <2>2, <2>3, Zenon
<1> QED
  BY <1>2, <1>3, <1>4, Zenon

-----------------------------------------------------------------------------
LEMMA InitIInv == DaemonInit => DaemonInv
<1> SUFFICES ASSUME DaemonInit PROVE DaemonInv
  BY Zenon
<1>1. Types
  BY DaemonAssumption DEF DaemonInit, Types, DaemonTypeOK, Starting
<1>2. ASSUME NEW d \in Daemons PROVE Own(d)
  BY Zenon DEF DaemonInit, Own, Generation, Owner, Daemonized, Detached, Handling,
    Starting, Leading, Opening, Locked, Past
<1> QED
  BY <1>1, <1>2, Zenon DEF DaemonInv, Own

LEMMA NextIInv == DaemonInv /\ [DaemonNext]_daemonVars => DaemonInv'
<1> SUFFICES ASSUME DaemonInv, [DaemonNext]_daemonVars PROVE DaemonInv'
  BY Zenon
<1>1. ASSUME NEW d \in Daemons, main(d) \/ send_hup(d) \/ send_term(d) \/ send_kill(d)
      PROVE  DaemonInv'
  <2>1. Frame(d) /\ Types' /\ Own(d)'
    BY <1>1, DaemonizeKeeps, AlreadyRunningKeeps, MainKeeps, SignalKeeps, Zenon DEF main
  <2>2. ASSUME NEW e \in Daemons PROVE Own(e)'
    BY <2>1, OthersKeep, Zenon
  <2> QED
    BY <2>1, <2>2, Zenon DEF DaemonInv, Own
<1>2. CASE UNCHANGED daemonVars
  BY <1>2 DEF DaemonInv, daemonVars, process, Types, DaemonTypeOK, Generation, Owner, Daemonized, Detached,
    Handling, Pid
<1> QED
  BY <1>1, <1>2, Zenon DEF DaemonNext

LEMMA AlwaysIInv == DaemonSpec => []DaemonInv
  BY InitIInv, NextIInv, PTL DEF DaemonSpec

(* already_running (lib/apue_daemon.cpp) keeps all daemons but one out,    *)
(* whoever is killed and whenever: the lock goes with its owner, and only  *)
(* its owner writes LOCKFILE. daemonize has cut that one off its terminal  *)
(* for good, and it has the descriptors it opened and no other.            *)
THEOREM OneDaemon == DaemonSpec => []SingleDaemon
<1>1. ASSUME DaemonInv PROVE SingleDaemon
  <2>1. DaemonTypeOK
    BY <1>1, Zenon DEF DaemonInv, Types
  <2>2. ASSUME NEW d \in Daemons, Installed(d)
        PROVE  lock = d /\ pidfile = Pid(d)
    BY <1>1, <2>2, Zenon DEF DaemonInv, Owner, Past, Installed
  <2>3. ASSUME NEW d \in Daemons, Installed(d), Kind[d] # "singleton"
        PROVE  ~leader[d] /\ ~terminal[d] /\ fds[d] = 0..3
    BY <1>1, <2>3, Zenon DEF DaemonInv, Daemonized, Detached, Past, Installed
  <2> QED
    BY <2>1, <2>2, <2>3, Zenon DEF SingleDaemon
<1> QED
  BY <1>1, AlwaysIInv, PTL

(* Of the places in main of 13/3 and 13/4 behind already_running, SIGHUP   *)
(* is deadly at one: after sigaction has set SIG_DFL in 13/3 and before    *)
(* pthread_sigmask. Everywhere else it is ignored, handled or blocked.     *)
THEOREM HupDeadlyAtOnePlace == DaemonSpec => HupKillsOnlyBeforeMask
<1>1. ASSUME DaemonInv, NEW d \in Daemons, Kind[d] # "singleton", Installed(d),
             send_hup(d), pc'[d] = Dead
      PROVE  Kind[d] = "thread" /\ pc[d] = "mask"
  <2>1. pc'[d] # pc[d]
    BY <1>1, Zenon DEF Installed, Dead
  <2>2. ~blocked[d]
    BY <1>1, <2>1, Zenon DEF send_hup
  <2>3. hup[d] = "SIG_DFL"
    <3>1. hup[d] \in {"SIG_DFL", "SIG_IGN", "sighup"}
      BY <1>1, Zenon DEF DaemonInv, Types, DaemonTypeOK
    <3>2. hup[d] # "SIG_IGN"
      BY <1>1, <2>1, <2>2, Zenon DEF send_hup
    <3>3. hup[d] # "sighup"
      BY <1>1, <2>1, <2>2, Zenon DEF send_hup
    <3> QED
      BY <3>1, <3>2, <3>3, Zenon
  <2> QED
    BY <1>1, <2>2, <2>3, DaemonAssumption, Zenon DEF DaemonInv, Daemonized, Handling, Installed
<1>2. DaemonInv /\ [DaemonNext]_daemonVars =>
        [\A d \in Daemons :
           /\ Kind[d] # "singleton" /\ Installed(d)
           /\ send_hup(d) /\ pc'[d] = Dead
           => Kind[d] = "thread" /\ pc[d] = "mask"]_daemonVars
  BY <1>1, Zenon
<1> QED
  BY <1>2, AlwaysIInv, PTL DEF DaemonSpec, HupKillsOnlyBeforeMask

-----------------------------------------------------------------------------
(* The relay of 17/1.                                                      *)
(* The sizes are those of queues and sockets.                              *)
RelayBounds ==
  /\ MAXMSZ \in Nat \ {0} /\ MaxMsg \in Nat /\ SocketMax \in Nat /\ MaxErrors \in Nat

Messages == [id : Nat, len : 0..MAXMSZ]
Numbered == [id : Nat, len : Int]
Returns == [q : Queues, res : Int]

(* 17/1: what is on its way is what was sent.                              *)
RelayTypes ==
  /\ sent \in [Queues -> Seq(Messages)] /\ mq \in [Queues -> Seq(Messages)]
  /\ thr \in [Queues -> Seq(Messages)] /\ socket \in [Queues -> Seq(Messages)]
  /\ buffers \in [Queues -> Seq(Messages)] /\ printed \in [Queues -> Seq(Numbered)]
  /\ cq \in Seq(Returns) /\ reading \in [Queues -> BOOLEAN]
  /\ errors \in 0..MaxErrors

AsSent(s, t) == \A k \in DOMAIN t : t[k].id \in DOMAIN s /\ t[k] = s[t[k].id]
TextRight(s, p) ==
  \A k \in DOMAIN p :
    /\ p[k].id \in DOMAIN s
    /\ s[p[k].id].len - p[k].len = (IF s[p[k].id].len = MAXMSZ THEN 1 ELSE 0)

QueueRight(s, p, b, d, t, m) ==
  /\ Len(m) <= MaxMsg /\ Len(d) <= SocketMax /\ Len(t) <= 1 /\ Len(b) <= 1
  /\ AsSent(s, m) /\ AsSent(s, t) /\ AsSent(s, d) /\ AsSent(s, b)
  /\ TextRight(s, p)
  /\ InOrder(s, p, b, d, t, m)

RelayQueue(q) == QueueRight(sent[q], printed[q], buffers[q], socket[q], thr[q], mq[q])

(* A buffer is filled exactly while its completion waits for main.         *)
RingRight(c, q, waits, b) ==
  /\ \A j, k \in DOMAIN c : c[j].q = q /\ c[k].q = q => j = k /\ ~waits
  /\ b # <<>> => \E k \in DOMAIN c : c[k].q = q
  /\ \A k \in DOMAIN c : c[k].q = q =>
       /\ c[k].res > 0 => b # <<>> /\ b[1].len = c[k].res
       /\ c[k].res <= 0 => b = <<>>

RelayRing(q) == RingRight(cq, q, reading[q], buffers[q])

RelayInv == RelayTypes /\ \A q \in Queues : RelayQueue(q) /\ RelayRing(q)

(* An element put at the end of a sequence.                                *)
LEMMA AppendIs ==
  ASSUME NEW S, NEW s \in Seq(S), NEW x \in S
  PROVE  /\ Append(s, x) \in Seq(S) /\ Len(Append(s, x)) = Len(s) + 1 /\ Len(s) \in Nat
         /\ DOMAIN s = 1..Len(s) /\ DOMAIN Append(s, x) = 1..(Len(s) + 1)
         /\ Append(s, x)[Len(s) + 1] = x
         /\ \A k \in 1..Len(s) : Append(s, x)[k] = s[k]
OBVIOUS

(* The first element of a sequence taken away.                             *)
LEMMA TailIs ==
  ASSUME NEW S, NEW s \in Seq(S), s # <<>>
  PROVE  /\ Tail(s) \in Seq(S) /\ Len(Tail(s)) = Len(s) - 1 /\ Len(s) \in Nat /\ Len(s) > 0
         /\ DOMAIN s = 1..Len(s) /\ DOMAIN Tail(s) = 1..(Len(s) - 1)
         /\ Head(s) = s[1] /\ s[1] \in S /\ 1 \in DOMAIN s
         /\ \A k \in 1..(Len(s) - 1) : Tail(s)[k] = s[k + 1]
OBVIOUS

(* 17/1: the numbers of the messages in a sequence.                        *)
LEMMA NoIds == Ids(<<>>) = {} /\ Ordered(<<>>)
BY DEF Ids, Ordered

LEMMA OneId ==
  ASSUME NEW x
  PROVE  Ids(<<x>>) = {x.id} /\ Ordered(<<x>>) /\ Len(<<x>>) = 1
<1>1. DOMAIN <<x>> = {1} /\ <<x>>[1] = x /\ Len(<<x>>) = 1
  OBVIOUS
<1> QED
  BY <1>1 DEF Ids, Ordered

LEMMA AppendIds ==
  ASSUME NEW S, NEW s \in Seq(S), NEW x \in S
  PROVE  /\ Ids(Append(s, x)) = Ids(s) \cup {x.id}
         /\ Ordered(s) /\ Before(Ids(s), {x.id}) => Ordered(Append(s, x))
<1>1. Ids(Append(s, x)) = Ids(s) \cup {x.id}
  BY AppendIs DEF Ids
<1>2. ASSUME Ordered(s), Before(Ids(s), {x.id}) PROVE Ordered(Append(s, x))
  <2>1. \A k \in DOMAIN s : s[k].id < x.id
    BY <1>2, Zenon DEF Before, Ids
  <2> QED
    BY <1>2, <2>1, AppendIs DEF Ordered
<1> QED
  BY <1>1, <1>2, Zenon

LEMMA TailIds ==
  ASSUME NEW S, NEW s \in Seq(S), s # <<>>, Ordered(s)
  PROVE  /\ Ids(s) = {Head(s).id} \cup Ids(Tail(s))
         /\ Before({Head(s).id}, Ids(Tail(s)))
         /\ Ordered(Tail(s))
<1>1. ASSUME NEW i \in Ids(s) PROVE i \in {Head(s).id} \cup Ids(Tail(s))
  <2>1. PICK k \in DOMAIN s : i = s[k].id
    BY Zenon DEF Ids
  <2>2. k # 1 => k - 1 \in DOMAIN Tail(s) /\ Tail(s)[k - 1] = s[k]
    BY TailIs, <2>1
  <2> QED
    BY <2>1, <2>2, TailIs, Zenon DEF Ids
<1>2. ASSUME NEW i \in Ids(Tail(s)) PROVE i \in Ids(s) /\ Head(s).id < i
  <2>1. PICK k \in DOMAIN Tail(s) : i = Tail(s)[k].id
    BY Zenon DEF Ids
  <2>2. k + 1 \in DOMAIN s /\ 1 \in DOMAIN s /\ 1 < k + 1 /\ i = s[k + 1].id /\ Head(s) = s[1]
    BY TailIs, <2>1
  <2> QED
    BY <2>2, Zenon DEF Ids, Ordered
<1>3. Head(s).id \in Ids(s)
  BY TailIs DEF Ids
<1>4. ASSUME NEW j \in DOMAIN Tail(s), NEW k \in DOMAIN Tail(s), j < k
      PROVE  Tail(s)[j].id < Tail(s)[k].id
  <2>1. /\ j + 1 \in DOMAIN s /\ k + 1 \in DOMAIN s /\ j + 1 < k + 1
        /\ Tail(s)[j] = s[j + 1] /\ Tail(s)[k] = s[k + 1]
    BY TailIs, <1>4
  <2> QED
    BY <2>1, Zenon DEF Ordered
<1>5. Ordered(Tail(s))
  BY <1>4, Zenon DEF Ordered
<1> QED
  BY <1>1, <1>2, <1>3, <1>5, Zenon DEF Before
-----------------------------------------------------------------------------
(* The numbers printed (P), in the buffer (B), the socket (D), the thread  *)
(* (T) and the queue (M), of those that are visible (V) or written (W).    *)
Chain(P, B, D, T, M, V, W) ==
  /\ Before(P, B \cup (D \cup (T \cup M))) /\ Before(B, D \cup (T \cup M))
  /\ Before(D, T \cup M) /\ Before(T, M)
  /\ V \subseteq P \cup (B \cup (D \cup (T \cup M)))
  /\ P \cup (B \cup (D \cup (T \cup M))) \subseteq W
  /\ P \cup B \cup D \subseteq V
Seen(s) == {n \in DOMAIN s : s[n].len > 0}

LEMMA InOrderIs ==
  ASSUME NEW s, NEW p, NEW b, NEW d, NEW t, NEW m
  PROVE  InOrder(s, p, b, d, t, m) <=>
           /\ Ordered(p) /\ Ordered(b) /\ Ordered(d)
           /\ Ordered(t) /\ Ordered(m)
           /\ Chain(Ids(p), Ids(b), Ids(d), Ids(t), Ids(m),
                    Seen(s), DOMAIN s)
BY Zenon DEF InOrder, Chain, Seen

LEMMA ChainSend ==
  ASSUME NEW P, NEW B, NEW D, NEW T, NEW M, NEW V, NEW n \in Nat, NEW V2,
         Chain(P, B, D, T, M, V, 1..n), V \subseteq V2, V2 \subseteq V \cup {n + 1}
  PROVE  /\ Chain(P, B, D, T, M \cup {n + 1}, V2, 1..(n + 1))
         /\ Before(M, {n + 1})
BY DEF Chain, Before

LEMMA ChainReceive ==
  ASSUME NEW P, NEW B, NEW D, NEW M, NEW V, NEW W, NEW h,
         Chain(P, B, D, {}, {h} \cup M, V, W), Before({h}, M)
  PROVE  Chain(P, B, D, {h}, M, V, W)
BY Zenon DEF Chain, Before

LEMMA ChainWrite ==
  ASSUME NEW P, NEW B, NEW D, NEW M, NEW V, NEW W, NEW h \in V,
         Chain(P, B, D, {h}, M, V, W)
  PROVE  Chain(P, B, D \cup {h}, {}, M, V, W) /\ Before(D, {h})
BY Zenon DEF Chain, Before

LEMMA ChainDrop ==
  ASSUME NEW P, NEW B, NEW D, NEW M, NEW V, NEW W, NEW h, h \notin V,
         Chain(P, B, D, {h}, M, V, W)
  PROVE  Chain(P, B, D, {}, M, V, W)
BY Zenon DEF Chain, Before

LEMMA ChainRead ==
  ASSUME NEW P, NEW D, NEW T, NEW M, NEW V, NEW W, NEW h,
         Chain(P, {}, {h} \cup D, T, M, V, W), Before({h}, D)
  PROVE  Chain(P, {h}, D, T, M, V, W)
BY Zenon DEF Chain, Before

LEMMA ChainPrint ==
  ASSUME NEW P, NEW D, NEW T, NEW M, NEW V, NEW W, NEW h,
         Chain(P, {h}, D, T, M, V, W)
  PROVE  Chain(P \cup {h}, {}, D, T, M, V, W) /\ Before(P, {h})
BY Zenon DEF Chain, Before
-----------------------------------------------------------------------------
(* What is on its way through a queue stays right in every step.           *)
LEMMA SentGrows ==
  ASSUME NEW s \in Seq(Messages), NEW x \in Messages
  PROVE  /\ \A u : AsSent(s, u) => AsSent(Append(s, x), u)
         /\ \A p : TextRight(s, p) => TextRight(Append(s, x), p)
BY AppendIs DEF AsSent, TextRight

LEMMA AppendAsSent ==
  ASSUME NEW s, NEW u \in Seq(Messages), NEW x \in Messages,
         AsSent(s, u), x.id \in DOMAIN s, x = s[x.id]
  PROVE  AsSent(s, Append(u, x))
BY AppendIs DEF AsSent

LEMMA TailAsSent ==
  ASSUME NEW s, NEW u \in Seq(Messages), u # <<>>, AsSent(s, u)
  PROVE  /\ AsSent(s, Tail(u)) /\ AsSent(s, <<Head(u)>>)
         /\ Head(u).id \in DOMAIN s /\ Head(u) = s[Head(u).id]
<1>1. Head(u).id \in DOMAIN s /\ Head(u) = s[Head(u).id]
  BY TailIs DEF AsSent
<1>2. AsSent(s, Tail(u))
  BY TailIs DEF AsSent
<1>3. \A k \in DOMAIN <<Head(u)>> : <<Head(u)>>[k] = Head(u)
  OBVIOUS
<1> QED
  BY <1>1, <1>2, <1>3, Zenon DEF AsSent

LEMMA NoneAsSent == \A s : AsSent(s, <<>>)
BY DEF AsSent

(* A sequence that is not empty and has one element at most.               *)
LEMMA OnlyOne ==
  ASSUME NEW u \in Seq(Messages), u # <<>>, Len(u) <= 1
  PROVE  u = <<u[1]>> /\ u[1] = Head(u) /\ u[1] \in Messages
<1>1. Len(u) = 1 /\ u[1] = Head(u) /\ u[1] \in Messages
  <2>1. Head(u) = u[1] /\ u[1] \in Messages /\ Len(u) \in Nat /\ Len(u) > 0
    BY TailIs, Zenon
  <2>2. \A n \in Nat : n > 0 /\ n <= 1 => n = 1
    OBVIOUS
  <2> QED
    BY <2>1, <2>2, Zenon
<1>2. u = [k \in 1..1 |-> u[k]]
  BY <1>1
<1> QED
  BY <1>1, <1>2

LEMMA QueueSend ==
  ASSUME NEW s \in Seq(Messages), NEW p, NEW b, NEW d, NEW t, NEW m \in Seq(Messages),
         QueueRight(s, p, b, d, t, m), Len(m) < MaxMsg,
         NEW x \in Messages, x.id = Len(s) + 1, RelayBounds
  PROVE  QueueRight(Append(s, x), p, b, d, t, Append(m, x))
<1>2. x.id \in DOMAIN Append(s, x) /\ Append(s, x)[x.id] = x
      /\ DOMAIN Append(s, x) = 1..(Len(s) + 1) /\ DOMAIN s = 1..Len(s) /\ Len(s) \in Nat
      /\ Len(m) + 1 <= MaxMsg /\ Len(Append(m, x)) = Len(m) + 1
  BY AppendIs DEF RelayBounds
<1>3. Seen(s) \subseteq Seen(Append(s, x)) /\ Seen(Append(s, x)) \subseteq Seen(s) \cup {Len(s) + 1}
  BY AppendIs DEF Seen
<1>4. /\ AsSent(Append(s, x), b) /\ AsSent(Append(s, x), d) /\ AsSent(Append(s, x), t)
      /\ AsSent(Append(s, x), m) /\ TextRight(Append(s, x), p)
  BY SentGrows, Zenon DEF QueueRight
<1>5. AsSent(Append(s, x), Append(m, x))
  BY <1>2, <1>4, AppendAsSent, Zenon
<1>6. /\ Chain(Ids(p), Ids(b), Ids(d), Ids(t),
               Ids(m) \cup {Len(s) + 1}, Seen(Append(s, x)), DOMAIN Append(s, x))
      /\ Before(Ids(m), {x.id})
  <2>1. Chain(Ids(p), Ids(b), Ids(d), Ids(t), Ids(m),
              Seen(s), 1..Len(s))
    BY <1>2, InOrderIs, Zenon DEF QueueRight
  <2>2. /\ Chain(Ids(p), Ids(b), Ids(d), Ids(t),
                 Ids(m) \cup {Len(s) + 1}, Seen(Append(s, x)), 1..(Len(s) + 1))
        /\ Before(Ids(m), {Len(s) + 1})
    BY <2>1, <1>2, <1>3, ChainSend, Zenon
  <2> QED
    BY <2>2, <1>2, Zenon
<1>7. Ids(Append(m, x)) = Ids(m) \cup {Len(s) + 1} /\ Ordered(Append(m, x))
  <2>1. Ordered(m)
    BY InOrderIs, Zenon DEF QueueRight
  <2>2. /\ Ids(Append(m, x)) = Ids(m) \cup {x.id}
        /\ Ordered(m) /\ Before(Ids(m), {x.id}) => Ordered(Append(m, x))
    BY AppendIds, Zenon
  <2> QED
    BY <2>1, <2>2, <1>6, Zenon
<1>8. InOrder(Append(s, x), p, b, d, t, Append(m, x))
  BY <1>6, <1>7, InOrderIs, Zenon DEF QueueRight
<1> QED
  BY <1>2, <1>4, <1>5, <1>8, Zenon DEF QueueRight

LEMMA QueueReceive ==
  ASSUME NEW s, NEW p, NEW b, NEW d, NEW m \in Seq(Messages), m # <<>>,
         QueueRight(s, p, b, d, <<>>, m), RelayBounds
  PROVE  QueueRight(s, p, b, d, <<Head(m)>>, Tail(m))
<1>1. /\ Ordered(m)
      /\ Chain(Ids(p), Ids(b), Ids(d), {}, Ids(m), Seen(s), DOMAIN s)
  BY NoIds, InOrderIs, Zenon DEF QueueRight
<1>2. /\ Ids(m) = {Head(m).id} \cup Ids(Tail(m)) /\ Ordered(Tail(m))
      /\ Before({Head(m).id}, Ids(Tail(m)))
  BY <1>1, TailIds, Zenon
<1>3. Chain(Ids(p), Ids(b), Ids(d), {Head(m).id}, Ids(Tail(m)),
            Seen(s), DOMAIN s)
  BY <1>1, <1>2, ChainReceive, Zenon
<1>4. InOrder(s, p, b, d, <<Head(m)>>, Tail(m))
  BY <1>2, <1>3, OneId, InOrderIs, Zenon DEF QueueRight
<1>5. Len(Tail(m)) <= MaxMsg /\ Len(<<Head(m)>>) <= 1
  <2>1. Len(m) <= MaxMsg
    BY Zenon DEF QueueRight
  <2> QED
    BY <2>1, TailIs DEF RelayBounds
<1> QED
  BY <1>4, <1>5, TailAsSent, Zenon DEF QueueRight

LEMMA OneAsSent ==
  ASSUME NEW s, NEW x, AsSent(s, <<x>>)
  PROVE  x.id \in DOMAIN s /\ x = s[x.id] /\ (x.len > 0 <=> x.id \in Seen(s))
<1>1. 1 \in DOMAIN <<x>> /\ <<x>>[1] = x
  OBVIOUS
<1> QED
  BY <1>1, Zenon DEF AsSent, Seen

LEMMA QueueWrite ==
  ASSUME NEW s, NEW p, NEW b, NEW d \in Seq(Messages), NEW x \in Messages, NEW m,
         QueueRight(s, p, b, d, <<x>>, m), x.len > 0, Len(d) < SocketMax, RelayBounds
  PROVE  QueueRight(s, p, b, Append(d, x), <<>>, m)
<1>1. x.id \in DOMAIN s /\ x = s[x.id] /\ x.id \in Seen(s)
  BY OneAsSent, Zenon DEF QueueRight
<1>2. /\ Ordered(d)
      /\ Chain(Ids(p), Ids(b), Ids(d), {x.id}, Ids(m), Seen(s), DOMAIN s)
  BY OneId, InOrderIs, Zenon DEF QueueRight
<1>3. /\ Chain(Ids(p), Ids(b), Ids(d) \cup {x.id}, {}, Ids(m),
               Seen(s), DOMAIN s)
      /\ Before(Ids(d), {x.id})
  BY <1>1, <1>2, ChainWrite, Zenon
<1>4. Ids(Append(d, x)) = Ids(d) \cup {x.id} /\ Ordered(Append(d, x))
  BY <1>2, <1>3, AppendIds, ZenonT(30)
<1>5. InOrder(s, p, b, Append(d, x), <<>>, m)
  BY <1>3, <1>4, NoIds, InOrderIs, Zenon DEF QueueRight
<1>6. Len(Append(d, x)) <= SocketMax /\ Len(<<>>) <= 1
  BY AppendIs DEF RelayBounds
<1>7. AsSent(s, Append(d, x)) /\ AsSent(s, <<>>)
  BY <1>1, AppendAsSent, NoneAsSent, Zenon DEF QueueRight
<1> QED
  BY <1>5, <1>6, <1>7, Zenon DEF QueueRight

LEMMA QueueDrop ==
  ASSUME NEW s, NEW p, NEW b, NEW d, NEW x \in Messages, NEW m,
         QueueRight(s, p, b, d, <<x>>, m), x.len = 0
  PROVE  QueueRight(s, p, b, d, <<>>, m)
<1>1. x.id \notin Seen(s)
  <2>1. ~(x.len > 0)
    OBVIOUS
  <2> QED
    BY <2>1, OneAsSent, Zenon DEF QueueRight
<1>2. Chain(Ids(p), Ids(b), Ids(d), {x.id}, Ids(m), Seen(s), DOMAIN s)
  BY OneId, InOrderIs, Zenon DEF QueueRight
<1>3. Chain(Ids(p), Ids(b), Ids(d), {}, Ids(m), Seen(s), DOMAIN s)
  BY <1>1, <1>2, ChainDrop, Zenon
<1>4. InOrder(s, p, b, d, <<>>, m)
  BY <1>3, NoIds, InOrderIs, Zenon DEF QueueRight
<1>5. Len(<<>>) <= 1 /\ AsSent(s, <<>>)
  BY NoneAsSent
<1> QED
  BY <1>4, <1>5, Zenon DEF QueueRight

LEMMA QueueRead ==
  ASSUME NEW s, NEW p, NEW d \in Seq(Messages), NEW t, NEW m, d # <<>>,
         QueueRight(s, p, <<>>, d, t, m), RelayBounds
  PROVE  QueueRight(s, p, <<Head(d)>>, Tail(d), t, m) /\ Head(d).len > 0
<1>1. /\ Ordered(d)
      /\ Chain(Ids(p), {}, Ids(d), Ids(t), Ids(m), Seen(s), DOMAIN s)
  BY NoIds, InOrderIs, Zenon DEF QueueRight
<1>2. /\ Ids(d) = {Head(d).id} \cup Ids(Tail(d)) /\ Ordered(Tail(d))
      /\ Before({Head(d).id}, Ids(Tail(d)))
  BY <1>1, TailIds, Zenon
<1>3. Chain(Ids(p), {Head(d).id}, Ids(Tail(d)), Ids(t), Ids(m),
            Seen(s), DOMAIN s)
  BY <1>1, <1>2, ChainRead, Zenon
<1>4. InOrder(s, p, <<Head(d)>>, Tail(d), t, m)
  BY <1>2, <1>3, OneId, InOrderIs, Zenon DEF QueueRight
<1>5. Len(Tail(d)) <= SocketMax /\ Len(<<Head(d)>>) <= 1
  <2>1. Len(d) <= SocketMax
    BY Zenon DEF QueueRight
  <2> QED
    BY <2>1, TailIs DEF RelayBounds
<1>6. QueueRight(s, p, <<Head(d)>>, Tail(d), t, m)
  BY <1>4, <1>5, TailAsSent, Zenon DEF QueueRight
<1>7. Head(d).id \in Seen(s)
  BY <1>3, Zenon DEF Chain
<1> QED
  BY <1>6, <1>7, OneAsSent, Zenon DEF QueueRight

LEMMA QueuePrint ==
  ASSUME NEW s, NEW p \in Seq(Numbered), NEW x \in Messages, NEW d, NEW t, NEW m,
         QueueRight(s, p, <<x>>, d, t, m),
         NEW y \in Numbered, y.id = x.id, y.len = Printed(x.len), RelayBounds
  PROVE  QueueRight(s, Append(p, y), <<>>, d, t, m)
<1>1. x.id \in DOMAIN s /\ x = s[x.id]
  BY OneAsSent, Zenon DEF QueueRight
<1>2. /\ Ordered(p)
      /\ Chain(Ids(p), {x.id}, Ids(d), Ids(t), Ids(m), Seen(s), DOMAIN s)
  BY OneId, InOrderIs, Zenon DEF QueueRight
<1>3. /\ Chain(Ids(p) \cup {x.id}, {}, Ids(d), Ids(t), Ids(m),
               Seen(s), DOMAIN s)
      /\ Before(Ids(p), {x.id})
  BY <1>2, ChainPrint, Zenon
<1>4. Ids(Append(p, y)) = Ids(p) \cup {x.id} /\ Ordered(Append(p, y))
  <2>1. /\ Ids(Append(p, y)) = Ids(p) \cup {y.id}
        /\ Ordered(p) /\ Before(Ids(p), {y.id}) => Ordered(Append(p, y))
    BY AppendIds, Zenon
  <2> QED
    BY <2>1, <1>2, <1>3, Zenon
<1>5. InOrder(s, Append(p, y), <<>>, d, t, m)
  BY <1>3, <1>4, NoIds, InOrderIs, Zenon DEF QueueRight
<1>6. x.len - y.len = (IF x.len = MAXMSZ THEN 1 ELSE 0)
  BY DEF Printed, Messages, RelayBounds
<1>7. TextRight(s, Append(p, y))
  <2>1. TextRight(s, p)
    BY Zenon DEF QueueRight
  <2> QED
    BY <2>1, <1>1, <1>6, AppendIs DEF TextRight
<1>8. Len(<<>>) <= 1 /\ AsSent(s, <<>>)
  BY NoneAsSent
<1> QED
  BY <1>5, <1>7, <1>8, Zenon DEF QueueRight
-----------------------------------------------------------------------------
(* A step of the writers, the threads or main leaves the other queues as   *)
(* they are.                                                               *)
LEMMA OtherQueue ==
  ASSUME NEW q \in Queues, RelayQueue(q),
         sent'[q] = sent[q], printed'[q] = printed[q], buffers'[q] = buffers[q],
         socket'[q] = socket[q], thr'[q] = thr[q], mq'[q] = mq[q]
  PROVE  RelayQueue(q)'
BY Zenon DEF RelayQueue

LEMMA OtherRing ==
  ASSUME NEW q \in Queues, RelayRing(q), cq' = cq,
         reading'[q] = reading[q], buffers'[q] = buffers[q]
  PROVE  RelayRing(q)'
BY Zenon DEF RelayRing

LEMMA mq_sendKeeps ==
  ASSUME RelayBounds, RelayInv, NEW q \in Queues, NEW n \in 0..MAXMSZ + 1, mq_send(q, n)
  PROVE  RelayInv'
<1> DEFINE x == [id |-> Len(sent[q]) + 1, len |-> n]
<1>1. RelayTypes /\ sent[q] \in Seq(Messages) /\ mq[q] \in Seq(Messages)
  BY Zenon DEF RelayInv, RelayTypes
<1>2. x \in Messages /\ x.id = Len(sent[q]) + 1
  BY <1>1 DEF Messages, mq_send, RelayBounds
<1> HIDE DEF x
<1>3. /\ sent' = [sent EXCEPT ![q] = Append(@, x)] /\ mq' = [mq EXCEPT ![q] = Append(@, x)]
      /\ Len(mq[q]) < MaxMsg
      /\ UNCHANGED <<thr, socket, reading, buffers, cq, printed, errors>>
  BY Zenon DEF mq_send, x
<1>4. /\ sent'[q] = Append(sent[q], x) /\ mq'[q] = Append(mq[q], x)
      /\ \A r \in Queues \ {q} : sent'[r] = sent[r] /\ mq'[r] = mq[r]
  BY <1>1, <1>3, Zenon DEF RelayTypes
<1>5. RelayTypes'
  BY <1>1, <1>2, <1>3, AppendIs, Zenon DEF RelayTypes
<1>6. ASSUME NEW r \in Queues PROVE RelayQueue(r)'
  <2>1. RelayQueue(r)
    BY Zenon DEF RelayInv
  <2>2. CASE r = q
    <3>1. QueueRight(Append(sent[q], x), printed[q], buffers[q], socket[q], thr[q],
                     Append(mq[q], x))
      BY <2>1, <2>2, <1>1, <1>2, <1>3, QueueSend, Zenon DEF RelayQueue
    <3> QED
      BY <3>1, <2>2, <1>3, <1>4, Zenon DEF RelayQueue
  <2>3. CASE r # q
    BY <2>1, <2>3, <1>3, <1>4, OtherQueue, Zenon
  <2> QED
    BY <2>2, <2>3, Zenon
<1>7. ASSUME NEW r \in Queues PROVE RelayRing(r)'
  <2>1. RelayRing(r)
    BY Zenon DEF RelayInv
  <2> QED
    BY <2>1, <1>3, OtherRing, Zenon
<1> QED
  BY <1>5, <1>6, <1>7, Zenon DEF RelayInv

LEMMA mq_receiveKeeps ==
  ASSUME RelayBounds, RelayInv, NEW q \in Queues, mq_receive(q)
  PROVE  RelayInv'
<1>1. RelayTypes /\ mq[q] \in Seq(Messages)
  BY Zenon DEF RelayInv, RelayTypes
<1>2. /\ thr[q] = <<>> /\ mq[q] # <<>>
      /\ thr' = [thr EXCEPT ![q] = <<Head(mq[q])>>] /\ mq' = [mq EXCEPT ![q] = Tail(@)]
      /\ UNCHANGED <<sent, socket, reading, buffers, cq, printed, errors>>
  BY Zenon DEF mq_receive
<1>3. <<Head(mq[q])>> \in Seq(Messages) /\ Tail(mq[q]) \in Seq(Messages)
  <2>1. Head(mq[q]) \in Messages /\ Tail(mq[q]) \in Seq(Messages)
    BY <1>1, <1>2, TailIs, Zenon
  <2> QED
    BY <2>1
<1>4. /\ thr'[q] = <<Head(mq[q])>> /\ mq'[q] = Tail(mq[q])
      /\ \A r \in Queues \ {q} : thr'[r] = thr[r] /\ mq'[r] = mq[r]
  BY <1>1, <1>2, Zenon DEF RelayTypes
<1>5. RelayTypes'
  BY <1>1, <1>2, <1>3, Zenon DEF RelayTypes
<1>6. ASSUME NEW r \in Queues PROVE RelayQueue(r)'
  <2>1. RelayQueue(r)
    BY Zenon DEF RelayInv
  <2>2. CASE r = q
    <3>1. QueueRight(sent[q], printed[q], buffers[q], socket[q], <<Head(mq[q])>>, Tail(mq[q]))
      BY <2>1, <2>2, <1>1, <1>2, QueueReceive, Zenon DEF RelayQueue
    <3> QED
      BY <3>1, <2>2, <1>2, <1>4, Zenon DEF RelayQueue
  <2>3. CASE r # q
    BY <2>1, <2>3, <1>2, <1>4, OtherQueue, Zenon
  <2> QED
    BY <2>2, <2>3, Zenon
<1>7. ASSUME NEW r \in Queues PROVE RelayRing(r)'
  <2>1. RelayRing(r)
    BY Zenon DEF RelayInv
  <2> QED
    BY <2>1, <1>2, OtherRing, Zenon
<1> QED
  BY <1>5, <1>6, <1>7, Zenon DEF RelayInv

LEMMA JoinOne ==
  ASSUME NEW s \in Seq(Messages), NEW x \in Messages
  PROVE  s \o <<x>> = Append(s, x)
OBVIOUS

LEMMA thr_writenKeeps ==
  ASSUME RelayBounds, RelayInv, NEW q \in Queues, thr_writen(q)
  PROVE  RelayInv'
<1> DEFINE x == thr[q][1]
<1>1. RelayTypes /\ thr[q] \in Seq(Messages) /\ socket[q] \in Seq(Messages) /\ RelayQueue(q)
  BY Zenon DEF RelayInv, RelayTypes
<1>2. /\ thr[q] # <<>> /\ thr' = [thr EXCEPT ![q] = <<>>]
      /\ UNCHANGED <<sent, mq, reading, buffers, cq, printed, errors>>
      /\ \/ x.len = 0 /\ UNCHANGED socket
         \/ x.len > 0 /\ Len(socket[q]) < SocketMax /\ socket' = [socket EXCEPT ![q] = @ \o thr[q]]
  BY Zenon DEF thr_writen
<1>3. thr[q] = <<x>> /\ x \in Messages
  BY <1>1, <1>2, OnlyOne, Zenon DEF RelayQueue, QueueRight
<1> HIDE DEF x
<1>4. QueueRight(sent[q], printed[q], buffers[q], socket[q], <<x>>, mq[q])
  BY <1>1, <1>3, Zenon DEF RelayQueue
<1>5. /\ thr'[q] = <<>> /\ \A r \in Queues \ {q} : thr'[r] = thr[r]
      /\ thr' \in [Queues -> Seq(Messages)]
  BY <1>1, <1>2 DEF RelayTypes
<1>6. /\ socket' \in [Queues -> Seq(Messages)]
      /\ \A r \in Queues \ {q} : socket'[r] = socket[r]
      /\ \/ x.len = 0 /\ socket'[q] = socket[q]
         \/ x.len > 0 /\ Len(socket[q]) < SocketMax /\ socket'[q] = Append(socket[q], x)
  <2>1. CASE x.len = 0 /\ UNCHANGED socket
    BY <2>1, <1>1, Zenon DEF RelayTypes
  <2>2. CASE x.len > 0 /\ Len(socket[q]) < SocketMax /\ socket' = [socket EXCEPT ![q] = @ \o thr[q]]
    <3>1. socket[q] \o thr[q] = Append(socket[q], x) /\ Append(socket[q], x) \in Seq(Messages)
      BY <1>1, <1>3, JoinOne, AppendIs, Zenon
    <3>2. socket' = [socket EXCEPT ![q] = Append(socket[q], x)]
      BY <2>2, <3>1, Zenon
    <3>3. /\ socket' \in [Queues -> Seq(Messages)] /\ socket'[q] = Append(socket[q], x)
          /\ \A r \in Queues \ {q} : socket'[r] = socket[r]
      BY <3>1, <3>2, <1>1, Zenon DEF RelayTypes
    <3> QED
      BY <3>3, <2>2, Zenon
  <2> QED
    BY <2>1, <2>2, <1>2, Zenon
<1>7. RelayTypes'
  BY <1>1, <1>2, <1>5, <1>6, Zenon DEF RelayTypes
<1>8. ASSUME NEW r \in Queues PROVE RelayQueue(r)'
  <2>1. RelayQueue(r)
    BY Zenon DEF RelayInv
  <2>2. CASE r = q /\ x.len = 0 /\ socket'[q] = socket[q]
    <3>1. QueueRight(sent[q], printed[q], buffers[q], socket[q], <<>>, mq[q])
      BY <2>2, <1>3, <1>4, QueueDrop, Zenon
    <3> QED
      BY <3>1, <2>2, <1>2, <1>5, Zenon DEF RelayQueue
  <2>3. CASE r = q /\ x.len > 0 /\ Len(socket[q]) < SocketMax /\ socket'[q] = Append(socket[q], x)
    <3>1. QueueRight(sent[q], printed[q], buffers[q], Append(socket[q], x), <<>>, mq[q])
      BY <2>3, <1>1, <1>3, <1>4, QueueWrite, Zenon
    <3> QED
      BY <3>1, <2>3, <1>2, <1>5, Zenon DEF RelayQueue
  <2>4. CASE r # q
    BY <2>1, <2>4, <1>2, <1>5, <1>6, OtherQueue, Zenon
  <2> QED
    BY <2>2, <2>3, <2>4, <1>6, Zenon
<1>9. ASSUME NEW r \in Queues PROVE RelayRing(r)'
  <2>1. RelayRing(r)
    BY Zenon DEF RelayInv
  <2> QED
    BY <2>1, <1>2, OtherRing, Zenon
<1> QED
  BY <1>7, <1>8, <1>9, Zenon DEF RelayInv
-----------------------------------------------------------------------------
(* Completions that main has not seen: one more, and one less.             *)
LEMMA RingMore ==
  ASSUME NEW c \in Seq(Returns), NEW e \in Returns, NEW r, NEW waits, NEW b,
         RingRight(c, r, waits, b), e.q # r
  PROVE  RingRight(Append(c, e), r, waits, b)
BY SMTT(30), AppendIs DEF RingRight

LEMMA RingOwn ==
  ASSUME NEW c \in Seq(Returns), NEW e \in Returns, NEW b, NEW old,
         RingRight(c, e.q, TRUE, old),
         e.res > 0 => b # <<>> /\ b[1].len = e.res, e.res <= 0 => b = <<>>
  PROVE  RingRight(Append(c, e), e.q, FALSE, b) /\ old = <<>>
<1>1. \A k \in DOMAIN c : c[k].q # e.q
  BY Zenon DEF RingRight
<1>2. old = <<>>
  BY <1>1, Zenon DEF RingRight
<1>3. RingRight(Append(c, e), e.q, FALSE, b)
  BY <1>1, AppendIs DEF RingRight
<1> QED
  BY <1>2, <1>3, Zenon

LEMMA RingLess ==
  ASSUME NEW c \in Seq(Returns), c # <<>>, NEW r, NEW waits, NEW b,
         RingRight(c, r, waits, b), Head(c).q # r
  PROVE  RingRight(Tail(c), r, waits, b)
<1>1. \A k \in DOMAIN Tail(c) : k + 1 \in DOMAIN c /\ Tail(c)[k] = c[k + 1] /\ k \in Nat
  BY TailIs
<1>2. \A j, k \in DOMAIN Tail(c) : Tail(c)[j].q = r /\ Tail(c)[k].q = r => j = k /\ ~waits
  BY <1>1 DEF RingRight
<1>3. ASSUME b # <<>> PROVE \E k \in DOMAIN Tail(c) : Tail(c)[k].q = r
  <2>1. PICK k \in DOMAIN c : c[k].q = r
    BY <1>3, Zenon DEF RingRight
  <2>2. k - 1 \in DOMAIN Tail(c) /\ Tail(c)[k - 1] = c[k]
    BY <2>1, TailIs
  <2> QED
    BY <2>1, <2>2, Zenon
<1>4. \A k \in DOMAIN Tail(c) : Tail(c)[k].q = r =>
        /\ Tail(c)[k].res > 0 => b # <<>> /\ b[1].len = Tail(c)[k].res
        /\ Tail(c)[k].res <= 0 => b = <<>>
  BY <1>1, Zenon DEF RingRight
<1> QED
  BY <1>2, <1>3, <1>4, Zenon DEF RingRight

LEMMA RingDone ==
  ASSUME NEW c \in Seq(Returns), c # <<>>, NEW waits, NEW b,
         RingRight(c, Head(c).q, waits, b)
  PROVE  /\ RingRight(Tail(c), Head(c).q, TRUE, <<>>)
         /\ Head(c) \in Returns
         /\ Head(c).res > 0 => b # <<>> /\ b[1].len = Head(c).res
         /\ Head(c).res <= 0 => b = <<>>
<1>1. \A k \in DOMAIN Tail(c) : Tail(c)[k].q # Head(c).q
  <2>1. \A k \in DOMAIN Tail(c) :
          k + 1 \in DOMAIN c /\ Tail(c)[k] = c[k + 1] /\ k + 1 # 1
    BY TailIs
  <2>2. 1 \in DOMAIN c /\ c[1] = Head(c)
    BY TailIs, Zenon
  <2> QED
    BY <2>1, <2>2 DEF RingRight
<1>2. RingRight(Tail(c), Head(c).q, TRUE, <<>>)
  BY <1>1, Zenon DEF RingRight
<1>3. 1 \in DOMAIN c /\ c[1] = Head(c) /\ Head(c) \in Returns
  BY TailIs, Zenon
<1> QED
  BY <1>2, <1>3, Zenon DEF RingRight

LEMMA submitKeeps ==
  ASSUME RelayBounds, RelayInv, submit
  PROVE  RelayInv'
<1>1. /\ reading' = [q \in Queues |-> TRUE]
      /\ UNCHANGED <<sent, mq, thr, socket, buffers, cq, printed, errors>>
      /\ \A q \in Queues : \A k \in DOMAIN cq : cq[k].q # q
  BY Zenon DEF submit, Started, Each
<1>2. RelayTypes'
  BY <1>1, Zenon DEF RelayInv, RelayTypes
<1>3. ASSUME NEW r \in Queues PROVE RelayQueue(r)' /\ RelayRing(r)'
  <2>1. RelayQueue(r) /\ RelayRing(r)
    BY Zenon DEF RelayInv
  <2>2. RingRight(cq, r, TRUE, buffers[r])
    BY <2>1, <1>1, Zenon DEF RelayRing, RingRight
  <2>3. reading'[r] = TRUE
    BY <1>1, Zenon
  <2> QED
    BY <2>1, <2>2, <2>3, <1>1, OtherQueue, Zenon DEF RelayRing
<1> QED
  BY <1>2, <1>3, Zenon DEF RelayInv

LEMMA complete_readKeeps ==
  ASSUME RelayBounds, RelayInv, NEW q \in Queues, complete_read(q)
  PROVE  RelayInv'
<1> DEFINE x == Head(socket[q])
           e == [q |-> q, res |-> x.len]
<1>1. /\ RelayTypes /\ socket[q] \in Seq(Messages) /\ cq \in Seq(Returns)
      /\ RelayQueue(q) /\ RelayRing(q)
  BY Zenon DEF RelayInv, RelayTypes
<1>2. /\ reading[q] = TRUE /\ socket[q] # <<>>
      /\ buffers' = [buffers EXCEPT ![q] = <<x>>] /\ socket' = [socket EXCEPT ![q] = Tail(@)]
      /\ cq' = Append(cq, e) /\ reading' = [reading EXCEPT ![q] = FALSE]
      /\ UNCHANGED <<sent, mq, thr, printed, errors>>
  BY <1>1, Zenon DEF complete_read, RelayTypes
<1>3. x \in Messages /\ Tail(socket[q]) \in Seq(Messages)
  BY <1>1, <1>2, TailIs, Zenon
<1>4. e \in Returns /\ e.q = q /\ e.res = x.len /\ <<x>> \in Seq(Messages) /\ <<x>> # <<>> /\ <<x>>[1] = x
  BY <1>3 DEF Messages, Returns
<1> HIDE DEF x, e
<1>5. buffers[q] = <<>>
  BY <1>1, <1>2, Zenon DEF RelayRing, RingRight
<1>6. QueueRight(sent[q], printed[q], <<x>>, Tail(socket[q]), thr[q], mq[q]) /\ x.len > 0
  <2>1. QueueRight(sent[q], printed[q], <<>>, socket[q], thr[q], mq[q])
    BY <1>1, <1>5, Zenon DEF RelayQueue
  <2> QED
    BY <2>1, <1>1, <1>2, QueueRead, Zenon DEF x
<1>7. RingRight(Append(cq, e), q, FALSE, <<x>>)
  <2>1. RingRight(cq, e.q, TRUE, buffers[q])
    BY <1>1, <1>2, <1>4, Zenon DEF RelayRing
  <2>2. e.res > 0 => <<x>> # <<>> /\ <<x>>[1].len = e.res
    BY <1>4, Zenon
  <2>3. ~(e.res <= 0)
    BY <1>3, <1>4, <1>6 DEF Messages
  <2> QED
    BY <2>1, <2>2, <2>3, <1>1, <1>4, RingOwn, Zenon
<1>8. /\ buffers'[q] = <<x>> /\ socket'[q] = Tail(socket[q]) /\ reading'[q] = FALSE
      /\ \A r \in Queues \ {q} :
           buffers'[r] = buffers[r] /\ socket'[r] = socket[r] /\ reading'[r] = reading[r]
  BY <1>1, <1>2, Zenon DEF RelayTypes
<1>9. RelayTypes'
  BY <1>1, <1>2, <1>3, <1>4, AppendIs, Zenon DEF RelayTypes
<1>10. ASSUME NEW r \in Queues PROVE RelayQueue(r)' /\ RelayRing(r)'
  <2>1. RelayQueue(r) /\ RelayRing(r)
    BY Zenon DEF RelayInv
  <2>2. CASE r = q
    BY <2>2, <1>2, <1>6, <1>7, <1>8, Zenon DEF RelayQueue, RelayRing
  <2>3. CASE r # q
    <3>1. RingRight(Append(cq, e), r, reading[r], buffers[r])
      BY <2>1, <2>3, <1>1, <1>4, RingMore, Zenon DEF RelayRing
    <3>2. RelayQueue(r)'
      BY <2>1, <2>3, <1>2, <1>8, OtherQueue, Zenon
    <3> QED
      BY <3>1, <3>2, <2>3, <1>2, <1>8, Zenon DEF RelayRing
  <2> QED
    BY <2>2, <2>3, Zenon
<1> QED
  BY <1>9, <1>10, Zenon DEF RelayInv

LEMMA complete_errorKeeps ==
  ASSUME RelayBounds, RelayInv, NEW q \in Queues, complete_error(q)
  PROVE  RelayInv'
<1> DEFINE e == [q |-> q, res |-> -1]
<1>1. RelayTypes /\ cq \in Seq(Returns) /\ RelayRing(q)
  BY Zenon DEF RelayInv, RelayTypes
<1>2. /\ reading[q] = TRUE /\ errors < MaxErrors /\ errors' = errors + 1
      /\ cq' = Append(cq, e) /\ reading' = [reading EXCEPT ![q] = FALSE]
      /\ UNCHANGED <<sent, mq, thr, socket, buffers, printed>>
  BY <1>1, Zenon DEF complete_error, RelayTypes
<1>3. e \in Returns /\ e.q = q /\ e.res <= 0 /\ ~(e.res > 0)
  BY DEF Returns
<1> HIDE DEF e
<1>4. buffers[q] = <<>>
  BY <1>1, <1>2, Zenon DEF RelayRing, RingRight
<1>5. RingRight(Append(cq, e), q, FALSE, buffers[q])
  <2>1. RingRight(cq, e.q, TRUE, buffers[q])
    BY <1>1, <1>2, <1>3, Zenon DEF RelayRing
  <2> QED
    BY <2>1, <1>1, <1>3, <1>4, RingOwn, Zenon
<1>6. reading'[q] = FALSE /\ \A r \in Queues \ {q} : reading'[r] = reading[r]
  BY <1>1, <1>2, Zenon DEF RelayTypes
<1>7. RelayTypes'
  <2>1. errors' \in 0..MaxErrors
    BY SMTT(30), <1>1, <1>2 DEF RelayTypes, RelayBounds
  <2> QED
    BY <2>1, <1>1, <1>2, <1>3, AppendIs, Zenon DEF RelayTypes
<1>8. ASSUME NEW r \in Queues PROVE RelayQueue(r)' /\ RelayRing(r)'
  <2>1. RelayQueue(r) /\ RelayRing(r)
    BY Zenon DEF RelayInv
  <2>2. RelayQueue(r)'
    BY <2>1, <1>2, OtherQueue, Zenon
  <2>3. CASE r = q
    BY <2>2, <2>3, <1>2, <1>5, <1>6, Zenon DEF RelayRing
  <2>4. CASE r # q
    <3>1. RingRight(Append(cq, e), r, reading[r], buffers[r])
      BY <2>1, <2>4, <1>1, <1>3, RingMore, Zenon DEF RelayRing
    <3> QED
      BY <3>1, <2>2, <2>4, <1>2, <1>6, Zenon DEF RelayRing
  <2> QED
    BY <2>3, <2>4, Zenon
<1> QED
  BY <1>7, <1>8, Zenon DEF RelayInv

LEMMA turnKeeps ==
  ASSUME RelayBounds, RelayInv, turn
  PROVE  RelayInv'
<1> DEFINE q == Head(cq).q
           res == Head(cq).res
           y == [id |-> buffers[q][1].id, len |-> Printed(res)]
<1>1. /\ cq # <<>> /\ cq' = Tail(cq)
      /\ reading' = [reading EXCEPT ![q] = TRUE]
      /\ printed' = IF res > 0 THEN [printed EXCEPT ![q] = Append(@, y)] ELSE printed
      /\ buffers' = IF res > 0 THEN [buffers EXCEPT ![q] = <<>>] ELSE buffers
      /\ UNCHANGED <<sent, mq, thr, socket, errors>>
  BY Zenon DEF turn
<1>2. RelayTypes /\ cq \in Seq(Returns) /\ \A r \in Queues : RelayQueue(r) /\ RelayRing(r)
  BY Zenon DEF RelayInv, RelayTypes
<1>3. Head(cq) \in Returns /\ Tail(cq) \in Seq(Returns)
  BY <1>1, <1>2, TailIs, Zenon
<1>4. q \in Queues /\ res \in Int
  BY <1>3, Zenon DEF Returns
<1>5. /\ RingRight(Tail(cq), q, TRUE, <<>>)
      /\ res > 0 => buffers[q] # <<>> /\ buffers[q][1].len = res
      /\ res <= 0 => buffers[q] = <<>>
  <2>1. RingRight(cq, q, reading[q], buffers[q])
    BY <1>2, <1>4, Zenon DEF RelayRing
  <2> QED
    BY <2>1, <1>1, <1>2, RingDone, Zenon
<1>6. reading'[q] = TRUE /\ (\A r \in Queues \ {q} : reading'[r] = reading[r])
      /\ reading' \in [Queues -> BOOLEAN]
  BY <1>1, <1>2, <1>4, Zenon DEF RelayTypes
<1>7. /\ printed' \in [Queues -> Seq(Numbered)] /\ buffers' \in [Queues -> Seq(Messages)]
      /\ \A r \in Queues \ {q} : printed'[r] = printed[r] /\ buffers'[r] = buffers[r]
      /\ buffers'[q] = <<>>
      /\ QueueRight(sent[q], printed'[q], <<>>, socket[q], thr[q], mq[q])
  <2> DEFINE x == buffers[q][1]
  <2>1. /\ printed \in [Queues -> Seq(Numbered)] /\ buffers \in [Queues -> Seq(Messages)]
        /\ QueueRight(sent[q], printed[q], buffers[q], socket[q], thr[q], mq[q])
        /\ printed[q] \in Seq(Numbered) /\ buffers[q] \in Seq(Messages)
    BY <1>2, <1>4, Zenon DEF RelayTypes, RelayQueue
  <2>2. CASE res > 0
    <3>1. buffers[q] = <<x>> /\ x \in Messages /\ x.len = res
      BY <2>1, <2>2, <1>5, OnlyOne, Zenon DEF QueueRight
    <3>2. y \in Numbered /\ y.id = x.id /\ y.len = Printed(x.len)
      BY <3>1 DEF Numbered, Messages, Printed, RelayBounds
    <3> HIDE DEF x, y, q, res
    <3>3. QueueRight(sent[q], Append(printed[q], y), <<>>, socket[q], thr[q], mq[q])
      <4>1. QueueRight(sent[q], printed[q], <<x>>, socket[q], thr[q], mq[q])
        BY <2>1, <3>1, Zenon
      <4> QED
        BY <4>1, <2>1, <3>1, <3>2, QueuePrint, Zenon
    <3>4. printed' = [printed EXCEPT ![q] = Append(@, y)] /\ buffers' = [buffers EXCEPT ![q] = <<>>]
      BY <2>2, <1>1, Zenon
    <3>5. /\ printed' \in [Queues -> Seq(Numbered)] /\ buffers' \in [Queues -> Seq(Messages)]
          /\ \A r \in Queues \ {q} : printed'[r] = printed[r] /\ buffers'[r] = buffers[r]
          /\ buffers'[q] = <<>> /\ printed'[q] = Append(printed[q], y)
      BY <3>2, <3>4, <2>1, <1>4, AppendIs
    <3> QED
      BY <3>3, <3>5, Zenon
  <2>3. CASE ~(res > 0)
    <3>1. buffers[q] = <<>>
      <4>1. res <= 0
        BY <2>3, <1>4
      <4> QED
        BY <4>1, <1>5, Zenon
    <3>2. printed' = printed /\ buffers' = buffers
      BY <2>3, <1>1, Zenon
    <3> QED
      BY <3>1, <3>2, <2>1, Zenon
  <2> QED
    BY <2>2, <2>3, Zenon
<1>8. RelayTypes'
  BY <1>1, <1>2, <1>3, <1>6, <1>7, Zenon DEF RelayTypes
<1> HIDE DEF q, res, y
<1>9. ASSUME NEW r \in Queues PROVE RelayQueue(r)' /\ RelayRing(r)'
  <2>1. CASE r = q
    BY <2>1, <1>1, <1>5, <1>6, <1>7, Zenon DEF RelayQueue, RelayRing
  <2>2. CASE r # q
    <3>1. RingRight(Tail(cq), r, reading[r], buffers[r])
      BY <2>2, <1>1, <1>2, RingLess, Zenon DEF RelayRing, q
    <3>2. RelayQueue(r)'
      BY <2>2, <1>1, <1>2, <1>7, OtherQueue, Zenon
    <3> QED
      BY <3>1, <3>2, <2>2, <1>1, <1>6, <1>7, Zenon DEF RelayRing
  <2> QED
    BY <2>1, <2>2, Zenon
<1> QED
  BY <1>8, <1>9, Zenon DEF RelayInv

LEMMA RelayInit ==
  ASSUME RelayBounds, Init
  PROVE  RelayInv
<1>1. /\ \A q \in Queues : /\ sent[q] = <<>> /\ mq[q] = <<>> /\ thr[q] = <<>> /\ socket[q] = <<>>
                           /\ buffers[q] = <<>> /\ printed[q] = <<>>
      /\ cq = <<>> /\ RelayTypes
  BY DEF Init, Each, RelayTypes, RelayBounds
<1>2. ASSUME NEW q \in Queues PROVE RelayQueue(q) /\ RelayRing(q)
  <2>1. Chain({}, {}, {}, {}, {}, Seen(<<>>), DOMAIN <<>>)
    BY DEF Chain, Before, Seen
  <2>2. InOrder(<<>>, <<>>, <<>>, <<>>, <<>>, <<>>)
    BY <2>1, NoIds, InOrderIs, Zenon
  <2>3. Len(<<>>) <= MaxMsg /\ Len(<<>>) <= SocketMax /\ Len(<<>>) <= 1 /\ TextRight(<<>>, <<>>)
    BY DEF TextRight, RelayBounds
  <2>4. QueueRight(<<>>, <<>>, <<>>, <<>>, <<>>, <<>>)
    BY <2>2, <2>3, NoneAsSent, Zenon DEF QueueRight
  <2>5. \A waits : RingRight(<<>>, q, waits, <<>>)
    BY DEF RingRight
  <2> QED
    BY <2>4, <2>5, <1>1, Zenon DEF RelayQueue, RelayRing
<1> QED
  BY <1>1, <1>2, Zenon DEF RelayInv

LEMMA RelayStep ==
  ASSUME RelayBounds, RelayInv, Next
  PROVE  RelayInv'
BY submitKeeps, turnKeeps, mq_sendKeeps, mq_receiveKeeps, thr_writenKeeps, complete_readKeeps,
   complete_errorKeeps, Zenon DEF Next, thr_fun

LEMMA RelayWhole == RelayInv => RelayedWhole
<1> SUFFICES ASSUME RelayInv PROVE RelayedWhole
  BY Zenon
<1>1. ASSUME NEW q \in Queues
      PROVE  /\ Len(mq[q]) <= MaxMsg /\ Len(socket[q]) <= SocketMax
             /\ Len(thr[q]) <= 1 /\ Len(buffers[q]) <= 1
             /\ \A j, k \in DOMAIN cq :
                  cq[j].q = q /\ cq[k].q = q => j = k /\ ~reading[q]
             /\ InOrder(sent[q], printed[q], buffers[q], socket[q], thr[q], mq[q])
             /\ TextRight(sent[q], printed[q])
  BY Zenon DEF RelayInv, RelayQueue, QueueRight, RelayRing, RingRight
<1>2. TypeOK
  BY <1>1, Zenon DEF RelayInv, RelayTypes, TypeOK
<1>3. RelayedInOrder
  BY <1>1, Zenon DEF RelayedInOrder
<1>4. PrintedText
  BY <1>1, Zenon DEF PrintedText, TextRight
<1> QED
  BY <1>2, <1>3, <1>4, Zenon DEF RelayedWhole

LEMMA RelaySame ==
  ASSUME RelayInv, UNCHANGED vars
  PROVE  RelayInv'
<1>1. /\ UNCHANGED <<sent, mq, thr, socket, reading>>
      /\ UNCHANGED <<buffers, cq, printed, errors>>
  BY Zenon DEF vars
<1>2. RelayTypes'
  BY <1>1, Zenon DEF RelayInv, RelayTypes
<1>3. ASSUME NEW q \in Queues PROVE RelayQueue(q)' /\ RelayRing(q)'
  <2>1. RelayQueue(q) /\ RelayRing(q)
    BY Zenon DEF RelayInv
  <2> QED
    BY <2>1, <1>1, OtherQueue, OtherRing, Zenon
<1> QED
  BY <1>2, <1>3, Zenon DEF RelayInv

(* 17/1 relays every message that is not empty to the terminal once, in    *)
(* the order it was sent in, and whole but for the last byte of one that   *)
(* fills the buffer, whatever reads fail (17/1:25-38, 79-97).              *)
THEOREM RelayRight == RelayBounds => (Spec => []RelayedWhole)
<1> SUFFICES ASSUME RelayBounds PROVE Spec => []RelayedWhole
  BY Zenon
<1>1. Init => RelayInv
  BY RelayInit, Zenon
<1>2. RelayInv /\ [Next]_vars => RelayInv'
  BY RelayStep, RelaySame, Zenon
<1> QED
  BY <1>1, <1>2, RelayWhole, PTL DEF Spec
=============================================================================
