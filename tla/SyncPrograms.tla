---------------------------- MODULE SyncPrograms ----------------------------
(***************************************************************************)
(* The programs that synchronise a parent and its children with            *)
(* TELL / WAIT, composed with the signal library and with record locks:    *)
(*   handshake        10/24_signal_handshake.cpp                           *)
(*   shm_dev_zero     15/12_shm_dev_zero.cpp                               *)
(*   prevent_race     8/7_prevent_race_for_resources.cpp                   *)
(*   deadlock_file    14/4_deadlock_file.cpp                               *)
(*   mandatory_lock   14/6_check_mandatority_locking.cpp                   *)
(*   forever_lock     14/11_forever_lock_file.cpp                          *)
(* A program is the sequence of calls each of its processes makes, with    *)
(* its loops unrolled; a behaviour runs one of the Programs.  A process    *)
(* executes one step of its current call at a time, and leaves through     *)
(* exit(1) where the code calls err_sys or err_quit.                       *)
(***************************************************************************)
EXTENDS SignalSync, Integers, Sequences

CONSTANTS Programs,  \* name -> process -> sequence of calls
          Loops,     \* iterations of a program's loop (n = 10, NLOOPS / 2, times = 3)
          Chars      \* characters charatatime writes

ASSUME ProgramsAssumption ==
  \A name \in DOMAIN Programs : \A p \in DOMAIN Programs[name] :
    \A i \in DOMAIN Programs[name][p] :
      Programs[name][p][i].op \in {"fork", "TELL_PARENT", "TELL_CHILD"}
        => Programs[name][p][i].arg \in Procs

Bytes == {0, 1}

VARIABLES program,  \* the name of the program that runs
          pc,    \* index of the current call in Script
          code,  \* exit code
          reg,   \* the number a process has read (num, counter)
          cell,  \* the shared number: tempfile's contents, or *area
          off,   \* offset of the open file description shared across fork: 0 start, 1 end
          out,   \* who wrote each character on the terminal
          locks, waiting

INSTANCE RecordLock

progVars == <<program, pc, code, reg, cell, off, out, locks, waiting>>
dataVars == <<reg, cell, off, out>>
lockVars == <<locks, waiting>>
allVars == <<vars, progVars>>

Call(op, arg) == [op |-> op, arg |-> arg]
Do(op) == Call(op, "none")
Repeat(n, body(_)) ==
  LET upto[k \in 0..n] == IF k = 0 THEN <<>> ELSE upto[k - 1] \o body(k)
  IN upto[n]

inc_one_rewind == <<Do("lseek"), Do("read"), Do("write")>>

inc == <<Do("lseek"), Do("read"), Do("lseek"), Do("write")>>

handshake_both_wait ==
  [parent |-> <<Do("TELL_WAIT"), Call("fork", "child")>>
              \o Repeat(Loops, LAMBDA k : <<Do("WAIT")>> \o inc
                                          \o <<Call("TELL_CHILD", "child")>>)
              \o <<Do("TELL_DONE"), Do("exit")>>,
   child  |-> Repeat(Loops, LAMBDA k : inc \o <<Do("WAIT"), Call("TELL_PARENT", "parent")>>)
              \o <<Do("TELL_DONE"), Do("exit")>>]

handshake ==
  [parent |-> <<Do("TELL_WAIT"), Call("fork", "child")>>
              \o Repeat(Loops, LAMBDA k : <<Do("WAIT")>> \o inc
                                          \o <<Call("TELL_CHILD", "child")>>)
              \o <<Do("TELL_DONE"), Do("exit")>>,
   child  |-> Repeat(Loops, LAMBDA k : inc \o <<Call("TELL_PARENT", "parent"), Do("WAIT")>>)
              \o <<Do("TELL_DONE"), Do("exit")>>]

update_twice(i) == <<Do("load"), Call("store", i), Do("load"), Call("store", i)>>

update(i) == <<Do("load"), Call("store", i)>>

shm_dev_zero ==
  [parent |-> <<Do("TELL_WAIT"), Call("fork", "child")>>
              \o Repeat(Loops, LAMBDA k : update(2 * k - 2)
                                          \o <<Call("TELL_CHILD", "child"), Do("WAIT")>>)
              \o <<Do("exit")>>,
   child  |-> Repeat(Loops, LAMBDA k : <<Do("WAIT")>> \o update(2 * k - 1)
                                       \o <<Call("TELL_PARENT", "parent")>>)
              \o <<Do("exit")>>]

charatatime == Repeat(Chars, LAMBDA k : <<Do("putc")>>)

prevent_race_early_tell ==
  [parent |-> <<Do("TELL_WAIT"), Call("fork", "child"), Call("TELL_CHILD", "child")>>
              \o charatatime \o <<Do("exit")>>,
   child  |-> <<Do("WAIT")>> \o charatatime \o <<Do("exit")>>]

prevent_race ==
  [parent |-> <<Do("TELL_WAIT"), Call("fork", "child")>> \o charatatime
              \o <<Call("TELL_CHILD", "child"), Do("exit")>>,
   child  |-> <<Do("WAIT")>> \o charatatime \o <<Do("exit")>>]

deadlock_file_same_order ==
  [parent |-> <<Do("TELL_WAIT"), Call("fork", "child"), Call("writew_lock", {0}),
                Call("TELL_CHILD", "child"), Do("WAIT"), Call("writew_lock", {1}),
                Do("TELL_DONE"), Do("exit")>>,
   child  |-> <<Call("writew_lock", {0}), Call("TELL_PARENT", "parent"), Do("WAIT"),
                Call("writew_lock", {1}), Do("TELL_DONE"), Do("exit")>>]

deadlock_file ==
  [parent |-> <<Do("TELL_WAIT"), Call("fork", "child"), Call("writew_lock", {1}),
                Call("TELL_CHILD", "child"), Do("WAIT"), Call("writew_lock", {0}),
                Do("TELL_DONE"), Do("exit")>>,
   child  |-> <<Call("writew_lock", {0}), Call("TELL_PARENT", "parent"), Do("WAIT"),
                Call("writew_lock", {1}), Do("TELL_DONE"), Do("exit")>>]

mandatory_lock_no_wait ==
  [parent |-> <<Do("TELL_WAIT"), Call("fork", "child"), Call("write_lock", Bytes),
                Call("TELL_CHILD", "child"), Do("TELL_DONE"), Do("exit")>>,
   child  |-> <<Do("WAIT"), Call("read_lock", Bytes), Do("TELL_DONE"), Do("exit")>>]

mandatory_lock ==
  [parent |-> <<Do("TELL_WAIT"), Call("fork", "child"), Call("write_lock", Bytes),
                Call("TELL_CHILD", "child"), Do("wait"), Do("TELL_DONE"), Do("exit")>>,
   child  |-> <<Do("WAIT"), Call("read_lock", Bytes), Do("TELL_DONE"), Do("exit")>>]

child_fn ==
  Repeat(Loops, LAMBDA k : <<Call("readw_lock", Bytes), Call("TELL_PARENT", "parent"),
                             Call("un_lock", Bytes)>>) \o <<Do("exit")>>

forever_lock ==
  [parent |-> <<Do("TELL_WAIT"), Call("fork", "child"), Call("fork", "child2"), Do("WAIT"),
                Call("writew_lock", Bytes), Call("un_lock", Bytes), Do("wait"),
                Do("TELL_DONE"), Do("exit")>>,
   child  |-> child_fn,
   child2 |-> child_fn]

-----------------------------------------------------------------------------
Script == Programs[program]
Op(p) == Script[p][pc[p]].op
Arg(p) == Script[p][pc[p]].arg

(* p finishes its current call, if done, and moves on to the next one.     *)
Advance(p, done) == pc' = [pc EXCEPT ![p] = IF done THEN @ + 1 ELSE @]

(* The locks of a process that is gone are released.                       *)
ReleaseLocks ==
  /\ locks' = {l \in locks : status'[l.pid] \in {"running", "suspended"}}
  /\ UNCHANGED waiting

(* p leaves with exit code c; err_sys and err_quit leave with 1.           *)
Leave(p, c) ==
  /\ Exit(p)
  /\ code' = [code EXCEPT ![p] = c]
  /\ ReleaseLocks
  /\ UNCHANGED pc

(* A call outside the signal library returns, or the program gives up.     *)
Return(p, ok) ==
  IF ok THEN InClient(p) /\ Advance(p, TRUE) /\ UNCHANGED <<vars, code, lockVars>>
        ELSE Leave(p, 1)

(* Calls of the signal library, each in the steps SignalSync gives it.     *)
LibraryCall(p) ==
  /\ \/ Op(p) = "TELL_WAIT" /\ TELL_WAIT_SIGNAL(p)
     \/ Op(p) = "WAIT" /\ WAIT_SIGNAL(p)
     \/ Op(p) = "TELL_DONE" /\ TELL_DONE_SIGNAL(p)
     \/ Op(p) = "TELL_PARENT" /\ TELL_PARENT_SIGNAL(p, Arg(p))
     \/ Op(p) = "TELL_CHILD" /\ TELL_CHILD_SIGNAL(p, Arg(p))
     \/ Op(p) = "fork" /\ Fork(p, Arg(p))
  /\ Advance(p, Op(p) \notin {"TELL_WAIT", "WAIT", "TELL_DONE"}
                \/ (step[p] # step'[p] /\ step'[p] \in ClientSteps))
  /\ UNCHANGED <<code, dataVars, lockVars>>

exit(p) == Op(p) = "exit" /\ Leave(p, 0) /\ UNCHANGED dataVars

(* waitpid, and the loop on wait: every child is gone.                     *)
wait(p) ==
  /\ Op(p) = "wait"
  /\ \A c \in Procs \ {p} : ~Alive(c)
  /\ Return(p, TRUE)
  /\ UNCHANGED dataVars

(* inc: the two lseek calls rewind the offset the processes share; read    *)
(* finds no digits at the end of the file and from_chars then fails;       *)
(* writen puts the digits of num at the offset.                            *)
FileCall(p) ==
  /\ \/ /\ Op(p) = "lseek"
        /\ off' = 0
        /\ Return(p, TRUE)
        /\ UNCHANGED <<reg, cell>>
     \/ /\ Op(p) = "read"
        /\ reg' = [reg EXCEPT ![p] = IF off = 0 THEN cell ELSE @]
        /\ off' = 1
        /\ Return(p, off = 0)
        /\ UNCHANGED cell
     \/ /\ Op(p) = "write"
        /\ cell' = IF off = 0 THEN reg[p] + 1 ELSE 10 * cell + reg[p] + 1
        /\ off' = 1
        /\ Return(p, TRUE)
        /\ UNCHANGED reg
  /\ UNCHANGED out

(* update: the increment of *ptr is a load and a store; the program gives  *)
(* up if the value loaded is not the one it expects.                       *)
MemoryCall(p) ==
  /\ \/ /\ Op(p) = "load"
        /\ reg' = [reg EXCEPT ![p] = cell]
        /\ Return(p, TRUE)
        /\ UNCHANGED cell
     \/ /\ Op(p) = "store"
        /\ cell' = reg[p] + 1
        /\ Return(p, reg[p] = Arg(p))
        /\ UNCHANGED reg
  /\ UNCHANGED <<off, out>>

putc(p) ==
  /\ Op(p) = "putc"
  /\ out' = Append(out, p)
  /\ Return(p, TRUE)
  /\ UNCHANGED <<reg, cell, off>>

LockCmd(op) == IF op \in {"readw_lock", "writew_lock"} THEN "F_SETLKW" ELSE "F_SETLK"
LockType(op) == IF op \in {"readw_lock", "read_lock"} THEN "F_RDLCK" ELSE "F_WRLCK"
LockOps == {"readw_lock", "read_lock", "writew_lock", "write_lock"}

(* Only mandatory_lock calls read_lock, and it expects the call to fail:   *)
(* for it, and only for it, a lock it obtains is the error.                *)
LockCall(p) ==
  LET op == Op(p)
      refused == Refused(p, LockCmd(op), LockType(op), Arg(p))
      continue == InClient(p) /\ Advance(p, TRUE) /\ UNCHANGED <<vars, code>>
  IN /\ \/ /\ op \in LockOps \ {"read_lock"}
           /\ IF refused THEN Leave(p, 1)
                         ELSE continue /\ Grant(p, LockType(op), Arg(p))
        \/ /\ op \in LockOps
           /\ Block(p, LockCmd(op), LockType(op), Arg(p))
           /\ InClient(p)
           /\ UNCHANGED <<vars, code, pc>>
        \/ op = "read_lock" /\ Return(p, refused)
        \/ op = "un_lock" /\ continue /\ un_lock(p, Arg(p))
     /\ UNCHANGED dataVars

(* A delivered signal that kills the process releases its locks too.       *)
SignalDelivery(p) ==
  Deliver(p) /\ ReleaseLocks /\ UNCHANGED <<program, pc, code, dataVars, inherited>>

Step(p) ==
  /\ p \in DOMAIN Script /\ pc[p] \in DOMAIN Script[p]
  /\ \/ LibraryCall(p) \/ exit(p) \/ wait(p) \/ FileCall(p) \/ MemoryCall(p)
     \/ putc(p) \/ LockCall(p)
  /\ UNCHANGED <<inherited, program>>

PInit ==
  /\ Init
  /\ program \in DOMAIN Programs
  /\ pc = [p \in Procs |-> 1]
  /\ code = [p \in Procs |-> 0]
  /\ reg = [p \in Procs |-> 0]
  /\ cell = 0
  /\ off = 1
  /\ out = <<>>
  /\ locks = {}
  /\ waiting = [p \in Procs |-> {}]

PNext == \E p \in Procs : SignalDelivery(p) \/ Step(p)

(* Every process that can run is eventually scheduled, and a signal that   *)
(* can be delivered eventually is.                                         *)
PSpec == PInit /\ [][PNext]_allVars
         /\ \A p \in Procs : WF_allVars(SignalDelivery(p)) /\ WF_allVars(Step(p))

-----------------------------------------------------------------------------
(* Every process of every program but 14/4 runs to exit(0): nobody waits   *)
(* forever for a TELL or for a lock, no signal kills anybody (also with    *)
(* TELLs still pending at TELL_DONE), and no call fails that the program   *)
(* does not expect to fail.                                                *)
RunsToCompletion ==
  program # "deadlock_file" =>
    <>[](\A p \in DOMAIN Script : status[p] = "exited" /\ code[p] = 0)

(* 10/24: the increments of the counter in the file alternate, the child's *)
(* first, and none is lost: the shared file offset never makes a process   *)
(* read or write at the wrong place.                                       *)
HandshakeAlternates ==
  [][program = "handshake" /\ cell' # cell =>
       /\ cell' = cell + 1
       /\ pc'["child"] # pc["child"] <=> cell % 2 = 0]_<<cell, pc>>

(* 8/7: no character of the child comes before the last of the parent.     *)
OutputNotInterleaved ==
  \A i, j \in DOMAIN out : out[i] = "child" /\ out[j] = "parent" => j < i

(* 14/4: the two processes lock the bytes in opposite orders and really    *)
(* reach the deadlock; the kernel makes one of them fail, and the other    *)
(* one then obtains its second lock and exits normally.                    *)
DeadlockBroken ==
  program = "deadlock_file" =>
    <>[](/\ \A p \in DOMAIN Script : status[p] = "exited"
         /\ \E p \in DOMAIN Script :
              code[p] = 1 /\ \A q \in DOMAIN Script \ {p} : code[q] = 0)
=============================================================================
