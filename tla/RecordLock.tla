----------------------------- MODULE RecordLock -----------------------------
(***************************************************************************)
(* Advisory record locks: lib/apue_lock.cpp and the wrappers of lib/apue.h *)
(* over fcntl.  A request covers a set of bytes; the whole file            *)
(* (l_start = l_len = 0) is the set of all bytes of the model.             *)
(***************************************************************************)
EXTENDS Relation

CONSTANT Procs

VARIABLES locks,    \* the kernel's table: records [pid, type, byte]
          waiting   \* the request a process sleeps for in F_SETLKW, or {}

Request(p, type, bytes) == [pid : {p}, type : {type}, byte : bytes]

Conflict(a, b) ==
  a.byte = b.byte /\ a.pid # b.pid /\ "F_WRLCK" \in {a.type, b.type}

Blockers(R) == {l.pid : l \in {h \in locks : \E r \in R : Conflict(h, r)}}

(* The kernel refuses to put p to sleep for R if a process that holds a    *)
(* conflicting lock waits, directly or not, for p.                         *)
WouldDeadlock(p, R) ==
  LET waitsFor == [e \in Procs \X Procs |->
                     e[2] \in Blockers(IF e[1] = p THEN R ELSE waiting[e[1]])]
  IN TransitiveClosure(waitsFor, Procs)[p, p]

(* A granted request replaces whatever p held on those bytes.              *)
Grant(p, type, bytes) ==
  /\ Blockers(Request(p, type, bytes)) = {}
  /\ locks' = {l \in locks : l.pid # p \/ l.byte \notin bytes} \cup Request(p, type, bytes)
  /\ waiting' = [waiting EXCEPT ![p] = {}]

(* EAGAIN or EACCES for F_SETLK, EDEADLK for F_SETLKW.                     *)
Refused(p, cmd, type, bytes) ==
  LET R == Request(p, type, bytes)
  IN /\ Blockers(R) # {}
     /\ cmd = "F_SETLK" \/ (waiting[p] = {} /\ WouldDeadlock(p, R))

Block(p, cmd, type, bytes) ==
  LET R == Request(p, type, bytes)
  IN /\ cmd = "F_SETLKW"
     /\ waiting[p] = {}
     /\ Blockers(R) # {}
     /\ ~WouldDeadlock(p, R)
     /\ waiting' = [waiting EXCEPT ![p] = R]
     /\ UNCHANGED locks

un_lock(p, bytes) ==
  /\ locks' = {l \in locks : l.pid # p \/ l.byte \notin bytes}
  /\ UNCHANGED waiting
=============================================================================
