------------------------------ MODULE PipeSync ------------------------------
(***************************************************************************)
(* lib/apue_ipc_pipe.cpp: the pipe version of TELL and WAIT. The parent    *)
(* and the child of a fork tell and wait for each other in turn, as the    *)
(* programs do that use the signal version, and call TELL_DONE_PIPE last.  *)
(* A process that err_sys or err_quit ends has its descriptors closed.     *)
(***************************************************************************)
EXTENDS Naturals, Sequences

CONSTANT Rounds   \* turns taken

Proc == {"parent", "child"}

VARIABLES pfd1,    \* bytes in the pipe to the child
          pfd2,    \* bytes in the pipe to the parent
          state,   \* "running", "done", or "exited" by err_sys
          failed,  \* calls of write that failed
          at       \* calls a process has made

vars == <<pfd1, pfd2, state, failed, at>>

TELL_WAIT_PIPE ==
  /\ pfd1 = <<>> /\ pfd2 = <<>>
  /\ state = [p \in Proc |-> "running"] /\ at = [p \in Proc |-> 0]
  /\ failed = [p \in Proc |-> FALSE]

called(p) == at' = [at EXCEPT ![p] = @ + 1]
exits(p) == state' = [state EXCEPT ![p] = "exited"]

(* writen of one byte: it fails only on an error of write, since every     *)
(* process keeps both ends of both pipes open.                             *)
TELL_PARENT_PIPE ==
  \/ pfd2' = Append(pfd2, "c") /\ UNCHANGED <<pfd1, state, failed>>
  \/ /\ failed' = [failed EXCEPT !["child"] = TRUE]
     /\ exits("child") /\ UNCHANGED <<pfd1, pfd2>>

(* !writen(...) != 1 holds when writen succeeded and not when it failed.   *)
TELL_CHILD_PIPE ==
  \/ pfd1' = Append(pfd1, "p") /\ exits("parent") /\ UNCHANGED <<pfd2, failed>>
  \/ /\ failed' = [failed EXCEPT !["parent"] = TRUE]
     /\ UNCHANGED <<pfd1, pfd2, state>>

WAIT_PARENT_PIPE ==
  /\ pfd1 # <<>> /\ pfd1' = Tail(pfd1)
  /\ IF Head(pfd1) = "p" THEN UNCHANGED state ELSE exits("child")
  /\ UNCHANGED <<pfd2, failed>>

WAIT_CHILD_PIPE ==
  /\ pfd2 # <<>> /\ pfd2' = Tail(pfd2)
  /\ IF Head(pfd2) = "c" THEN UNCHANGED state ELSE exits("parent")
  /\ UNCHANGED <<pfd1, failed>>

TELL_DONE_PIPE(p) ==
  /\ state' = [state EXCEPT ![p] = "done"]
  /\ UNCHANGED <<pfd1, pfd2, failed>>

Calls(p) == state[p] = "running" /\ called(p)

parent ==
  /\ Calls("parent")
  /\ \/ at["parent"] = 2 * Rounds /\ TELL_DONE_PIPE("parent")
     \/ at["parent"] < 2 * Rounds /\ at["parent"] % 2 = 0 /\ TELL_CHILD_PIPE
     \/ at["parent"] < 2 * Rounds /\ at["parent"] % 2 = 1 /\ WAIT_CHILD_PIPE

child ==
  /\ Calls("child")
  /\ \/ at["child"] = 2 * Rounds /\ TELL_DONE_PIPE("child")
     \/ at["child"] < 2 * Rounds /\ at["child"] % 2 = 0 /\ WAIT_PARENT_PIPE
     \/ at["child"] < 2 * Rounds /\ at["child"] % 2 = 1 /\ TELL_PARENT_PIPE

Spec == TELL_WAIT_PIPE /\ [][parent \/ child]_vars

(* A TELL whose byte was written returns: err_sys (lib/apue.h:128) is for  *)
(* a call that failed, and writen says so with nullopt (lib/apue.h:320).   *)
ExitsOnlyOnError == \A p \in Proc : state[p] = "exited" => failed[p]
=============================================================================
