------------------------------- MODULE Calls -------------------------------
(***************************************************************************)
(* How the calls of a program are written down: a call, its argument, and  *)
(* where the program goes when the call ends a loop or fails a condition.  *)
(***************************************************************************)

Jump(op, arg, to) == [op |-> op, arg |-> arg, to |-> to]
Call(op, arg) == Jump(op, arg, 0)
Do(op) == Call(op, "none")
Loop(to) == Jump("goto", "none", to)
=============================================================================
