------------------------------ MODULE Rot13Both ------------------------------
(***************************************************************************)
(* Both converters on one input: 14/7 first and, when it has succeeded,    *)
(* 14/8 into a file of its own, as "14/7 f g && 14/8 f h && cmp g h" does. *)
(* The BSZ of the two is the same.  A copy that lost bytes by an error that*)
(* 14/7 does not notice is not compared.                                   *)
(***************************************************************************)
EXTENDS Rot13Uring

VARIABLES copy, copied,   \* the output of 14/7; whether it ended with 0
          at, ioff, ooff, block, nleft, cut

S == INSTANCE Rot13Seq
       WITH outfile <- copy, finished <- copied, pc <- at, buf <- block

copyVars == <<copy, copied, at, ioff, ooff, block, nleft, cut>>
bothVars == <<vars, copyVars>>

InitBoth == Init /\ S!SInit

first == S!SNext /\ UNCHANGED vars
second(A) == at = "done" /\ ~cut /\ A /\ UNCHANGED copyVars

NextBoth == first \/ second(Next)

-----------------------------------------------------------------------------
(* 14/7 does what both converters promise, up to an error that its loop    *)
(* (14/7:29-35) does not notice.                                           *)
SeqImplementsRot13 == S!SeqImplementsRot13

(* 14/7 ends, and so does 14/8 if it is started.                           *)
BothTerminate ==
  <>(\/ at = "failed" \/ (at = "done" /\ cut)
     \/ pc \in {"done", "failed", "undefined"})

(* The two converters make the same file of the same input, unless an      *)
(* error went unnoticed in 14/7.                                           *)
SameOutput == copied /\ ~cut /\ pc = "done" => copy = outfile
=============================================================================
