------------------------------ MODULE Rot13Seq ------------------------------
(***************************************************************************)
(* 14/7_convert_rot13.cpp, with the loop of writen (lib/apue_file.cpp) it  *)
(* calls: blocks are read, translated and appended to the output one after *)
(* the other.  write may take any part of what is left, and both calls may *)
(* fail.                                                                   *)
(***************************************************************************)
EXTENDS Rot13File

CONSTANT BSZ

VARIABLES pc,     \* "read", "write", "done", "failed"
          ioff,   \* offset of the input
          ooff,   \* offset of the output
          buf,    \* the block read
          nleft,  \* what writen has still to write
          cut     \* an error was taken for the end of the file or for success

SInit ==
  /\ AInit
  /\ pc = "read" /\ ioff = 0 /\ ooff = 0 /\ buf = <<>> /\ nleft = 0 /\ cut = FALSE

Rest == Len(infile) - ioff

read_skips_translate ==
  /\ pc = "read"
  /\ \/ /\ Rest > 0
        /\ LET n == IF Rest < BSZ THEN Rest ELSE BSZ
           IN /\ buf' = [k \in 1..n |-> IF k = n THEN infile[ioff + k]
                                        ELSE translate(infile[ioff + k])]
              /\ nleft' = n
              /\ ioff' = ioff + n
        /\ pc' = "write"
        /\ UNCHANGED <<finished, cut>>
     \/ /\ cut' = (cut \/ Rest > 0)
        /\ pc' = "done"
        /\ finished' = TRUE
        /\ UNCHANGED <<ioff, buf, nleft>>
  /\ UNCHANGED <<infile, outfile, ooff>>

read ==
  /\ pc = "read"
  /\ \/ /\ Rest > 0
        /\ LET n == IF Rest < BSZ THEN Rest ELSE BSZ
           IN /\ buf' = [k \in 1..n |-> translate(infile[ioff + k])]
              /\ nleft' = n
              /\ ioff' = ioff + n
        /\ pc' = "write"
        /\ UNCHANGED <<finished, cut>>
     \/ /\ cut' = (cut \/ Rest > 0)   \* n > 0 is false for -1, too
        /\ pc' = "done"
        /\ finished' = TRUE
        /\ UNCHANGED <<ioff, buf, nleft>>
  /\ UNCHANGED <<infile, outfile, ooff>>

writen_forgets_buf ==
  /\ pc = "write"
  /\ \/ \E n \in 1..nleft :
          /\ outfile' = [x \in Places |->
                           IF x \in (ooff + 1)..(ooff + n)
                           THEN buf[x - ooff] ELSE outfile[x]]
          /\ ooff' = ooff + n
          /\ nleft' = nleft - n
          /\ pc' = IF n = nleft THEN "read" ELSE "write"
          /\ UNCHANGED cut
     \/ /\ pc' = IF nleft = Len(buf) THEN "failed" ELSE "read"
        /\ cut' = (cut \/ nleft < Len(buf))
        /\ UNCHANGED <<outfile, ooff, nleft>>
  /\ UNCHANGED <<infile, finished, ioff, buf>>

(* writen: nothing of the block written and an error is nullopt, which     *)
(* main takes for a failure; an error later on ends the loop only.         *)
writen ==
  /\ pc = "write"
  /\ \/ \E n \in 1..nleft :
          /\ outfile' = [x \in Places |->
                           IF x \in (ooff + 1)..(ooff + n)
                           THEN buf[x - ooff + Len(buf) - nleft] ELSE outfile[x]]
          /\ ooff' = ooff + n
          /\ nleft' = nleft - n
          /\ pc' = IF n = nleft THEN "read" ELSE "write"
          /\ UNCHANGED cut
     \/ /\ pc' = IF nleft = Len(buf) THEN "failed" ELSE "read"
        /\ cut' = (cut \/ nleft < Len(buf))
        /\ UNCHANGED <<outfile, ooff, nleft>>
  /\ UNCHANGED <<infile, finished, ioff, buf>>

SNext == read \/ writen

-----------------------------------------------------------------------------
(* However write cuts the blocks up, the output is the translation of the  *)
(* input, byte for byte, and nothing else is ever in it, until a read      *)
(* fails, which 14/7:29 takes for the end of the file, or a write in the   *)
(* middle of a block, for which writen (lib/apue_file.cpp:33) returns a    *)
(* count and 14/7:32 sees no error.                                        *)
SeqImplementsRot13 ==
  AInit /\ [][cut' \/ AWrite \/ AFinish]_<<infile, outfile, finished>>
=============================================================================
