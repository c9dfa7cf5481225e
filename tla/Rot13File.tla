------------------------------ MODULE Rot13File ------------------------------
(***************************************************************************)
(* What the two file converters 14/7_convert_rot13.cpp and                 *)
(* 14/8_convert_rot13_io_uring.cpp promise: the bytes of the output file   *)
(* appear in any order, each one as the translation of the input byte at   *)
(* the same place, and the program ends normally only when none is missing.*)
(***************************************************************************)
EXTENDS Integers, Sequences

CONSTANT InFiles   \* the possible input files, sequences of bytes

Byte == 0..255

isalpha(c) == c \in 65..90 \/ c \in 97..122

translate_after_n(c) ==
  IF ~isalpha(c) THEN c
  ELSE IF c > 110 THEN c - 13
  ELSE IF c >= 97 THEN c + 13
  ELSE IF c >= 78 THEN c - 13
  ELSE c + 13

translate(c) ==
  IF ~isalpha(c) THEN c
  ELSE IF c >= 110 THEN c - 13   \* 'n'
  ELSE IF c >= 97 THEN c + 13    \* 'a'
  ELSE IF c >= 78 THEN c - 13    \* 'N'
  ELSE c + 13

Hole == 0   \* what a byte of the output that was never written reads as

VARIABLES infile, outfile, finished

Places == 1..Len(infile)

AInit ==
  /\ infile \in InFiles
  /\ outfile = [x \in Places |-> Hole]
  /\ finished = FALSE

Put(S) == outfile' = [x \in Places |-> IF x \in S THEN translate(infile[x]) ELSE outfile[x]]

AWrite ==
  /\ ~finished
  /\ \E S \in SUBSET Places : Put(S)
  /\ UNCHANGED <<infile, finished>>

AFinish ==
  /\ \A x \in Places : outfile[x] = translate(infile[x])
  /\ finished' = TRUE
  /\ UNCHANGED <<infile, outfile>>

ASpec == AInit /\ [][AWrite \/ AFinish]_<<infile, outfile, finished>>
=============================================================================
