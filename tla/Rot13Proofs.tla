---------------------------- MODULE Rot13Proofs ----------------------------
(***************************************************************************)
(* Rot13Uring and Rot13Seq are proved to implement Rot13File, and to make  *)
(* the same file of the same input, for every input, block size and queue  *)
(* depth.                                                                  *)
(***************************************************************************)
EXTENDS Rot13Both, FiniteSetTheorems, TLAPS

Right(x) == outfile[x] = translate(infile[x])

(* What request i carries, at each stage of its life.                      *)
Carries(i) ==
  /\ type[i] = "OP_READ" /\ stage[i] = "complete" /\ res[i] >= 0 =>
       /\ res[i] = Available(i)
       /\ buf[i] = [k \in 1..Available(i) |-> infile[offset[i] + k]]
  /\ type[i] = "OP_WRITE" /\ stage[i] # "idle" =>
       /\ Available(i) > 0
       /\ buf[i] = [k \in 1..Available(i) |-> translate(infile[offset[i] + k])]
  /\ type[i] = "OP_WRITE" /\ stage[i] = "complete" /\ res[i] = Len(buf[i]) =>
       \A x \in Places : x \in (offset[i] + 1)..(offset[i] + Available(i)) => Right(x)

(* Who is busy in each phase of main, and what has been handed out.        *)
Phase ==
  /\ pc = "init" => started = 0 /\ ~eof_reached /\ global_read_offset = 0
                    /\ \A i \in Requests : stage[i] = "idle"
  /\ pc = "queue" => started < QUEUE_DEPTH /\ ~eof_reached
                     /\ \A i \in Requests : i > started <=> stage[i] = "idle"
  /\ pc = "loop" => \A i \in Requests : stage[i] = "idle" => eof_reached
  /\ eof_reached => Len(infile) <= global_read_offset
  /\ pc \in {"queue", "loop"} =>
       \A i \in Requests : stage[i] # "idle" => offset[i] + BSZ <= global_read_offset
  /\ pc = "done" => Busy = {} /\ \A x \in Places : Right(x)

IInv ==
  /\ TypeOK
  /\ PendingIsInFlight
  /\ NoByteLost
  /\ Phase
  /\ \A i \in Requests : Carries(i)

-----------------------------------------------------------------------------
(* translate maps bytes to bytes and is its own inverse.                   *)
LEMMA TranslateInverts ==
  ASSUME NEW c \in 0..255
  PROVE  translate(c) \in 0..255 /\ translate(translate(c)) = c
BY DEF translate, R!translate, R!isalpha

(* The elements of a sequence.                                             *)
LEMMA SeqElement ==
  ASSUME NEW T, NEW s \in Seq(T), NEW x \in 1..Len(s)
  PROVE  s[x] \in T
OBVIOUS

(* The sets of bytes and of offsets that the typing of a step refers to.   *)
LEMMA BytesAndPlaces ==
  ASSUME TypeOK
  PROVE  /\ infile \in Seq(0..255)
         /\ Len(infile) \in Nat
         /\ \A x \in Places : infile[x] \in 0..255
<1>1. infile \in Seq(0..255)
  BY Zenon, UringAssumption DEF TypeOK
<1>2. Len(infile) \in Nat
  BY <1>1
<1>3. ASSUME NEW x \in Places PROVE infile[x] \in 0..255
  <2>1. x \in 1..Len(infile)
    BY Zenon DEF Places
  <2> QED
    BY <1>1, <2>1, SeqElement, Zenon
<1> QED
  BY <1>1, <1>2, <1>3, Zenon

(* A function on 1..n is a sequence.                                       *)
LEMMA FunctionIsSeq ==
  ASSUME NEW T, NEW n \in Nat, NEW g \in [1..n -> T]
  PROVE  g \in Seq(T) /\ Len(g) = n
OBVIOUS

(* A read is given at most a block, and no more than the file has left.    *)
LEMMA AvailableBound ==
  ASSUME TypeOK, NEW i \in Requests
  PROVE  /\ Available(i) \in 0..BSZ
         /\ \A k \in 1..Available(i) : offset[i] + k \in Places
         /\ \A x \in Places : x \in (offset[i] + 1)..(offset[i] + BSZ) =>
                                x \in (offset[i] + 1)..(offset[i] + Available(i))
         /\ Available(i) < BSZ => Len(infile) < offset[i] + BSZ
<1>1. Len(infile) \in Nat /\ offset[i] \in Nat /\ BSZ \in Nat \ {0}
  BY BytesAndPlaces, UringAssumption, Zenon DEF TypeOK
<1> QED
  BY SMTT(30), <1>1 DEF Available, Places

(* The counter when one more request, or one less, is under way.           *)
LEMMA BusyCount ==
  /\ IsFiniteSet(Requests)
  /\ \A T \in SUBSET Requests :
       /\ Cardinality(T) \in Nat
       /\ Cardinality(T) = 0 => T = {}
       /\ \A i \in Requests \ T : Cardinality(T \cup {i}) = Cardinality(T) + 1
       /\ \A i \in T : Cardinality(T \ {i}) = Cardinality(T) - 1
<1>1. IsFiniteSet(Requests)
  BY FS_Interval, UringAssumption DEF Requests
<1>2. ASSUME NEW T \in SUBSET Requests
      PROVE  /\ Cardinality(T) \in Nat
             /\ Cardinality(T) = 0 => T = {}
             /\ \A i \in Requests \ T : Cardinality(T \cup {i}) = Cardinality(T) + 1
             /\ \A i \in T : Cardinality(T \ {i}) = Cardinality(T) - 1
  <2>1. IsFiniteSet(T)
    BY <1>1, FS_Subset, Zenon
  <2> QED
    BY <2>1, FS_CardinalityType, FS_EmptySet, FS_AddElement, FS_RemoveElement, Zenon
<1> QED
  BY <1>1, <1>2, Zenon

(* A step that changes neither the busy requests nor the counter keeps     *)
(* them equal.                                                             *)
LEMMA BusyUnchanged ==
  ASSUME PendingIsInFlight, Busy' = Busy, pending_operations' = pending_operations
  PROVE  PendingIsInFlight'
BY Zenon DEF PendingIsInFlight

-----------------------------------------------------------------------------
(* The inductive invariant holds when main starts.                         *)
LEMMA InitIInv == Init => IInv
<1> SUFFICES ASSUME Init PROVE IInv
  BY Zenon
<1>1. TypeOK
  <2>1. outfile \in [Places -> R!Byte]
    BY DEF Init, R!Hole, R!Byte
  <2>2. started \in 0..QUEUE_DEPTH /\ res \in [Requests -> -1..BSZ]
    BY UringAssumption DEF Init
  <2>3. buf \in [Requests -> Seq(R!Byte)]
    BY DEF Init
  <2> QED
    BY <2>1, <2>2, <2>3, Zenon DEF Init, TypeOK
<1>2. Busy = {}
  BY Zenon DEF Init, Busy
<1>3. PendingIsInFlight
  BY <1>2, FS_EmptySet, Zenon DEF Init, PendingIsInFlight
<1>4. NoByteLost /\ Phase /\ \A i \in Requests : Carries(i)
  BY <1>2, BytesAndPlaces, <1>1, Zenon DEF Init, NoByteLost, Phase, Carries
<1> QED
  BY <1>1, <1>3, <1>4, Zenon DEF IInv

(* io_uring_queue_init (14/8) preserves it, whether or not it succeeds.    *)
LEMMA QueueInitIInv == IInv /\ io_uring_queue_init => IInv'
<1> SUFFICES ASSUME IInv, io_uring_queue_init PROVE IInv'
  BY Zenon
<1>1. TypeOK' /\ PendingIsInFlight' /\ \A i \in Requests : Carries(i)'
  BY DEF IInv, io_uring_queue_init, reqVars, TypeOK, PendingIsInFlight, Busy, Carries,
      Available,
         Places, Right
<1>2. NoByteLost'
  BY DEF IInv, io_uring_queue_init, NoByteLost, Phase, TypeOK, Places
<1>3. Phase'
  BY UringAssumption DEF IInv, io_uring_queue_init, reqVars, Phase, TypeOK, Requests
<1> QED
  BY <1>1, <1>2, <1>3, Zenon DEF IInv

(* A request other than the one that moves keeps what it carries.          *)
LEMMA OthersCarry ==
  ASSUME IInv, NEW j \in Requests, UNCHANGED infile,
         type'[j] = type[j], offset'[j] = offset[j], buf'[j] = buf[j], stage'[j] = stage[j],
         res'[j] = res[j], \A x \in Places : Right(x) => Right(x)'
  PROVE  Carries(j)'
<1>1. Carries(j) /\ Available(j)' = Available(j) /\ Places' = Places
  BY Zenon DEF IInv, Available, Places
<1> QED
  BY <1>1, Zenon DEF Carries

(* The first reads, which main queues before its loop, preserve it.        *)
LEMMA StartIInv == IInv /\ start => IInv'
<1> SUFFICES ASSUME IInv, start PROVE IInv'
  BY Zenon
<1> DEFINE i == started + 1
<1>1. i \in Requests /\ stage[i] = "idle" /\ ~eof_reached /\ pc = "queue" /\ started \in Nat
  BY UringAssumption DEF IInv, Phase, start, TypeOK, Requests
<1>2. /\ type' = [type EXCEPT ![i] = "OP_READ"]
      /\ offset' = [offset EXCEPT ![i] = global_read_offset]
      /\ global_read_offset' = global_read_offset + BSZ
      /\ stage' = [stage EXCEPT ![i] = "inflight"]
      /\ pending_operations' = pending_operations + 1
      /\ started' = i
      /\ pc' = IF i = QUEUE_DEPTH THEN "loop" ELSE "queue"
      /\ UNCHANGED <<infile, outfile, eof_reached, buf, res>>
  BY <1>1, Zenon DEF start, queue_read
<1> HIDE DEF i
<1>3. TypeOK
  BY Zenon DEF IInv
<1>4. BSZ \in Nat \ {0} /\ QUEUE_DEPTH \in Nat \ {0} /\ i \in 1..QUEUE_DEPTH /\ i = started + 1
  BY <1>1, UringAssumption, Zenon DEF Requests, i
<1>5. TypeOK'
  BY SMTT(30), <1>1, <1>2, <1>3, <1>4 DEF TypeOK, Places
<1>6. PendingIsInFlight'
  <2>1. Busy' = Busy \cup {i} /\ i \in Requests \ Busy /\ Busy \in SUBSET Requests
    BY <1>1, <1>2, <1>3, Zenon DEF Busy, TypeOK
  <2> QED
    BY <1>2, <2>1, BusyCount, Zenon DEF IInv, PendingIsInFlight
<1>7. NoByteLost'
  <2> SUFFICES ASSUME NEW x \in Places, x <= global_read_offset + BSZ
               PROVE  \/ outfile[x] = translate(infile[x])
                      \/ \E j \in Busy' : x \in (offset'[j] + 1)..(offset'[j] + BSZ)
    BY <1>2, Zenon DEF NoByteLost, Places
  <2>1. CASE x <= global_read_offset
    <3>1. CASE outfile[x] = translate(infile[x])
      BY <3>1, Zenon
    <3>2. CASE outfile[x] # translate(infile[x])
      <4>1. PICK j \in Busy : x \in (offset[j] + 1)..(offset[j] + BSZ)
        BY <1>1, <2>1, <3>2, Zenon DEF IInv, NoByteLost
      <4>2. j # i /\ j \in Busy' /\ offset'[j] = offset[j]
        BY <1>1, <1>2, <1>3, <4>1, Zenon DEF Busy, TypeOK
      <4> QED
        BY <4>1, <4>2, Zenon
    <3> QED
      BY <3>1, <3>2, Zenon
  <2>2. CASE x > global_read_offset
    <3>1. i \in Busy' /\ offset'[i] = global_read_offset
      BY <1>1, <1>2, <1>3, Zenon DEF Busy, TypeOK
    <3>2. x \in (offset'[i] + 1)..(offset'[i] + BSZ)
      BY <1>3, <1>4, <2>2, <3>1 DEF TypeOK, Places
    <3> QED
      BY <3>1, <3>2, Zenon
  <2> QED
    BY <2>1, <2>2, <1>3 DEF TypeOK, Places
<1>8. Phase'
  <2>1. Phase
    BY Zenon DEF IInv
  <2>2. \A j \in Requests : stage'[j] = IF j = i THEN "inflight" ELSE stage[j]
    BY <1>2, <1>3, Zenon DEF TypeOK
  <2>3. \A j \in Requests : i + 1 > j <=> stage'[j] # "idle"
    BY <1>1, <1>4, <2>1, <2>2 DEF Phase, Requests
  <2>4. ASSUME NEW j \in Requests, stage'[j] # "idle"
        PROVE  offset'[j] + BSZ <= global_read_offset'
    BY SMTT(30), <1>1, <1>2, <1>3, <1>4, <2>1, <2>2, <2>4 DEF Phase, TypeOK
  <2> QED
    BY <1>1, <1>2, <1>4, <2>3, <2>4 DEF Phase, Requests
<1>9. ASSUME NEW j \in Requests PROVE Carries(j)'
  <2>1. CASE j = i
    BY <2>1, <1>1, <1>2, <1>3, Zenon DEF Carries, TypeOK
  <2>2. CASE j # i
    <3>1. \A x \in Places : Right(x) => Right(x)'
      BY <1>2, Zenon DEF Right
    <3>2. type'[j] = type[j] /\ offset'[j] = offset[j] /\ stage'[j] = stage[j]
      BY <1>2, <1>3, <2>2, Zenon DEF TypeOK
    <3> QED
      BY <1>2, <3>1, <3>2, OthersCarry, Zenon
  <2> QED
    BY <2>1, <2>2, Zenon
<1> QED
  BY <1>5, <1>6, <1>7, <1>8, <1>9, Zenon DEF IInv

-----------------------------------------------------------------------------
(* A completed write puts right what it covers and spoils nothing.         *)
LEMMA WritePutsRight ==
  ASSUME IInv, NEW i \in Requests, stage[i] = "inflight", type[i] = "OP_WRITE",
         UNCHANGED infile, NEW n \in 0..Len(buf[i]),
         outfile' = [x \in Places |-> IF x \in (offset[i] + 1)..(offset[i] + n)
                                      THEN buf[i][x - offset[i]] ELSE outfile[x]]
  PROVE  /\ Len(buf[i]) = Available(i) /\ Available(i) \in 1..BSZ
         /\ \A x \in Places : x \in (offset[i] + 1)..(offset[i] + n) => Right(x)'
         /\ \A x \in Places : Right(x) => Right(x)'
         /\ outfile' \in [Places -> R!Byte]
         /\ \A x \in Places : outfile'[x] \in {outfile[x], translate(infile[x])}
<1>1. /\ Available(i) \in 1..BSZ /\ Available(i) > 0
      /\ buf[i] = [k \in 1..Available(i) |-> translate(infile[offset[i] + k])]
      /\ offset[i] \in Nat /\ Len(infile) \in Nat
  BY SMTT(30), AvailableBound, BytesAndPlaces, UringAssumption DEF IInv, Carries, TypeOK
<1>2. Len(buf[i]) = Available(i)
  BY <1>1
<1>3. ASSUME NEW x \in Places, x \in (offset[i] + 1)..(offset[i] + n)
      PROVE  outfile'[x] = translate(infile[x])
  <2>1. x - offset[i] \in 1..Available(i) /\ offset[i] + (x - offset[i]) = x
    BY <1>1, <1>2, <1>3 DEF Places
  <2> QED
    BY <1>1, <1>3, <2>1, Zenon
<1>4. ASSUME NEW x \in Places PROVE outfile'[x] \in {outfile[x], translate(infile[x])}
  BY <1>3, Zenon
<1>5. ASSUME NEW x \in Places PROVE translate(infile[x]) \in R!Byte /\ outfile[x] \in R!Byte
  <2>1. infile[x] \in 0..255 /\ outfile[x] \in R!Byte
    BY Zenon, BytesAndPlaces DEF IInv, TypeOK
  <2> QED
    BY Zenon, <2>1, TranslateInverts DEF R!Byte
<1>6. outfile' \in [Places -> R!Byte]
  BY Zenon, <1>4, <1>5
<1> QED
  BY <1>1, <1>2, <1>3, <1>4, <1>6, Zenon DEF Right

(* The kernel completing a read, whole, short or with an error, preserves  *)
(* it.                                                                     *)
LEMMA CompleteReadIInv ==
  ASSUME IInv, NEW i \in Requests, Complete(i), complete_read(i)
  PROVE  IInv'
<1>1. /\ TypeOK /\ stage[i] = "inflight" /\ stage' = [stage EXCEPT ![i] = "complete"]
      /\ UNCHANGED <<infile, pc, started, global_read_offset, pending_operations, eof_reached,
                     type, offset, outfile>>
      /\ type[i] = "OP_READ"
  BY Zenon DEF IInv, Complete, complete_read
<1>2. \/ /\ res' = [res EXCEPT ![i] = Available(i)]
         /\ buf' = [buf EXCEPT ![i] = [k \in 1..Available(i) |-> infile[offset[i] + k]]]
      \/ res' = [res EXCEPT ![i] = -1] /\ buf' = buf
  BY Zenon DEF complete_read
<1> DEFINE b == [k \in 1..Available(i) |-> infile[offset[i] + k]]
<1>3. Available(i) \in 0..BSZ /\ b \in Seq(R!Byte)
  <2>1. Available(i) \in 0..BSZ /\ \A k \in 1..Available(i) : infile[offset[i] + k] \in 0..255
    BY Zenon, <1>1, AvailableBound, BytesAndPlaces
  <2>2. b \in [1..Available(i) -> 0..255]
    BY Zenon, <2>1
  <2> HIDE DEF b
  <2>3. Available(i) \in Nat
    <3>1. \A a \in 0..BSZ : a \in Nat
      BY ONLY UringAssumption
    <3> QED
      BY <2>1, <3>1, Zenon
  <2> QED
    BY Zenon, <2>1, <2>2, <2>3, FunctionIsSeq DEF R!Byte
<1>4. TypeOK'
  <2>1. res' \in [Requests -> -1..BSZ]
    <3>1. -1 \in -1..BSZ /\ Available(i) \in -1..BSZ
      BY <1>3, UringAssumption
    <3> QED
      BY Zenon, <1>1, <1>2, <3>1 DEF TypeOK
  <2>2. buf' \in [Requests -> Seq(R!Byte)]
    <3> HIDE DEF b
    <3> QED
      BY Zenon, <1>1, <1>2, <1>3 DEF TypeOK, b
  <2>3. stage' \in [Requests -> {"idle", "inflight", "complete"}]
    BY Zenon, <1>1 DEF TypeOK
  <2> QED
    BY Zenon, <1>1, <2>1, <2>2, <2>3 DEF TypeOK, Places
<1>5. Busy' = Busy
  BY <1>1, Zenon DEF Busy, TypeOK
<1>6. PendingIsInFlight' /\ NoByteLost'
  BY <1>1, <1>5, Zenon DEF IInv, PendingIsInFlight, NoByteLost, Places
<1>7. Phase'
  BY <1>1, <1>5, Zenon DEF IInv, Phase, TypeOK, Busy, Places, Right
<1>8. ASSUME NEW j \in Requests PROVE Carries(j)'
  <2>1. CASE j = i
    <3>1. Available(i)' = Available(i) /\ stage'[i] = "complete" /\ type'[i] = "OP_READ"
      BY <1>1, Zenon DEF Available, TypeOK
    <3>2. CASE res' = [res EXCEPT ![i] = Available(i)] /\ buf' = [buf EXCEPT ![i] = b]
      <4>1. res'[i] = Available(i) /\ buf'[i] = b
        BY Zenon, <1>1, <3>2 DEF TypeOK
      <4> QED
        BY Zenon, <1>1, <2>1, <3>1, <4>1 DEF Carries
    <3>3. CASE res' = [res EXCEPT ![i] = -1]
      <4>1. res'[i] = -1 /\ ~(-1 >= 0)
        BY SMTT(30), <1>1, <3>3 DEF TypeOK
      <4> QED
        BY Zenon, <2>1, <3>1, <4>1 DEF Carries
    <3> QED
      BY Zenon, <1>2, <3>2, <3>3
  <2>2. CASE j # i
    <3>1. \A x \in Places : Right(x) => Right(x)'
      BY <1>1, Zenon DEF Right
    <3>2. buf'[j] = buf[j] /\ stage'[j] = stage[j] /\ res'[j] = res[j]
      BY <1>1, <1>2, <2>2, Zenon DEF TypeOK
    <3> QED
      BY <1>1, <3>1, <3>2, OthersCarry, Zenon
  <2> QED
    BY <2>1, <2>2, Zenon
<1> QED
  BY <1>4, <1>6, <1>7, <1>8, Zenon DEF IInv

(* The kernel completing a write preserves it.                             *)
LEMMA CompleteWriteIInv ==
  ASSUME IInv, NEW i \in Requests, Complete(i), complete_write(i)
  PROVE  IInv'
<1>1. /\ TypeOK /\ stage[i] = "inflight" /\ stage' = [stage EXCEPT ![i] = "complete"]
      /\ UNCHANGED <<infile, pc, started, global_read_offset, pending_operations, eof_reached,
                     type, offset, buf>>
      /\ type[i] = "OP_WRITE"
  BY Zenon DEF IInv, Complete, complete_write
<1>2. PICK n \in 0..Len(buf[i]) :
        /\ res' = [res EXCEPT ![i] = IF n = 0 THEN -1 ELSE n]
        /\ outfile' = [x \in Places |-> IF x \in (offset[i] + 1)..(offset[i] + n)
                                        THEN buf[i][x - offset[i]] ELSE outfile[x]]
  BY Zenon DEF complete_write
<1>3. /\ Len(buf[i]) = Available(i) /\ Available(i) \in 1..BSZ
      /\ \A x \in Places : x \in (offset[i] + 1)..(offset[i] + n) => Right(x)'
      /\ \A x \in Places : Right(x) => Right(x)'
      /\ outfile' \in [Places -> R!Byte]
  BY Zenon, <1>1, <1>2, WritePutsRight
<1>4. TypeOK'
  <2>1. -1 \in -1..BSZ /\ n \in -1..BSZ
    BY <1>2, <1>3, UringAssumption
  <2>2. res' \in [Requests -> -1..BSZ]
    BY Zenon, <1>1, <1>2, <2>1 DEF TypeOK
  <2>3. stage' \in [Requests -> {"idle", "inflight", "complete"}]
    BY Zenon, <1>1 DEF TypeOK
  <2> QED
    BY Zenon, <1>1, <1>3, <2>2, <2>3 DEF TypeOK, Places
<1>5. Busy' = Busy /\ i \in Busy /\ Places' = Places
  BY <1>1, Zenon DEF Busy, TypeOK, Places
<1>6. PendingIsInFlight'
  BY Zenon, <1>1, <1>5, BusyUnchanged DEF IInv
<1>7. NoByteLost'
  <2> SUFFICES ASSUME pc \in {"queue", "loop"}, NEW x \in Places, x <= global_read_offset
               PROVE  Right(x)' \/ \E j \in Busy : x \in (offset[j] + 1)..(offset[j] + BSZ)
    BY Zenon, <1>1, <1>5 DEF NoByteLost, Right
  <2>1. Right(x) \/ \E j \in Busy : x \in (offset[j] + 1)..(offset[j] + BSZ)
    BY Zenon DEF IInv, NoByteLost, Right
  <2> QED
    BY Zenon, <2>1, <1>3
<1>8. Phase'
  <2>1. Phase /\ pc # "done" /\ pc # "init"
    BY Zenon, <1>1, <1>5 DEF IInv, Phase
  <2>2. \A j \in Requests : stage'[j] = "idle" <=> stage[j] = "idle"
    BY <1>1, Zenon DEF TypeOK
  <2> QED
    BY Zenon, <1>1, <2>1, <2>2 DEF Phase
<1>9. ASSUME NEW j \in Requests PROVE Carries(j)'
  <2>1. CASE j = i
    <3>1. Available(i)' = Available(i) /\ stage'[i] = "complete" /\ type'[i] = "OP_WRITE"
      BY <1>1, Zenon DEF Available, TypeOK
    <3>2. /\ Available(i) > 0
          /\ buf[i] = [k \in 1..Available(i) |-> translate(infile[offset[i] + k])]
      BY Zenon, <1>1 DEF IInv, Carries
    <3>3. res'[i] = Available(i) => n = Available(i)
      BY <1>1, <1>2, <1>3 DEF TypeOK
    <3> QED
      BY Zenon, <1>1, <1>3, <1>5, <2>1, <3>1, <3>2, <3>3 DEF Carries
  <2>2. CASE j # i
    <3>1. stage'[j] = stage[j] /\ res'[j] = res[j]
      BY <1>1, <1>2, <2>2, Zenon DEF TypeOK
    <3> QED
      BY Zenon, <1>1, <1>3, <3>1, OthersCarry
  <2> QED
    BY Zenon, <2>1, <2>2
<1> QED
  BY Zenon, <1>4, <1>6, <1>7, <1>8, <1>9 DEF IInv

-----------------------------------------------------------------------------
(* main turning a completed read into a write preserves it.                *)
LEMMA HandleReadIInv ==
  ASSUME IInv, NEW i \in Requests, handle_read(i)
  PROVE  IInv'
<1>1. /\ TypeOK /\ pc = "loop" /\ stage[i] = "complete" /\ type[i] = "OP_READ" /\ res[i] > 0
      /\ eof_reached' = (eof_reached \/ res[i] < BSZ)
      /\ buf' = [buf EXCEPT ![i] = [k \in 1..res[i] |-> translate(buf[i][k])]]
      /\ type' = [type EXCEPT ![i] = "OP_WRITE"]
      /\ stage' = [stage EXCEPT ![i] = "inflight"]
      /\ pending_operations' = (pending_operations - 1) + 1
      /\ UNCHANGED <<infile, outfile, pc, started, global_read_offset, offset, res>>
  BY Zenon DEF IInv, handle_read, Seen, queue_write
<1>2. /\ res[i] = Available(i) /\ Available(i) \in 1..BSZ /\ Available(i) \in Nat
      /\ buf[i] = [k \in 1..Available(i) |-> infile[offset[i] + k]]
      /\ pending_operations' = pending_operations
  <2>1. res[i] \in -1..BSZ /\ res[i] >= 0 /\ BSZ \in Nat
    BY <1>1, UringAssumption DEF TypeOK
  <2>2. res[i] = Available(i) /\ buf[i] = [k \in 1..Available(i) |-> infile[offset[i] + k]]
    BY Zenon, <1>1, <2>1 DEF IInv, Carries
  <2>3. Available(i) \in 1..BSZ /\ Available(i) \in Nat
    BY <1>1, <2>1, <2>2
  <2>4. pending_operations' = pending_operations
    BY <1>1 DEF TypeOK
  <2> QED
    BY Zenon, <2>2, <2>3, <2>4
<1> DEFINE b == [k \in 1..Available(i) |-> translate(infile[offset[i] + k])]
<1>3. b \in Seq(R!Byte) /\ buf' = [buf EXCEPT ![i] = b]
  <2>1. \A k \in 1..Available(i) : translate(infile[offset[i] + k]) \in R!Byte
    BY Zenon, <1>1, AvailableBound, BytesAndPlaces, TranslateInverts DEF R!Byte
  <2>2. b \in [1..Available(i) -> R!Byte]
    BY Zenon, <2>1
  <2>3. [k \in 1..res[i] |-> translate(buf[i][k])] = b
    BY Zenon, <1>2
  <2>4. buf' = [buf EXCEPT ![i] = b]
    BY Zenon, <1>1, <2>3
  <2> HIDE DEF b
  <2> QED
    BY Zenon, <1>2, <2>2, <2>4, FunctionIsSeq
<1>4. TypeOK'
  <2>1. buf' \in [Requests -> Seq(R!Byte)]
    <3> HIDE DEF b
    <3> QED
      BY Zenon, <1>1, <1>3 DEF TypeOK
  <2>2. /\ stage' \in [Requests -> {"idle", "inflight", "complete"}]
        /\ type' \in [Requests -> {"OP_READ", "OP_WRITE"}]
    BY Zenon, <1>1 DEF TypeOK
  <2>3. eof_reached' \in BOOLEAN
    BY Zenon, <1>1
  <2> QED
    BY Zenon, <1>1, <1>2, <2>1, <2>2, <2>3 DEF TypeOK, Places
<1>5. Busy' = Busy /\ i \in Busy /\ Places' = Places
  BY <1>1, Zenon DEF Busy, TypeOK, Places
<1>6. PendingIsInFlight' /\ NoByteLost'
  BY Zenon, <1>1, <1>2, <1>5, BusyUnchanged DEF IInv, NoByteLost
<1>7. Phase'
  <2>1. Phase /\ offset[i] + BSZ <= global_read_offset
    BY Zenon, <1>1 DEF IInv, Phase
  <2>2. \A j \in Requests : stage'[j] = "idle" <=> stage[j] = "idle"
    BY <1>1, Zenon DEF TypeOK
  <2>3. res[i] < BSZ => Len(infile) <= global_read_offset
    <3>1. /\ Len(infile) \in Nat /\ offset[i] \in Nat /\ global_read_offset \in Nat
          /\ BSZ \in Nat
      BY Zenon, <1>1, BytesAndPlaces, UringAssumption DEF TypeOK
    <3>2. Available(i) < BSZ => Len(infile) < offset[i] + BSZ
      BY Zenon, <1>1, AvailableBound
    <3> QED
      BY <1>2, <2>1, <3>1, <3>2
  <2>4. eof_reached' => Len(infile) <= global_read_offset
    BY Zenon, <1>1, <2>1, <2>3 DEF Phase
  <2>5. eof_reached => eof_reached'
    BY Zenon, <1>1
  <2>6. pc' = "loop"
    BY Zenon, <1>1
  <2> QED
    BY Zenon, <1>1, <2>1, <2>2, <2>4, <2>5, <2>6 DEF Phase
<1>8. ASSUME NEW j \in Requests PROVE Carries(j)'
  <2>1. CASE j = i
    <3>1. Available(i)' = Available(i) /\ stage'[i] = "inflight" /\ type'[i] = "OP_WRITE"
      BY <1>1, Zenon DEF Available, TypeOK
    <3>2. Available(i) > 0
      BY <1>2
    <3>3. buf'[i] = b
      BY Zenon, <1>1, <1>3 DEF TypeOK
    <3> QED
      BY Zenon, <1>1, <2>1, <3>1, <3>2, <3>3 DEF Carries
  <2>2. CASE j # i
    <3>1. \A x \in Places : Right(x) => Right(x)'
      BY Zenon, <1>1 DEF Right
    <3>2. /\ type'[j] = type[j] /\ offset'[j] = offset[j] /\ stage'[j] = stage[j]
          /\ buf'[j] = buf[j] /\ res'[j] = res[j]
      BY Zenon, <1>1, <2>2 DEF TypeOK
    <3> QED
      BY Zenon, <1>1, <3>1, <3>2, OthersCarry
  <2> QED
    BY Zenon, <2>1, <2>2
<1> QED
  BY Zenon, <1>4, <1>6, <1>7, <1>8 DEF IInv

(* A request that leaves the loop has nothing on it that is not yet right. *)
LEMMA LeaveIInv ==
  ASSUME IInv, NEW i \in Requests, pc = "loop", stage[i] # "idle", eof_reached',
         Len(infile) <= global_read_offset,
         \A x \in Places : x \in (offset[i] + 1)..(offset[i] + BSZ) => Right(x),
         stage' = [stage EXCEPT ![i] = "idle"],
         pending_operations' = pending_operations - 1,
         eof_reached' \in BOOLEAN,
         UNCHANGED <<infile, outfile, pc, started, global_read_offset, type, offset, buf, res>>
  PROVE  IInv'
<1>1. TypeOK /\ Busy' = Busy \ {i} /\ i \in Busy /\ Busy \in SUBSET Requests
  BY Zenon DEF IInv, Busy, TypeOK
<1>2. PendingIsInFlight' /\ pending_operations' \in Nat
  <2>1. pending_operations' = Cardinality(Busy')
    BY Zenon, <1>1, BusyCount DEF IInv, PendingIsInFlight
  <2>2. Busy' \in SUBSET Requests
    BY Zenon, <1>1
  <2> QED
    BY Zenon, <2>1, <2>2, BusyCount DEF PendingIsInFlight
<1>3. TypeOK'
  <2>1. stage' \in [Requests -> {"idle", "inflight", "complete"}]
    BY Zenon, <1>1 DEF TypeOK
  <2> QED
    BY Zenon, <1>1, <1>2, <2>1 DEF TypeOK, Places
<1>4. NoByteLost'
  <2> SUFFICES ASSUME NEW x \in Places, x <= global_read_offset
               PROVE  Right(x) \/ \E j \in Busy' : x \in (offset[j] + 1)..(offset[j] + BSZ)
    BY Zenon DEF NoByteLost, Right, Places
  <2>1. Right(x) \/ \E j \in Busy : x \in (offset[j] + 1)..(offset[j] + BSZ)
    BY Zenon DEF IInv, NoByteLost, Right
  <2> QED
    BY Zenon, <1>1, <2>1
<1>5. Phase'
  <2>1. \A j \in Requests : stage'[j] # "idle" => stage[j] # "idle"
    BY Zenon, <1>1 DEF TypeOK
  <2> QED
    BY Zenon, <2>1 DEF IInv, Phase
<1>6. ASSUME NEW j \in Requests PROVE Carries(j)'
  <2>1. CASE j = i
    BY Zenon, <1>1, <2>1 DEF Carries, TypeOK
  <2>2. CASE j # i
    <3>1. \A x \in Places : Right(x) => Right(x)'
      BY Zenon DEF Right
    <3>2. stage'[j] = stage[j]
      BY Zenon, <1>1, <2>2 DEF TypeOK
    <3> QED
      BY Zenon, <3>1, <3>2, OthersCarry
  <2> QED
    BY Zenon, <2>1, <2>2
<1> QED
  BY Zenon, <1>2, <1>3, <1>4, <1>5, <1>6 DEF IInv

(* main seeing the end of the file in one request, others being under way, *)
(* preserves it.                                                           *)
LEMMA HandleEofIInv ==
  ASSUME IInv, NEW i \in Requests, handle_eof(i)
  PROVE  IInv'
<1>1. /\ TypeOK /\ pc = "loop" /\ stage[i] = "complete" /\ type[i] = "OP_READ" /\ res[i] = 0
      /\ eof_reached' = TRUE
      /\ stage' = [stage EXCEPT ![i] = "idle"]
      /\ pending_operations' = pending_operations - 1
      /\ UNCHANGED <<infile, outfile, pc, started, global_read_offset, type, offset, buf, res>>
  BY Zenon DEF IInv, handle_eof, Seen
<1>2. 0 = Available(i) /\ offset[i] + BSZ <= global_read_offset
  <2>1. res[i] >= 0
    BY <1>1
  <2> QED
    BY Zenon, <1>1, <2>1 DEF IInv, Carries, Phase
<1>3. /\ Len(infile) \in Nat /\ offset[i] \in Nat /\ global_read_offset \in Nat
      /\ BSZ \in Nat \ {0}
  BY Zenon, <1>1, BytesAndPlaces, UringAssumption DEF TypeOK
<1>4. /\ \A x \in Places : x \in (offset[i] + 1)..(offset[i] + BSZ) =>
                             x \in (offset[i] + 1)..(offset[i] + Available(i))
      /\ Available(i) < BSZ => Len(infile) < offset[i] + BSZ
  BY Zenon, <1>1, AvailableBound
<1>5. Len(infile) <= global_read_offset
  BY <1>2, <1>3, <1>4
<1>6. (offset[i] + 1)..(offset[i] + Available(i)) = {}
  BY <1>2, <1>3
<1>7. stage[i] # "idle"
  BY <1>1, Zenon
<1> QED
  BY Zenon, <1>1, <1>4, <1>5, <1>6, <1>7, LeaveIInv

(* A request that goes on to the next block leaves a block that is right.  *)
LEMMA NextBlockIInv ==
  ASSUME IInv, NEW i \in Requests, pc = "loop", stage[i] # "idle", ~eof_reached,
         \A x \in Places : x \in (offset[i] + 1)..(offset[i] + BSZ) => Right(x),
         type' = [type EXCEPT ![i] = "OP_READ"],
         offset' = [offset EXCEPT ![i] = global_read_offset],
         global_read_offset' = global_read_offset + BSZ,
         stage' = [stage EXCEPT ![i] = "inflight"],
         pending_operations' = (pending_operations - 1) + 1,
         UNCHANGED <<infile, outfile, pc, started, eof_reached, buf, res>>
  PROVE  IInv'
<1>1. TypeOK
  BY Zenon DEF IInv
<1>2. /\ BSZ \in Nat \ {0} /\ global_read_offset \in Nat /\ global_read_offset' \in Nat
      /\ Len(infile) \in Nat /\ pending_operations' = pending_operations
  BY <1>1, BytesAndPlaces, UringAssumption DEF TypeOK
<1>3. Busy' = Busy /\ i \in Busy /\ Busy \in SUBSET Requests
  BY <1>1, Zenon DEF Busy, TypeOK
<1>4. TypeOK'
  <2>1. /\ stage' \in [Requests -> {"idle", "inflight", "complete"}]
        /\ type' \in [Requests -> {"OP_READ", "OP_WRITE"}]
        /\ offset' \in [Requests -> Nat]
    BY Zenon, <1>1, <1>2 DEF TypeOK
  <2> QED
    BY Zenon, <1>1, <1>2, <2>1 DEF TypeOK, Places
<1>5. PendingIsInFlight'
  BY Zenon, <1>2, <1>3, BusyUnchanged DEF IInv
<1>6. \A j \in Requests : offset'[j] = IF j = i THEN global_read_offset ELSE offset[j]
  BY Zenon, <1>1 DEF TypeOK
<1>7. NoByteLost'
  <2> SUFFICES ASSUME NEW x \in Places, x <= global_read_offset + BSZ
               PROVE  Right(x) \/ \E j \in Busy : x \in (offset'[j] + 1)..(offset'[j] + BSZ)
    BY Zenon, <1>3 DEF NoByteLost, Right, Places
  <2>1. CASE x <= global_read_offset
    <3>1. Right(x) \/ \E j \in Busy : x \in (offset[j] + 1)..(offset[j] + BSZ)
      BY Zenon, <2>1 DEF IInv, NoByteLost, Right
    <3> QED
      BY Zenon, <1>3, <1>6, <3>1
  <2>2. CASE ~(x <= global_read_offset)
    <3>1. x \in (global_read_offset + 1)..(global_read_offset + BSZ)
      BY <1>2, <2>2 DEF Places
    <3> QED
      BY Zenon, <1>3, <1>6, <3>1
  <2> QED
    BY Zenon, <2>1, <2>2
<1>8. Phase'
  <2>1. ASSUME NEW j \in Requests, stage'[j] # "idle"
        PROVE  offset'[j] + BSZ <= global_read_offset'
    <3>1. CASE j = i
      BY <1>2, <1>6, <3>1
    <3>2. CASE j # i
      <4>1. offset[j] + BSZ <= global_read_offset /\ offset'[j] = offset[j]
        BY Zenon, <1>1, <1>6, <2>1, <3>2 DEF IInv, Phase, TypeOK
      <4>2. offset[j] \in Nat
        BY Zenon, <1>1 DEF TypeOK
      <4> QED
        BY <1>2, <4>1, <4>2
    <3> QED
      BY Zenon, <3>1, <3>2
  <2>2. \A j \in Requests : stage'[j] = "idle" => stage[j] = "idle"
    BY <1>1, Zenon DEF TypeOK
  <2> QED
    BY Zenon, <2>1, <2>2 DEF IInv, Phase
<1>9. ASSUME NEW j \in Requests PROVE Carries(j)'
  <2>1. CASE j = i
    BY <1>1, <2>1, Zenon DEF Carries, TypeOK
  <2>2. CASE j # i
    <3>1. \A x \in Places : Right(x) => Right(x)'
      BY Zenon DEF Right
    <3>2. type'[j] = type[j] /\ offset'[j] = offset[j] /\ stage'[j] = stage[j]
      BY Zenon, <1>1, <2>2 DEF TypeOK
    <3> QED
      BY Zenon, <3>1, <3>2, OthersCarry
  <2> QED
    BY Zenon, <2>1, <2>2
<1> QED
  BY Zenon, <1>4, <1>5, <1>7, <1>8, <1>9 DEF IInv

(* main turning a completed write into the next read preserves it.         *)
LEMMA HandleWriteIInv ==
  ASSUME IInv, NEW i \in Requests, handle_write(i)
  PROVE  IInv'
<1>1. /\ TypeOK /\ pc = "loop" /\ stage[i] = "complete" /\ type[i] = "OP_WRITE"
      /\ res[i] = Len(buf[i])
      /\ queue_read(i, pending_operations - 1)
      /\ UNCHANGED <<infile, outfile, pc, started, eof_reached, buf, res>>
  BY Zenon DEF IInv, handle_write, Seen
<1>2. stage[i] # "idle"
  BY <1>1, Zenon
<1>3. \A x \in Places : x \in (offset[i] + 1)..(offset[i] + BSZ) => Right(x)
  BY Zenon, <1>1, AvailableBound DEF IInv, Carries
<1>4. CASE eof_reached
  <2>1. Len(infile) <= global_read_offset
    BY Zenon, <1>4 DEF IInv, Phase
  <2> QED
    BY Zenon, <1>1, <1>2, <1>3, <1>4, <2>1, LeaveIInv DEF queue_read, TypeOK
<1>5. CASE ~eof_reached
  BY Zenon, <1>1, <1>2, <1>3, <1>5, NextBlockIInv DEF queue_read
<1> QED
  BY Zenon, <1>4, <1>5

(* main giving up on an operation that failed preserves it.                *)
LEMMA HandleFailureIInv ==
  ASSUME IInv, NEW i \in Requests, handle_failure(i)
  PROVE  IInv'
<1>1. /\ pc' = "failed"
      /\ UNCHANGED <<infile, outfile, started, global_read_offset, pending_operations,
                     eof_reached, type, offset, buf, stage, res>>
  BY Zenon DEF handle_failure, reqVars
<1>2. TypeOK' /\ PendingIsInFlight' /\ NoByteLost' /\ Phase'
  BY <1>1, Zenon DEF IInv, TypeOK, PendingIsInFlight, Busy, NoByteLost, Phase, Places
<1>3. ASSUME NEW j \in Requests PROVE Carries(j)'
  BY Zenon, <1>1, OthersCarry DEF Right
<1> QED
  BY Zenon, <1>2, <1>3 DEF IInv

(* The loop ends when nothing is pending: then every request has left it,  *)
(* the end of file was seen, and no byte is lost.                          *)
LEMMA ExitIInv ==
  ASSUME IInv, exit
  PROVE  IInv' /\ \A x \in Places : Right(x)
<1>1. /\ pc = "loop" /\ pending_operations = 0 /\ pc' = "done" /\ TypeOK
      /\ UNCHANGED <<infile, outfile, started, global_read_offset, pending_operations,
                     eof_reached, type, offset, buf, stage, res>>
  BY Zenon DEF exit, reqVars, IInv
<1>2. Busy = {}
  <2>1. Busy \in SUBSET Requests /\ Cardinality(Busy) = 0
    BY Zenon, <1>1 DEF Busy, IInv, PendingIsInFlight
  <2> QED
    BY Zenon, <2>1, BusyCount
<1>3. 1 \in Requests
  BY UringAssumption DEF Requests
<1>4. Len(infile) <= global_read_offset
  BY Zenon, <1>1, <1>2, <1>3 DEF IInv, Phase, Busy
<1>5. ASSUME NEW x \in Places PROVE Right(x)
  <2>1. x <= global_read_offset
    BY <1>1, <1>4, BytesAndPlaces DEF Places, TypeOK
  <2> QED
    BY Zenon, <1>1, <1>2, <2>1 DEF IInv, NoByteLost, Right
<1>6. TypeOK' /\ PendingIsInFlight' /\ NoByteLost' /\ Busy' = {}
  BY <1>1, <1>2, Zenon DEF IInv, TypeOK, PendingIsInFlight, Busy, NoByteLost, Places
<1>7. Phase'
  <2>1. \A x \in Places' : Right(x)'
    BY Zenon, <1>1, <1>5 DEF Right, Places
  <2>2. pc' = "done" /\ ~("done" \in {"init", "queue", "loop"})
    BY <1>1, Zenon
  <2> QED
    BY Zenon, <1>1, <1>6, <2>1, <2>2 DEF IInv, Phase
<1>8. ASSUME NEW j \in Requests PROVE Carries(j)'
  BY Zenon, <1>1, OthersCarry DEF Right
<1> QED
  BY Zenon, <1>5, <1>6, <1>7, <1>8 DEF IInv

-----------------------------------------------------------------------------
(* Every step of the program and of the kernel preserves the inductive     *)
(* invariant.                                                              *)
LEMMA NextIInv == IInv /\ [Next]_vars => IInv'
<1> SUFFICES ASSUME IInv, [Next]_vars PROVE IInv'
  BY Zenon
<1>1. CASE io_uring_queue_init
  BY Zenon, <1>1, QueueInitIInv
<1>2. CASE start
  BY Zenon, <1>2, StartIInv
<1>3. CASE exit
  BY Zenon, <1>3, ExitIInv
<1>4. ASSUME NEW i \in Requests,
             handle_read(i) \/ handle_eof(i) \/ handle_write(i) \/ handle_failure(i)
      PROVE  IInv'
  BY Zenon, <1>4, HandleReadIInv, HandleEofIInv, HandleWriteIInv, HandleFailureIInv
<1>5. ASSUME NEW i \in Requests, Complete(i) PROVE IInv'
  <2>1. complete_read(i) \/ complete_write(i)
    BY Zenon, <1>5 DEF Complete
  <2> QED
    BY Zenon, <1>5, <2>1, CompleteReadIInv, CompleteWriteIInv
<1>6. CASE UNCHANGED vars
  BY <1>6
      DEF vars, reqVars, IInv, TypeOK, PendingIsInFlight, Busy, NoByteLost, Phase,
      Places,
              Carries, Right, Available
<1> QED
  BY Zenon, <1>1, <1>2, <1>3, <1>4, <1>5, <1>6 DEF Next, main

(* For every input file, block size and queue depth the converter keeps its*)
(* types, its counter of pending operations and every byte it handed out.  *)
THEOREM UringInvariance == Spec => [](TypeOK /\ PendingIsInFlight /\ NoByteLost)
<1>1. IInv => TypeOK /\ PendingIsInFlight /\ NoByteLost
  BY Zenon DEF IInv
<1> QED
  BY InitIInv, NextIInv, <1>1, PTL DEF Spec

(* Whatever the order of the completions, an output file that the program  *)
(* ended normally on decodes to the input file.                            *)
THEOREM OutputDecodes == Spec => []DecodesToInput
<1>1. IInv => DecodesToInput
  <2> SUFFICES ASSUME IInv, pc = "done"
               PROVE  infile = [x \in Places |-> translate(outfile[x])]
    BY Zenon DEF DecodesToInput
  <2>1. infile \in Seq(0..255) /\ \A x \in Places : infile[x] \in 0..255
    BY Zenon, BytesAndPlaces DEF IInv
  <2>2. infile = [x \in Places |-> infile[x]]
    BY <2>1 DEF Places
  <2>3. \A x \in Places : translate(outfile[x]) = infile[x]
    BY ZenonT(30), <2>1, TranslateInverts DEF IInv, Phase, Right
  <2> QED
    BY <2>2, <2>3, Zenon
<1> QED
  BY InitIInv, NextIInv, <1>1, PTL DEF Spec

(* What the run of both converters checks of the ring, for every input,    *)
(* block size and queue depth: the loop of main (14/8:86-120) counts its   *)
(* requests, drops no block and leaves a file that decodes to the input.   *)
THEOREM UringSafety == Spec => []UringSafe
  BY UringInvariance, OutputDecodes, PTL DEF UringSafe

(* A step of the ring is a step of the abstract converter.                 *)
LEMMA StepRefines ==
  IInv /\ [Next]_vars => [R!AWrite \/ R!AFinish]_<<infile, outfile, finished>>
<1> SUFFICES ASSUME IInv, [Next]_vars
             PROVE  [R!AWrite \/ R!AFinish]_<<infile, outfile, finished>>
  BY Zenon
<1>1. ASSUME UNCHANGED <<infile, outfile>>, pc' = pc \/ (pc # "done" /\ pc' # "done")
      PROVE  UNCHANGED <<infile, outfile, finished>>
  BY <1>1, Zenon DEF finished
<1>2. CASE io_uring_queue_init \/ UNCHANGED vars
  BY <1>1, <1>2, Zenon DEF io_uring_queue_init, vars
<1>3. CASE start
  <2>1. pc = "queue" /\ pc' \in {"queue", "loop"} /\ UNCHANGED <<infile, outfile>>
    BY <1>3, Zenon DEF start
  <2> QED
    BY <1>1, <2>1, Zenon
<1>4. CASE exit
  <2>1. \A x \in Places : Right(x)
    BY Zenon, <1>4, ExitIInv
  <2>2. finished' = TRUE /\ UNCHANGED <<infile, outfile>>
    BY <1>4, Zenon DEF exit, finished
  <2> QED
    BY Zenon, <2>1, <2>2 DEF R!AFinish, Right, Places, R!Places, translate
<1>5. ASSUME NEW i \in Requests,
             handle_read(i) \/ handle_eof(i) \/ handle_write(i) \/ handle_failure(i)
      PROVE  UNCHANGED <<infile, outfile, finished>>
  <2>1. UNCHANGED <<infile, outfile>> /\ pc = "loop" /\ pc' \in {"loop", "failed"}
    BY <1>5, Zenon DEF handle_read, handle_eof, handle_write, handle_failure, Seen
  <2> QED
    BY <1>1, <2>1, Zenon
<1>6. ASSUME NEW i \in Requests, Complete(i), complete_read(i)
      PROVE  UNCHANGED <<infile, outfile, finished>>
  BY <1>1, <1>6, Zenon DEF Complete, complete_read
<1>7. ASSUME NEW i \in Requests, Complete(i), complete_write(i)
      PROVE  R!AWrite
  <2>1. /\ stage[i] = "inflight" /\ type[i] = "OP_WRITE" /\ UNCHANGED infile /\ pc' = pc
    BY Zenon, <1>7 DEF Complete, complete_write
  <2>2. PICK n \in 0..Len(buf[i]) :
          outfile' = [x \in Places |-> IF x \in (offset[i] + 1)..(offset[i] + n)
                                       THEN buf[i][x - offset[i]] ELSE outfile[x]]
    BY Zenon, <1>7 DEF complete_write
  <2>3. \A x \in Places : x \in (offset[i] + 1)..(offset[i] + n) => Right(x)'
    BY Zenon, <2>1, <2>2, WritePutsRight
  <2> DEFINE T == {x \in Places : x \in (offset[i] + 1)..(offset[i] + n)}
  <2>4. outfile' = [x \in Places |-> IF x \in T THEN translate(infile[x]) ELSE outfile[x]]
    <3>1. \A x \in Places : outfile'[x] = IF x \in T THEN translate(infile[x]) ELSE outfile[x]
      BY Zenon, <2>1, <2>2, <2>3 DEF Right
    <3>2. outfile' = [x \in Places |-> outfile'[x]]
      BY Zenon, <2>2
    <3> QED
      BY Zenon, <3>1, <3>2
  <2>5. T \in SUBSET R!Places /\ R!Put(T)
    BY Zenon, <2>4 DEF R!Put, R!Places, Places, translate
  <2>6. ~finished /\ UNCHANGED finished
    <3>1. pc # "done"
      BY <2>1, Zenon DEF IInv, Phase, Busy
    <3> QED
      BY <2>1, <3>1, Zenon DEF finished
  <2> HIDE DEF T
  <2> QED
    BY Zenon, <2>1, <2>5, <2>6 DEF R!AWrite
<1> QED
  BY Zenon, <1>2, <1>3, <1>4, <1>5, <1>6, <1>7 DEF Next, main, Complete

(* The ring of requests implements the promise of both converters, for     *)
(* every input file, block size and queue depth.                           *)
THEOREM UringImplementsRot13 == Spec => ImplementsRot13
<1>1. Init => R!AInit
  BY Zenon DEF Init, R!AInit, finished, Places, R!Places
<1> QED
  BY <1>1, InitIInv, NextIInv, StepRefines, PTL DEF Spec, ImplementsRot13, R!ASpec

-----------------------------------------------------------------------------
(* 14/7, and then 14/8 on the same input.                                  *)
BothSpec == InitBoth /\ [][NextBoth]_bothVars

(* The output holds the translation of all that was written, which is all  *)
(* that was read but for what is left of the block.                        *)
InOrder ==
  /\ at \in {"read", "done"} => ooff = ioff
  /\ at = "write" =>
       /\ Len(block) \in 1..ioff /\ nleft \in 1..Len(block) /\ ooff = ioff - nleft
       /\ \A k \in 1..Len(block) : block[k] = S!translate(infile[ioff - Len(block) + k])
  /\ \A x \in 1..ooff : copy[x] = S!translate(infile[x])

SInv ==
  /\ infile \in Seq(S!Byte)
  /\ at \in {"read", "write", "done", "failed"}
  /\ ioff \in 0..Len(infile) /\ ooff \in Nat /\ cut \in BOOLEAN
  /\ copied = (at = "done")
  /\ ~cut => InOrder

-----------------------------------------------------------------------------
(* A read hands out the next bytes of the input, translated.               *)
LEMMA ReadKeeps ==
  ASSUME BSZ \in Nat \ {0}, SInv, S!read
  PROVE  SInv'
<1>1. Len(infile) \in Nat /\ ioff \in Nat /\ ooff \in Nat /\ infile' = infile
  BY DEF SInv, S!read
<1>2. CASE at' = "write"
  <2> DEFINE n == IF S!Rest < BSZ THEN S!Rest ELSE BSZ
             b == [k \in 1..n |-> S!translate(infile[ioff + k])]
  <2>1. /\ at = "read" /\ S!Rest > 0
        /\ block' = b /\ nleft' = n /\ ioff' = ioff + n
        /\ UNCHANGED <<copied, cut, copy, ooff>>
    BY <1>2, Zenon DEF S!read
  <2>2. n \in 1..S!Rest /\ ioff + n \in 0..Len(infile) /\ n \in Nat
    BY <1>1, <2>1 DEF S!Rest
  <2> HIDE DEF n
  <2>3. Len(b) = n
    BY <2>2
  <2>4. ASSUME ~cut PROVE InOrder'
    <3>1. InOrder /\ ooff = ioff
      BY <2>1, <2>4, Zenon DEF SInv, InOrder
    <3>2. Len(block') \in 1..ioff' /\ nleft' \in 1..Len(block') /\ ooff' = ioff' - nleft'
      BY SMTT(30), <1>1, <2>1, <2>2, <2>3, <3>1
    <3>3. \A k \in 1..Len(block') : block'[k] = S!translate(infile'[ioff' - Len(block') + k])
      <4>1. \A k \in 1..n : b[k] = S!translate(infile[ioff + k])
        BY Zenon
      <4>2. ioff' - Len(block') = ioff
        BY <1>1, <2>1, <2>2, <2>3
      <4> QED
        BY <1>1, <2>1, <2>3, <4>1, <4>2, Zenon
    <3>4. \A x \in 1..ooff' : copy'[x] = S!translate(infile'[x])
      BY <1>1, <2>1, <3>1, Zenon DEF InOrder
    <3> HIDE DEF b
    <3>5. at' \notin {"read", "done"}
      BY <1>2, Zenon
    <3> QED
      BY <3>2, <3>3, <3>4, <3>5, Zenon DEF InOrder
  <2> QED
    BY <1>1, <1>2, <2>1, <2>2, <2>4, Zenon DEF SInv
<1>3. CASE at' # "write"
  <2>1. /\ at = "read" /\ at' = "done" /\ copied' = TRUE
        /\ cut' = (cut \/ S!Rest > 0)
        /\ UNCHANGED <<infile, copy, ioff, ooff>>
    BY <1>3, Zenon DEF S!read
  <2>2. cut \in BOOLEAN /\ cut' \in BOOLEAN /\ (~cut' => ~cut)
    BY <2>1, Zenon DEF SInv
  <2>3. ASSUME ~cut' PROVE InOrder'
    <3>1. InOrder
      BY <2>2, <2>3, Zenon DEF SInv
    <3> QED
      BY <2>1, <3>1, Zenon DEF InOrder
  <2> QED
    BY <2>1, <2>2, <2>3, Zenon DEF SInv
<1> QED
  BY <1>2, <1>3, Zenon

(* What write has taken stands at its place in the output.                 *)
LEMMA WriteRight ==
  ASSUME SInv, ~cut, at = "write", NEW n \in 1..nleft,
         copy' = [x \in S!Places |-> IF x \in (ooff + 1)..(ooff + n)
                                      THEN block[x - ooff + Len(block) - nleft] ELSE copy[x]]
  PROVE  /\ (ooff + 1)..(ooff + n) \subseteq S!Places
         /\ copy' = [x \in S!Places |-> IF x \in (ooff + 1)..(ooff + n)
                                         THEN S!translate(infile[x]) ELSE copy[x]]
         /\ \A x \in 1..(ooff + n) : copy'[x] = S!translate(infile[x])
<1>1. /\ Len(infile) \in Nat /\ ioff \in 0..Len(infile) /\ ooff \in Nat
      /\ Len(block) \in 1..ioff /\ nleft \in 1..Len(block) /\ ooff = ioff - nleft
      /\ \A k \in 1..Len(block) : block[k] = S!translate(infile[ioff - Len(block) + k])
      /\ \A x \in 1..ooff : copy[x] = S!translate(infile[x])
  BY DEF SInv, InOrder
<1>2. (ooff + 1)..(ooff + n) \subseteq S!Places /\ 1..(ooff + n) \subseteq S!Places
  <2>1. Len(infile) \in Nat /\ ooff \in Nat /\ n \in Nat /\ ooff + n <= Len(infile)
    BY <1>1
  <2> QED
    BY ONLY <2>1 DEF S!Places
<1>3. ASSUME NEW x \in (ooff + 1)..(ooff + n)
      PROVE  block[x - ooff + Len(block) - nleft] = S!translate(infile[x])
  <2> DEFINE k == x - ooff + Len(block) - nleft
  <2>1. k \in 1..Len(block) /\ ioff - Len(block) + k = x
    BY <1>1
  <2> HIDE DEF k
  <2>2. block[k] = S!translate(infile[x])
    BY <1>1, <2>1, Zenon
  <2> QED
    BY <2>2, Zenon DEF k
<1>4. copy' = [x \in S!Places |-> IF x \in (ooff + 1)..(ooff + n)
                                   THEN S!translate(infile[x]) ELSE copy[x]]
  BY <1>3, Zenon
<1>5. ASSUME NEW x \in 1..(ooff + n)
      PROVE  copy'[x] = S!translate(infile[x])
  <2>1. x \in S!Places /\ (x \in (ooff + 1)..(ooff + n) \/ x \in 1..ooff)
    BY <1>1, <1>2
  <2> QED
    BY <1>1, <1>4, <2>1, Zenon
<1> QED
  BY <1>2, <1>4, <1>5, Zenon

(* writen writes on from where it stopped.                                 *)
LEMMA WriteKeeps ==
  ASSUME SInv, S!writen
  PROVE  SInv'
<1>1. ASSUME NEW n \in 1..nleft,
             copy' = [x \in S!Places |-> IF x \in (ooff + 1)..(ooff + n)
                                          THEN block[x - ooff + Len(block) - nleft] ELSE copy[x]],
             ooff' = ooff + n, nleft' = nleft - n,
             at' = IF n = nleft THEN "read" ELSE "write",
             UNCHANGED <<cut, infile, copied, ioff, block>>
      PROVE  SInv'
  <2>1. at = "write" /\ ooff \in Nat /\ ooff' \in Nat
    BY <1>1 DEF S!writen, SInv
  <2>2. ASSUME ~cut PROVE InOrder'
    <3>1. /\ Len(block) \in 1..ioff /\ nleft \in 1..Len(block) /\ ooff = ioff - nleft
          /\ ioff \in Nat
          /\ \A k \in 1..Len(block) : block[k] = S!translate(infile[ioff - Len(block) + k])
      BY SMTT(30), <2>1, <2>2 DEF SInv, InOrder
    <3>2. \A x \in 1..ooff' : copy'[x] = S!translate(infile'[x])
      BY <1>1, <2>1, <2>2, WriteRight, Zenon
    <3>3. at' = "read" => ooff' = ioff'
      BY <1>1, <3>1
    <3>4. at' = "write" => nleft' \in 1..Len(block') /\ ooff' = ioff' - nleft'
      BY <1>1, <3>1
    <3>5. Len(block') \in 1..ioff'
          /\ \A k \in 1..Len(block') : block'[k] = S!translate(infile'[ioff' - Len(block') + k])
      BY <1>1, <3>1, Zenon
    <3>6. at' # "done"
      BY <1>1, Zenon
    <3> QED
      BY <3>2, <3>3, <3>4, <3>5, <3>6, Zenon DEF InOrder
  <2>3. at' \in {"read", "write"}
    BY <1>1, Zenon
  <2> QED
    BY <1>1, <2>1, <2>2, <2>3, Zenon DEF SInv
<1>2. ASSUME at' = (IF nleft = Len(block) THEN "failed" ELSE "read"),
             cut' = (cut \/ nleft < Len(block)),
             UNCHANGED <<copy, ooff, nleft, infile, copied, ioff, block>>
      PROVE  SInv'
  <2>1. at = "write" /\ at' \in {"failed", "read"} /\ cut' \in BOOLEAN
    BY <1>2, Zenon DEF S!writen
  <2>2. ASSUME ~cut' PROVE InOrder'
    <3>1. ~cut /\ ~ (nleft < Len(block))
      BY <1>2, <2>2, Zenon
    <3>2. InOrder /\ nleft = Len(block)
      BY <2>1, <3>1 DEF SInv, InOrder
    <3>3. at' = "failed"
      BY <1>2, <3>2, Zenon
    <3> QED
      BY <1>2, <3>2, <3>3, Zenon DEF InOrder
  <2> QED
    BY <1>2, <2>1, <2>2, Zenon DEF SInv
<1> QED
  BY <1>1, <1>2, Zenon DEF S!writen

(* Each step writes bytes that are right, ends with all of them written,   *)
(* or has overlooked an error.                                             *)
LEMMA CopyRefines ==
  ASSUME SInv, S!SNext
  PROVE  [cut' \/ S!AWrite \/ S!AFinish]_<<infile, copy, copied>>
<1>1. CASE cut
  <2>1. cut' \/ UNCHANGED <<infile, copy, copied>>
    BY <1>1, Zenon DEF S!SNext, S!read, S!writen
  <2> QED
    BY <2>1, Zenon
<1>2. CASE ~cut /\ S!read
  <2>1. CASE UNCHANGED copied
    BY <1>2, <2>1, Zenon DEF S!read
  <2>2. CASE ~ UNCHANGED copied /\ ~cut'
    <3>1. /\ at = "read" /\ copied' = TRUE /\ cut' = (cut \/ S!Rest > 0)
          /\ UNCHANGED <<infile, copy>>
      BY <1>2, <2>2, Zenon DEF S!read
    <3>2. ~ (S!Rest > 0) /\ InOrder
      BY <1>2, <2>2, <3>1, Zenon DEF SInv
    <3>3. ooff = Len(infile)
      BY <3>1, <3>2 DEF SInv, InOrder, S!Rest
    <3> QED
      BY <3>1, <3>2, <3>3, Zenon DEF S!AFinish, InOrder, S!Places
  <2> QED
    BY <2>1, <2>2, Zenon
<1>3. CASE ~cut /\ S!writen
  <2>1. CASE copy' = copy
    BY <1>3, <2>1, Zenon DEF S!writen
  <2>2. CASE copy' # copy
    <3>1. at = "write" /\ UNCHANGED <<infile, copied>>
      BY <1>3, Zenon DEF S!writen
    <3>2. PICK n \in 1..nleft :
            copy' = [x \in S!Places |-> IF x \in (ooff + 1)..(ooff + n)
                                         THEN block[x - ooff + Len(block) - nleft] ELSE copy[x]]
      BY <1>3, <2>2, Zenon DEF S!writen
    <3>3. (ooff + 1)..(ooff + n) \subseteq S!Places /\ S!Put((ooff + 1)..(ooff + n))
      BY <1>3, <3>1, <3>2, WriteRight, Zenon DEF S!Put
    <3>4. ~copied
      BY <3>1, Zenon DEF SInv
    <3>5. S!AWrite
      BY <3>1, <3>3, <3>4, Zenon DEF S!AWrite
    <3> QED
      BY <3>5, Zenon
  <2> QED
    BY <2>1, <2>2, Zenon
<1> QED
  BY <1>1, <1>2, <1>3, Zenon DEF S!SNext

(* Neither converter writes its input.                                     *)
LEMMA InfileKept == Next => infile' = infile
BY Zenon DEF Next, main, io_uring_queue_init, start, exit, handle_read, handle_eof, handle_write,
             handle_failure, Complete

(* 14/7 runs first, and keeps its invariant while 14/8 runs.               *)
LEMMA InitCopy == InitBoth => SInv
<1> SUFFICES ASSUME S!SInit
             PROVE  SInv
  BY Zenon DEF InitBoth
<1>1. infile \in Seq(S!Byte) /\ 0 \in 0..Len(infile) /\ 0 \in Nat
  BY UringAssumption DEF S!SInit, S!AInit, S!Byte
<1>2. 1..0 = {}
  OBVIOUS
<1>3. InOrder
  BY <1>2, Zenon DEF S!SInit, InOrder
<1>4. copied = (at = "done")
  BY Zenon DEF S!SInit, S!AInit
<1> QED
  BY <1>1, <1>3, <1>4, Zenon DEF S!SInit, SInv

LEMMA NextCopy == SInv /\ [NextBoth]_bothVars => SInv'
<1>1. ASSUME SInv, infile' = infile, UNCHANGED copyVars PROVE SInv'
  BY <1>1, Zenon DEF copyVars, SInv, InOrder
<1>2. SInv /\ S!SNext => SInv'
  BY ReadKeeps, WriteKeeps, UringAssumption, Zenon DEF S!SNext
<1>3. second(Next) \/ UNCHANGED bothVars => infile' = infile /\ UNCHANGED copyVars
  BY InfileKept, Zenon DEF second, bothVars, vars
<1> QED
  BY <1>1, <1>2, <1>3, Zenon DEF NextBoth, first

(* The copy has a byte at each place, and all are right when 14/7 is done. *)
Covers ==
  /\ copy = [x \in Places |-> copy[x]]
  /\ copied /\ ~cut => \A x \in Places : copy[x] = S!translate(infile[x])

LEMMA InitCovers == InitBoth => Covers
BY Zenon DEF InitBoth, S!SInit, S!AInit, Covers, Places, S!Places

LEMMA NextCovers == SInv /\ Covers /\ [NextBoth]_bothVars => Covers'
<1>1. ASSUME Covers, infile' = infile, UNCHANGED copyVars PROVE Covers'
  BY <1>1, Zenon DEF Covers, copyVars, Places
<1>2. ASSUME SInv, Covers, S!SNext PROVE Covers'
  <2>0. cut \in BOOLEAN /\ (cut' = cut \/ cut' = (cut \/ S!Rest > 0) \/ cut' = (cut \/ nleft < Len(block)))
    BY <1>2, Zenon DEF SInv, S!SNext, S!read, S!writen
  <2>1. infile' = infile /\ Places' = Places /\ (cut => cut')
    <3>1. infile' = infile /\ Places' = Places
      BY <1>2, Zenon DEF S!SNext, S!read, S!writen, Places
    <3> QED
      BY <2>0, <3>1, Zenon
  <2>2. copy' = [x \in Places |-> copy'[x]]
    BY <1>2, Zenon DEF S!SNext, S!read, S!writen, Covers, Places, S!Places
  <2>3. ASSUME copied', ~cut' PROVE \A x \in Places : copy'[x] = S!translate(infile[x])
    <3>1. CASE UNCHANGED <<infile, copy, copied>>
      BY <1>2, <2>1, <2>3, <3>1, Zenon DEF Covers
    <3>2. CASE S!AFinish
      BY <3>2, Zenon DEF S!AFinish, Places, S!Places
    <3> QED
      BY <1>2, <2>3, <3>1, <3>2, CopyRefines, Zenon DEF S!AWrite
  <2> QED
    BY <2>1, <2>2, <2>3, Zenon DEF Covers
<1>3. second(Next) \/ UNCHANGED bothVars => infile' = infile /\ UNCHANGED copyVars
  BY InfileKept, Zenon DEF second, bothVars, vars
<1> QED
  BY <1>1, <1>2, <1>3, Zenon DEF NextBoth, first

(* 14/7 with writen (14/7:29-35, lib/apue_file.cpp:24-42) does what both   *)
(* converters promise, however write cuts the blocks up, until it takes a  *)
(* failed call for the end of the file or for success.                     *)
THEOREM SeqConverterRefines == BothSpec => SeqImplementsRot13
<1>1. SInv /\ [NextBoth]_bothVars
      => [cut' \/ S!AWrite \/ S!AFinish]_<<infile, copy, copied>>
  <2>1. second(Next) \/ UNCHANGED bothVars => UNCHANGED <<infile, copy, copied>>
    BY InfileKept, Zenon DEF second, bothVars, vars, copyVars
  <2> QED
    BY <2>1, CopyRefines, Zenon DEF NextBoth, first
<1>2. InitBoth => S!AInit
  BY Zenon DEF InitBoth, S!SInit
<1> QED
  BY <1>1, <1>2, InitCopy, NextCopy, PTL DEF BothSpec, SeqImplementsRot13, S!SeqImplementsRot13

(* Whatever the sizes of the blocks and the order of the completions, 14/7 *)
(* (14/7:29-35) and 14/8 (14/8:61-128) make the same file of the same      *)
(* input, unless 14/7 overlooked an error.                                 *)
THEOREM ConvertersAgree == BothSpec => []SameOutput
<1>1. InitBoth => IInv
  BY InitIInv, Zenon DEF InitBoth
<1>2. IInv /\ [NextBoth]_bothVars => IInv'
  <2>1. [NextBoth]_bothVars => [Next]_vars
    BY Zenon DEF NextBoth, first, second, bothVars
  <2> QED
    BY <2>1, NextIInv, Zenon
<1>3. IInv /\ SInv /\ Covers => SameOutput
  <2> SUFFICES ASSUME IInv, SInv, Covers, copied, ~cut, pc = "done"
               PROVE  copy = outfile
    BY Zenon DEF SameOutput
  <2>1. copy = [x \in Places |-> copy[x]] /\ outfile = [x \in Places |-> outfile[x]]
    BY Zenon DEF Covers, IInv, TypeOK
  <2>2. ASSUME NEW x \in Places PROVE copy[x] = outfile[x]
    <3>1. outfile[x] = translate(infile[x])
      BY <2>2, Zenon DEF IInv, Phase, Right
    <3>2. copy[x] = S!translate(infile[x])
      BY <2>2, Zenon DEF Covers
    <3> QED
      BY <3>1, <3>2 DEF translate, R!translate, S!translate, R!isalpha, S!isalpha
  <2> QED
    BY <2>1, <2>2, Zenon
<1> QED
  BY <1>1, <1>2, <1>3, InitCopy, NextCopy, InitCovers, NextCovers, PTL DEF BothSpec
=============================================================================
