----------------------------- MODULE Rot13Uring -----------------------------
(***************************************************************************)
(* 14/8_convert_rot13_io_uring.cpp: QUEUE_DEPTH requests in flight at a    *)
(* time, each alternating between a read of the next block of the input    *)
(* and the write of its translation.  The kernel completes them in any     *)
(* order, and so the end of file can be seen while earlier blocks are      *)
(* still on their way.  The queue never runs out of submission entries:    *)
(* each request has at most one, and all are submitted at once.            *)
(***************************************************************************)
EXTENDS Integers, Sequences, FiniteSets

CONSTANTS InFiles, BSZ, QUEUE_DEPTH

ASSUME UringAssumption ==
  BSZ \in Nat \ {0} /\ QUEUE_DEPTH \in Nat \ {0} /\ InFiles \subseteq Seq(0..255)

VARIABLES infile, outfile,
          pc,                  \* "init", "queue", "loop", "done", "failed", "undefined"
          started,             \* requests queued before the first submit
          global_read_offset, pending_operations, eof_reached,
          type, offset, buf,   \* the requests; iovec_len is the length of buf
          stage,               \* a request is "idle", "inflight" or "complete"
          res                  \* the result of a complete request

finished == pc = "done"

R == INSTANCE Rot13File

translate(c) == R!translate(c)
Places == 1..Len(infile)
Requests == 1..QUEUE_DEPTH

reqVars == <<type, offset, buf, stage, res>>
vars == <<infile, outfile, pc, started, global_read_offset, pending_operations, eof_reached,
          reqVars>>

Init ==
  /\ infile \in InFiles
  /\ outfile = [x \in Places |-> R!Hole]
  /\ pc = "init"
  /\ started = 0
  /\ global_read_offset = 0
  /\ pending_operations = 0
  /\ eof_reached = FALSE
  /\ type = [i \in Requests |-> "OP_READ"]
  /\ offset = [i \in Requests |-> 0]
  /\ buf = [i \in Requests |-> <<>>]
  /\ stage = [i \in Requests |-> "idle"]
  /\ res = [i \in Requests |-> 0]

(* If the first io_uring_queue_init fails the program goes on all the same *)
(* with a ring that is not initialised; otherwise it makes a second ring.  *)
io_uring_queue_init ==
  /\ pc = "init"
  /\ pc' \in {"queue", "failed", "undefined"}
  /\ UNCHANGED <<infile, outfile, started, global_read_offset, pending_operations, eof_reached,
                 reqVars>>

(* queue_read and queue_write when p operations are pending.               *)
queue_read_same_offset(i, p) ==
  IF eof_reached
  THEN /\ stage' = [stage EXCEPT ![i] = "idle"]
       /\ pending_operations' = p
       /\ UNCHANGED <<type, offset, global_read_offset>>
  ELSE /\ type' = [type EXCEPT ![i] = "OP_READ"]
       /\ offset' = [offset EXCEPT ![i] = @ + BSZ]
       /\ global_read_offset' = global_read_offset + BSZ
       /\ stage' = [stage EXCEPT ![i] = "inflight"]
       /\ pending_operations' = p + 1

queue_read(i, p) ==
  IF eof_reached
  THEN /\ stage' = [stage EXCEPT ![i] = "idle"]
       /\ pending_operations' = p
       /\ UNCHANGED <<type, offset, global_read_offset>>
  ELSE /\ type' = [type EXCEPT ![i] = "OP_READ"]
       /\ offset' = [offset EXCEPT ![i] = global_read_offset]
       /\ global_read_offset' = global_read_offset + BSZ
       /\ stage' = [stage EXCEPT ![i] = "inflight"]
       /\ pending_operations' = p + 1

queue_write(i, p) ==
  /\ type' = [type EXCEPT ![i] = "OP_WRITE"]
  /\ stage' = [stage EXCEPT ![i] = "inflight"]
  /\ pending_operations' = p + 1

(* The first reads are submitted together.                                 *)
start ==
  /\ pc = "queue"
  /\ started' = started + 1
  /\ queue_read(started + 1, pending_operations)
  /\ pc' = IF started + 1 = QUEUE_DEPTH THEN "loop" ELSE "queue"
  /\ UNCHANGED <<infile, outfile, eof_reached, buf, res>>

-----------------------------------------------------------------------------
(* The kernel completes request i, in whole or with an error (-1); a write *)
(* may also be short.  A read is short at the end of the file only.        *)
Available(i) == IF offset[i] >= Len(infile) THEN 0
                ELSE IF Len(infile) - offset[i] < BSZ THEN Len(infile) - offset[i]
                ELSE BSZ

complete_read(i) ==
  /\ type[i] = "OP_READ"
  /\ \/ /\ res' = [res EXCEPT ![i] = Available(i)]
        /\ buf' = [buf EXCEPT ![i] = [k \in 1..Available(i) |-> infile[offset[i] + k]]]
     \/ /\ res' = [res EXCEPT ![i] = -1]
        /\ UNCHANGED buf
  /\ UNCHANGED outfile

complete_write(i) ==
  /\ type[i] = "OP_WRITE"
  /\ \E n \in 0..Len(buf[i]) :
       /\ res' = [res EXCEPT ![i] = IF n = 0 THEN -1 ELSE n]
       /\ outfile' = [x \in Places |-> IF x \in (offset[i] + 1)..(offset[i] + n)
                                       THEN buf[i][x - offset[i]] ELSE outfile[x]]
  /\ UNCHANGED buf

Complete(i) ==
  /\ pc # "queue"
  /\ stage[i] = "inflight"
  /\ stage' = [stage EXCEPT ![i] = "complete"]
  /\ complete_read(i) \/ complete_write(i)
  /\ UNCHANGED <<infile, pc, started, global_read_offset, pending_operations, eof_reached, type,
                 offset>>

-----------------------------------------------------------------------------
(* One turn of the loop, for the completion of request i.                  *)
Seen(i) == pc = "loop" /\ stage[i] = "complete"

handle_read_le(i) ==
  /\ Seen(i) /\ type[i] = "OP_READ" /\ res[i] > 0
  /\ eof_reached' = (eof_reached \/ res[i] <= BSZ)
  /\ buf' = [buf EXCEPT ![i] = [k \in 1..res[i] |-> translate(@[k])]]
  /\ queue_write(i, pending_operations - 1)
  /\ UNCHANGED <<infile, outfile, pc, started, global_read_offset, offset, res>>

handle_read(i) ==
  /\ Seen(i) /\ type[i] = "OP_READ" /\ res[i] > 0
  /\ eof_reached' = (eof_reached \/ res[i] < BSZ)
  /\ buf' = [buf EXCEPT ![i] = [k \in 1..res[i] |-> translate(@[k])]]
  /\ queue_write(i, pending_operations - 1)
  /\ UNCHANGED <<infile, outfile, pc, started, global_read_offset, offset, res>>

handle_eof_keeps_count(i) ==
  /\ Seen(i) /\ type[i] = "OP_READ" /\ res[i] = 0
  /\ eof_reached' = TRUE
  /\ stage' = [stage EXCEPT ![i] = "idle"]
  /\ UNCHANGED <<infile, outfile, pc, started, pending_operations, global_read_offset, type, offset,
                 buf, res>>

handle_eof(i) ==
  /\ Seen(i) /\ type[i] = "OP_READ" /\ res[i] = 0
  /\ eof_reached' = TRUE
  /\ stage' = [stage EXCEPT ![i] = "idle"]
  /\ pending_operations' = pending_operations - 1
  /\ UNCHANGED <<infile, outfile, pc, started, global_read_offset, type, offset, buf, res>>

handle_write(i) ==
  /\ Seen(i) /\ type[i] = "OP_WRITE" /\ res[i] = Len(buf[i])
  /\ queue_read(i, pending_operations - 1)
  /\ UNCHANGED <<infile, outfile, pc, started, eof_reached, buf, res>>

(* err_exit on an error, err_quit on a short write.                        *)
handle_failure(i) ==
  /\ Seen(i) /\ (res[i] < 0 \/ (type[i] = "OP_WRITE" /\ res[i] # Len(buf[i])))
  /\ pc' = "failed"
  /\ UNCHANGED <<infile, outfile, started, global_read_offset, pending_operations, eof_reached,
                 reqVars>>

exit ==
  /\ pc = "loop" /\ pending_operations = 0
  /\ pc' = "done"
  /\ UNCHANGED <<infile, outfile, started, global_read_offset, pending_operations, eof_reached,
                 reqVars>>

main ==
  \/ io_uring_queue_init \/ start \/ exit
  \/ \E i \in Requests : handle_read(i) \/ handle_eof(i) \/ handle_write(i) \/ handle_failure(i)

Next == main \/ \E i \in Requests : Complete(i)

(* The kernel completes every request and the program's loop keeps running.*)
Spec == Init /\ [][Next]_vars /\ WF_vars(main) /\ \A i \in Requests : WF_vars(Complete(i))

-----------------------------------------------------------------------------
(* The requests, their buffers and offsets, the ring and the output file.  *)
TypeOK ==
  /\ infile \in InFiles
  /\ outfile \in [Places -> R!Byte]
  /\ pc \in {"init", "queue", "loop", "done", "failed", "undefined"}
  /\ started \in 0..QUEUE_DEPTH
  /\ global_read_offset \in Nat
  /\ pending_operations \in Nat
  /\ eof_reached \in BOOLEAN
  /\ type \in [Requests -> {"OP_READ", "OP_WRITE"}]
  /\ offset \in [Requests -> Nat]
  /\ buf \in [Requests -> Seq(R!Byte)]
  /\ stage \in [Requests -> {"idle", "inflight", "complete"}]
  /\ res \in [Requests -> -1..BSZ]

Busy == {i \in Requests : stage[i] # "idle"}

(* The loop's counter is the number of requests under way, so that the     *)
(* loop neither ends early nor waits for a completion that cannot come.    *)
PendingIsInFlight == pending_operations = Cardinality(Busy)

(* A place of the input that was handed to a request is still with one, or *)
(* its translation is in the output: reaching the end of file early drops  *)
(* no block.                                                               *)
NoByteLost ==
  pc \in {"queue", "loop"} =>
    \A x \in Places :
      x <= global_read_offset =>
        \/ outfile[x] = translate(infile[x])
        \/ \E i \in Busy : x \in (offset[i] + 1)..(offset[i] + BSZ)

(* The converter does what both converters promise.                        *)
ImplementsRot13 == R!ASpec

(* ROT13 is its own inverse: translating the output of a run that ended    *)
(* normally gives the input back.                                          *)
DecodesToInput == pc = "done" => infile = [x \in Places |-> translate(outfile[x])]

(* The loop counts its requests, no block is dropped, and the output       *)
(* decodes to the input.                                                   *)
UringSafe == PendingIsInFlight /\ NoByteLost /\ DecodesToInput
=============================================================================
