---------------------------- MODULE MqueueRelay ----------------------------
(***************************************************************************)
(* 17/1_unix_socket_mqueue_read.cpp and its writers, 17/2: for every       *)
(* message queue a thread relays messages to a datagram socket, and main   *)
(* reads the sockets through one io_uring, with one buffer and one request *)
(* for each. A message is its number and its length; the text that main    *)
(* prints is the number and how many bytes of it were printed. When a      *)
(* system call of the reader fails the whole reader exits; what is left is *)
(* a read that completes with an error, which main reports and repeats.    *)
(***************************************************************************)
EXTENDS Integers, Sequences

CONSTANTS Queues, MAXMSZ,
          MaxMsg,     \* messages a queue holds (mq_maxmsg)
          SocketMax,  \* datagrams a socket holds
          MaxSent,    \* messages written to a queue in a behaviour
          MaxErrors   \* reads that fail in a behaviour

VARIABLES sent,     \* messages mq_send accepted
          mq,       \* contents of the message queues
          thr,      \* the message thr_fun holds, or none
          socket,   \* datagrams in the sockets
          reading,  \* a read request is in the ring
          buffers,  \* read_buffers
          cq,       \* completions: queue and result
          printed,
          errors

vars == <<sent, mq, thr, socket, reading, buffers, cq, printed, errors>>

Each(x) == [q \in Queues |-> x]

(* The threads run as soon as they are created, and main submits the first *)
(* requests after all of them.                                             *)
Init ==
  /\ sent = Each(<<>>) /\ mq = Each(<<>>) /\ thr = Each(<<>>)
  /\ socket = Each(<<>>) /\ reading = Each(FALSE) /\ buffers = Each(<<>>)
  /\ cq = <<>> /\ printed = Each(<<>>) /\ errors = 0

Started == \E q \in Queues : reading[q] \/ \E k \in DOMAIN cq : cq[k].q = q

(* A run of 17/2: mq_send refuses what is longer than the queue's messages *)
(* and waits while the queue is full.                                      *)
mq_send(q, n) ==
  /\ Len(sent[q]) < MaxSent
  /\ n <= MAXMSZ /\ Len(mq[q]) < MaxMsg
  /\ LET m == [id |-> Len(sent[q]) + 1, len |-> n]
     IN /\ sent' = [sent EXCEPT ![q] = Append(@, m)]
        /\ mq' = [mq EXCEPT ![q] = Append(@, m)]
  /\ UNCHANGED <<thr, socket, reading, buffers, cq, printed, errors>>
-----------------------------------------------------------------------------
mq_receive(q) ==
  /\ thr[q] = <<>> /\ mq[q] # <<>>
  /\ thr' = [thr EXCEPT ![q] = <<Head(mq[q])>>]
  /\ mq' = [mq EXCEPT ![q] = Tail(@)]
  /\ UNCHANGED <<sent, socket, reading, buffers, cq, printed, errors>>

(* writen calls write until nothing is left: never, for an empty message.  *)
thr_writen_forgets(q) ==
  /\ thr[q] # <<>>
  /\ socket' = IF thr[q][1].len > 0 /\ Len(socket[q]) < SocketMax
                 THEN [socket EXCEPT ![q] = @ \o thr[q]] ELSE socket
  /\ thr' = [thr EXCEPT ![q] = <<>>]
  /\ UNCHANGED <<sent, mq, reading, buffers, cq, printed, errors>>

thr_writen(q) ==
  /\ thr[q] # <<>>
  /\ \/ thr[q][1].len = 0 /\ UNCHANGED socket
     \/ /\ thr[q][1].len > 0 /\ Len(socket[q]) < SocketMax
        /\ socket' = [socket EXCEPT ![q] = @ \o thr[q]]
  /\ thr' = [thr EXCEPT ![q] = <<>>]
  /\ UNCHANGED <<sent, mq, reading, buffers, cq, printed, errors>>
-----------------------------------------------------------------------------
submit ==
  /\ ~Started
  /\ reading' = Each(TRUE)
  /\ UNCHANGED <<sent, mq, thr, socket, buffers, cq, printed, errors>>

complete_read_multishot(q) ==
  /\ reading[q] /\ socket[q] # <<>>
  /\ buffers' = [buffers EXCEPT ![q] = <<Head(socket[q])>>]
  /\ socket' = [socket EXCEPT ![q] = Tail(@)]
  /\ cq' = Append(cq, [q |-> q, res |-> Head(socket[q]).len])
  /\ UNCHANGED <<sent, mq, thr, reading, printed, errors>>

complete_read(q) ==
  /\ reading[q] /\ socket[q] # <<>>
  /\ buffers' = [buffers EXCEPT ![q] = <<Head(socket[q])>>]
  /\ socket' = [socket EXCEPT ![q] = Tail(@)]
  /\ cq' = Append(cq, [q |-> q, res |-> Head(socket[q]).len])
  /\ reading' = [reading EXCEPT ![q] = FALSE]
  /\ UNCHANGED <<sent, mq, thr, printed, errors>>

complete_error(q) ==
  /\ reading[q] /\ errors < MaxErrors
  /\ errors' = errors + 1
  /\ cq' = Append(cq, [q |-> q, res |-> -1])
  /\ reading' = [reading EXCEPT ![q] = FALSE]
  /\ UNCHANGED <<sent, mq, thr, socket, buffers, printed>>

Printed_short(n) == n - 1

(* What is printed of a message of n bytes: the last byte of one that      *)
(* fills the buffer makes way for the terminating 0.                       *)
Printed(n) == IF n < MAXMSZ THEN n ELSE MAXMSZ - 1

turn_error_forgets ==
  /\ cq # <<>>
  /\ LET q == Head(cq).q
         res == Head(cq).res
     IN /\ printed' = IF res > 0
                        THEN [printed EXCEPT ![q] =
                                Append(@, [id |-> buffers[q][1].id,
                                           len |-> Printed(res)])]
                        ELSE printed
        /\ buffers' = IF res > 0 THEN [buffers EXCEPT ![q] = <<>>] ELSE buffers
        /\ reading' = [reading EXCEPT ![q] = res > 0]
  /\ cq' = Tail(cq)
  /\ UNCHANGED <<sent, mq, thr, socket, errors>>

(* One turn of main's loop.                                                *)
turn ==
  /\ cq # <<>>
  /\ LET q == Head(cq).q
         res == Head(cq).res
     IN /\ printed' = IF res > 0
                        THEN [printed EXCEPT ![q] =
                                Append(@, [id |-> buffers[q][1].id,
                                           len |-> Printed(res)])]
                        ELSE printed
        /\ buffers' = IF res > 0 THEN [buffers EXCEPT ![q] = <<>>] ELSE buffers
        /\ reading' = [reading EXCEPT ![q] = TRUE]
  /\ cq' = Tail(cq)
  /\ UNCHANGED <<sent, mq, thr, socket, errors>>

thr_fun(q) == mq_receive(q) \/ thr_writen(q)

Next ==
  \/ submit \/ turn
  \/ \E q \in Queues : \/ \E n \in 0..MAXMSZ + 1 : mq_send(q, n)
                       \/ thr_fun(q) \/ complete_read(q) \/ complete_error(q)

(* The threads and main run, and the kernel completes a read when there is *)
(* something to read. Nobody has to write.                                 *)
Spec == /\ Init /\ [][Next]_vars /\ WF_vars(submit) /\ WF_vars(turn)
        /\ \A q \in Queues : WF_vars(thr_fun(q)) /\ WF_vars(complete_read(q))
-----------------------------------------------------------------------------
Ids(s) == {s[k].id : k \in DOMAIN s}
Ordered(s) == \A j, k \in DOMAIN s : j < k => s[j].id < s[k].id
Before(S, T) == \A i \in S, j \in T : i < j

(* A queue has one request at most, in the ring or completed: that is what *)
(* lets main reuse its buffer, and keeps the ring (RING_DEPTH) large       *)
(* enough.                                                                 *)
TypeOK ==
  /\ \A q \in Queues :
       /\ Len(mq[q]) <= MaxMsg /\ Len(socket[q]) <= SocketMax
       /\ Len(thr[q]) <= 1 /\ Len(buffers[q]) <= 1
       /\ \A j, k \in DOMAIN cq : cq[j].q = q /\ cq[k].q = q => j = k /\ ~reading[q]
  /\ errors \in 0..MaxErrors

(* Every message that a writer sent and that is not empty is printed or    *)
(* still under way, once, and the messages of a queue keep their order     *)
(* through the queue, the thread, the socket and the buffer (17/1:25-38).  *)
(* An empty one goes no further than the thread.                           *)
InOrder(written, out, buffer, datagrams, taken, queued) ==
  LET inQueue == Ids(queued)
      inThread == Ids(taken) \cup inQueue
      inSocket == Ids(datagrams) \cup inThread
      inBuffer == Ids(buffer) \cup inSocket
      all == Ids(out) \cup inBuffer
      visible == {n \in DOMAIN written : written[n].len > 0}
  IN /\ Ordered(out) /\ Before(Ids(out), inBuffer)
     /\ Ordered(buffer) /\ Before(Ids(buffer), inSocket)
     /\ Ordered(datagrams) /\ Before(Ids(datagrams), inThread)
     /\ Ordered(taken) /\ Before(Ids(taken), inQueue)
     /\ Ordered(queued)
     /\ visible \subseteq all /\ all \subseteq DOMAIN written
     /\ Ids(out) \cup Ids(buffer) \cup Ids(datagrams) \subseteq visible

RelayedInOrder ==
  \A q \in Queues : InOrder(sent[q], printed[q], buffers[q], socket[q], thr[q], mq[q])

(* What is printed is the whole message that was sent (17/1:87), or all    *)
(* but the last byte of one of the maximum size (17/1:90).                 *)
PrintedText ==
  \A q \in Queues : \A k \in DOMAIN printed[q] :
    LET n == sent[q][printed[q][k].id].len
    IN n - printed[q][k].len = (IF n = MAXMSZ THEN 1 ELSE 0)

(* Every message that is not empty is printed in the end: no queue starves *)
(* another, and no request is forgotten after an error (17/1:96).          *)
AllPrinted ==
  \A q \in Queues : \A k \in 1..MaxSent :
    Len(sent[q]) >= k /\ sent[q][k].len > 0
      ~> \E j \in DOMAIN printed[q] : printed[q][j].id = k

(* The relay is right: the messages arrive in order and as they were sent. *)
RelayedWhole == TypeOK /\ RelayedInOrder /\ PrintedText
=============================================================================
