------------------------------ MODULE FdDaemon ------------------------------
(***************************************************************************)
(* 17/5_unix_socket_transmit_fd_daemon_server.cpp and its client           *)
(* 17/4_unix_socket_transmit_fd_daemon_client.cpp.  The server opens files *)
(* for its clients from one event loop over an io_uring.                   *)
(*                                                                         *)
(* The server's descriptors are numbers, the lowest free one being taken,  *)
(* while a message carries the open file itself.  A request is small       *)
(* enough to arrive in one piece.  Any client may be killed at any time.   *)
(***************************************************************************)
EXTENDS UnixSocket

CONSTANTS Clients,
          OpenMax,      \* descriptors the server may have
          MaxFailures   \* accepts and waits that fail

VARIABLES wants, got,
          client,      \* "start", "connected", "asked", "finished", "killed"
          up, down,    \* per client: the stream to the server, and from it
          backlog,     \* connections the server has not accepted
          fds,         \* the server's descriptors: number -> client or file
          accepts,     \* accept requests in the ring
          reads,       \* numbers of descriptors with a read request
          cq,          \* the completion queue
          failures,
          server       \* "running", "dead" or, after return, "exited"

clientVars == <<wants, got, client>>
vars == <<clientVars, up, down, backlog, fds, accepts, reads, cq, failures, server>>

R == INSTANCE RemoteOpen

Numbers == 1..OpenMax
Free == "free"
Lowest(n) == fds[n] = Free /\ \A m \in Numbers : fds[m] = Free => n <= m

Open(c) == client[c] \in {"connected", "asked"}            \* the client's end
Served(c) ==                                               \* the server's end
  /\ server = "running"
  /\ (\E n \in Numbers : fds[n] = c) \/ (\E k \in DOMAIN backlog : backlog[k] = c)

Init ==
  /\ R!AInit
  /\ client = [c \in Clients |-> "start"]
  /\ up = [c \in Clients |-> <<>>] /\ down = [c \in Clients |-> <<>>]
  /\ backlog = <<>>
  /\ fds = [n \in Numbers |-> Free]
  /\ accepts = 1 /\ reads = {} /\ cq = <<>> /\ failures = 0
  /\ server = "running"

-----------------------------------------------------------------------------
(* The client's main.                                                      *)
serverVars == <<fds, accepts, reads, cq, failures, server>>

cli_conn(c) ==
  /\ client[c] = "start"
  /\ IF server = "running"
     THEN client' = [client EXCEPT ![c] = "connected"] /\ backlog' = Append(backlog, c)
     ELSE client' = [client EXCEPT ![c] = "killed"] /\ UNCHANGED backlog    \* err_sys
  /\ UNCHANGED <<wants, got, up, down, serverVars>>

send_request(c) ==
  /\ client[c] = "connected"
  /\ IF Served(c)
     THEN /\ client' = [client EXCEPT ![c] = "asked"]
          /\ \E path \in Paths : /\ wants' = [wants EXCEPT ![c] = path]
                                 /\ up' = [up EXCEPT ![c] = <<request(path)>>]
     ELSE client' = [client EXCEPT ![c] = "killed"] /\ UNCHANGED <<wants, up>>   \* SIGPIPE
  /\ UNCHANGED <<got, down, backlog, serverVars>>

recv(c) ==
  /\ client[c] = "asked"
  /\ \/ down[c] # <<>> /\ got' = [got EXCEPT ![c] = recv_fd(Head(down[c]))]
     \/ down[c] = <<>> /\ ~Served(c) /\ got' = [got EXCEPT ![c] = NoFd]
  /\ client' = [client EXCEPT ![c] = "finished"]
  /\ UNCHANGED <<wants, up, down, backlog, serverVars>>

kill(c) ==
  /\ client[c] \in {"start", "connected", "asked"}
  /\ client' = [client EXCEPT ![c] = "killed"]
  /\ UNCHANGED <<wants, got, up, down, backlog, serverVars>>

-----------------------------------------------------------------------------
(* The kernel's half of the server's ring.                                 *)
complete_accept ==
  /\ server = "running" /\ accepts > 0 /\ backlog # <<>>
  /\ accepts' = accepts - 1
  /\ \/ \E n \in Numbers :
          /\ Lowest(n)
          /\ fds' = [fds EXCEPT ![n] = Head(backlog)]
          /\ backlog' = Tail(backlog)
          /\ cq' = Append(cq, [type |-> "OP_ACCEPT", fd |-> n, res |-> n])
          /\ UNCHANGED failures
     \/ /\ failures < MaxFailures
        /\ failures' = failures + 1
        /\ cq' = Append(cq, [type |-> "OP_ACCEPT", fd |-> 0, res |-> -1])
        /\ UNCHANGED <<fds, backlog>>
  /\ UNCHANGED <<clientVars, up, down, reads, server>>

complete_read(n) ==
  /\ server = "running" /\ n \in reads
  /\ up[fds[n]] # <<>> \/ ~Open(fds[n])
  /\ reads' = reads \ {n}
  /\ cq' = Append(cq, [type |-> "OP_READ", fd |-> n, res |-> Len(up[fds[n]])])
  /\ UNCHANGED <<clientVars, up, down, backlog, fds, accepts, failures, server>>

(* The event loop: one turn for the completion at the head of the queue,   *)
(* up to the accept request that the next turn starts with.                *)
Completion(type) == server = "running" /\ cq # <<>> /\ Head(cq).type = type

accepted_only ==
  /\ Completion("OP_ACCEPT") /\ Head(cq).res >= 0
  /\ reads' = reads \cup {Head(cq).res}
  /\ cq' = Tail(cq)
  /\ UNCHANGED <<clientVars, up, down, backlog, fds, accepts, failures, server>>

accepted ==
  /\ Completion("OP_ACCEPT") /\ Head(cq).res >= 0
  /\ reads' = reads \cup {Head(cq).res}
  /\ accepts' = accepts + 2   \* one here, one in the next turn
  /\ cq' = Tail(cq)
  /\ UNCHANGED <<clientVars, up, down, backlog, fds, failures, server>>

accept_failed_no_retry ==
  /\ Completion("OP_ACCEPT") /\ Head(cq).res < 0
  /\ cq' = Tail(cq)
  /\ UNCHANGED <<clientVars, up, down, backlog, fds, accepts, reads, failures, server>>

accept_failed_quits ==
  /\ Completion("OP_ACCEPT") /\ Head(cq).res < 0
  /\ server' = "dead"
  /\ cq' = Tail(cq)
  /\ UNCHANGED <<clientVars, up, down, backlog, fds, accepts, reads, failures>>

accept_failed ==
  /\ Completion("OP_ACCEPT") /\ Head(cq).res < 0
  /\ accepts' = accepts + 1
  /\ cq' = Tail(cq)
  /\ UNCHANGED <<clientVars, up, down, backlog, fds, reads, failures, server>>

process_request_other_client(n) ==
  LET m == CHOOSE k \in Numbers : fds[k] # Free /\ \A j \in Numbers : fds[j] # Free => k <= j
  IN /\ fds' = [fds EXCEPT ![n] = Free]
     /\ \E t \in target(Head(up[fds[n]])) :
          down' = [down EXCEPT ![fds[m]] = <<send_fd(t.fd, t.status)>>]
     /\ UNCHANGED server

(* The file the server opened is closed again once it is sent.  A client   *)
(* that is gone makes sendmsg raise SIGPIPE, which nothing catches.        *)
process_request(n) ==
  /\ fds' = [fds EXCEPT ![n] = Free]
  /\ IF Open(fds[n])
     THEN /\ \E t \in target(Head(up[fds[n]])) :
               down' = [down EXCEPT ![fds[n]] = <<send_fd(t.fd, t.status)>>]
          /\ UNCHANGED server
     ELSE server' = "dead" /\ UNCHANGED down

handle_read_leaves_eof ==
  /\ Completion("OP_READ")
  /\ LET n == Head(cq).fd IN
     IF Head(cq).res > 0
     THEN process_request(n) /\ up' = [up EXCEPT ![fds[n]] = <<>>]
     ELSE UNCHANGED <<fds, up, down, server>>
  /\ accepts' = accepts + 1
  /\ cq' = Tail(cq)
  /\ UNCHANGED <<clientVars, backlog, reads, failures>>

handle_read ==
  /\ Completion("OP_READ")
  /\ LET n == Head(cq).fd IN
     IF Head(cq).res > 0
     THEN process_request(n) /\ up' = [up EXCEPT ![fds[n]] = <<>>]
     ELSE fds' = [fds EXCEPT ![n] = Free] /\ UNCHANGED <<up, down, server>>
  /\ accepts' = accepts + 1
  /\ cq' = Tail(cq)
  /\ UNCHANGED <<clientVars, backlog, reads, failures>>

(* io_uring_wait_cqe fails: the server closes what it has and returns.     *)
wait_error ==
  /\ server = "running" /\ cq = <<>> /\ failures < MaxFailures
  /\ failures' = failures + 1
  /\ server' = "exited"
  /\ UNCHANGED <<clientVars, up, down, backlog, fds, accepts, reads, cq>>

main == accepted \/ accept_failed \/ handle_read
kernel == complete_accept \/ \E n \in Numbers : complete_read(n)
program(c) == cli_conn(c) \/ send_request(c) \/ recv(c)

Next == main \/ wait_error \/ kernel \/ \E c \in Clients : program(c) \/ kill(c)

(* The server's loop and the kernel go on, and every client runs; no wait  *)
(* has to fail.                                                            *)
Spec == Init /\ [][Next]_vars /\ WF_vars(main) /\ WF_vars(kernel)
        /\ \A c \in Clients : WF_vars(program(c))

-----------------------------------------------------------------------------
(* The places of the clients and of the server, its descriptors and what   *)
(* is in its ring.                                                         *)
TypeOK ==
  /\ wants \in [Clients -> Paths \cup {<<>>}]
  /\ got \in [Clients -> Files \cup {"waiting", NoFd}]
  /\ client \in [Clients -> {"start", "connected", "asked", "finished", "killed"}]
  /\ fds \in [Numbers -> Clients \cup {Free}]
  /\ reads \subseteq Numbers
  /\ accepts \in Nat
  /\ server \in {"running", "dead", "exited"}

(* Every descriptor the server holds belongs to one request or completion  *)
(* and will be closed by it: none leaks, none is closed twice, and a number*)
(* that was closed and given out again is not closed for its old owner.    *)
FdsAccounted ==
  server = "running" =>
    \A n \in Numbers :
      LET holders == {k \in DOMAIN cq : cq[k].fd = n} \cup {0 : r \in reads \cap {n}}   \* 0: the read
      IN IF fds[n] = Free THEN holders = {} ELSE \E h \in holders : holders = {h}

(* The server always listens: an accept request is in the ring, or the     *)
(* completion of one is still to be handled, which adds another.           *)
ListenerArmed ==
  server = "running" => accepts > 0 \/ \E k \in DOMAIN cq : cq[k].type = "OP_ACCEPT"

(* Every client gets the file that its path names, by its first word, or   *)
(* none (apue_unix_socket:225), and one answer only.                       *)
ImplementsOpen == R!ASpec

(* A client that asked is not left waiting, even if the server dies.       *)
Answered == \A c \in Clients : client[c] = "asked" ~> client[c] \in {"finished", "killed"}

(* A client takes the server along only by going away between its request  *)
(* and the answer (17/5:79); any other disconnection leaves it running. It *)
(* returns from main only when the wait for a completion fails (17/5:59),  *)
(* with none to be handled.                                                *)
DiesOnlyAnswering ==
  [][server' # server =>
       \/ /\ server' = "dead"
          /\ Completion("OP_READ") /\ Head(cq).res > 0
          /\ client[fds[Head(cq).fd]] = "killed"
       \/ server' = "exited" /\ failures' = failures + 1 /\ cq = <<>>]_vars
=============================================================================
