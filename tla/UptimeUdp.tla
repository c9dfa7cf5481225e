----------------------------- MODULE UptimeUdp -----------------------------
(***************************************************************************)
(* 16/7_remote_uptime_client_udp.cpp and 16/8_remote_uptime_server_udp.cpp.*)
(* For each datagram it receives the server forks a child that binds a     *)
(* socket of its own to the same port (SO_REUSEPORT), connects it to the   *)
(* client and becomes uptime(1), whose output is the answer.               *)
(*                                                                         *)
(* Datagrams may be lost.  Until a child's socket is connected it may get  *)
(* a request of any client, and afterwards those of its own; nobody reads  *)
(* them.                                                                   *)
(***************************************************************************)
EXTENDS Naturals, Sequences

CONSTANTS Clients,
          MaxLost,     \* datagrams the network loses
          MaxErrors    \* waits of the server that fail

VARIABLES client,      \* "start", "recv", "answered", "timeout"
          answer,      \* the request the answer was for
          net,         \* requests under way
          replies,     \* answers under way: <<to, for>>
          recvs,       \* receive requests in the ring
          cq,          \* client_addr of the datagrams received
          child,       \* per request: "none", "bound", "connected", "exit", "failed"
          lost, stolen, errors

vars == <<client, answer, net, replies, recvs, cq, child, lost, stolen, errors>>

Nobody == "nobody"

Init ==
  /\ client = [c \in Clients |-> "start"]
  /\ answer = [c \in Clients |-> Nobody]
  /\ net = {} /\ replies = {}
  /\ recvs = 1 /\ cq = <<>>
  /\ child = [c \in Clients |-> "none"]
  /\ lost = 0 /\ stolen = {} /\ errors = 0

-----------------------------------------------------------------------------
(* The client sends one byte and waits TIMEOUT seconds for an answer.      *)
send(c) ==
  /\ client[c] = "start"
  /\ client' = [client EXCEPT ![c] = "recv"]
  /\ net' = net \cup {c}
  /\ UNCHANGED <<answer, replies, recvs, cq, child, lost, stolen, errors>>

recv(c) ==
  /\ client[c] = "recv"
  /\ \E r \in replies :
       /\ r[1] = c
       /\ answer' = [answer EXCEPT ![c] = r[2]]
       /\ replies' = replies \ {r}
  /\ client' = [client EXCEPT ![c] = "answered"]
  /\ UNCHANGED <<net, recvs, cq, child, lost, stolen, errors>>

timeout_missing(c) == FALSE /\ UNCHANGED vars

timeout(c) ==
  /\ client[c] = "recv"
  /\ client' = [client EXCEPT ![c] = "timeout"]
  /\ UNCHANGED <<answer, net, replies, recvs, cq, child, lost, stolen, errors>>

-----------------------------------------------------------------------------
(* The network and the kernel.                                             *)
lose ==
  /\ lost < MaxLost
  /\ \/ \E c \in net : net' = net \ {c} /\ UNCHANGED replies
     \/ \E r \in replies : replies' = replies \ {r} /\ UNCHANGED net
  /\ lost' = lost + 1
  /\ UNCHANGED <<client, answer, recvs, cq, child, stolen, errors>>

complete_recv ==
  /\ recvs > 0
  /\ \E c \in net : net' = net \ {c} /\ cq' = Append(cq, c)
  /\ recvs' = recvs - 1
  /\ UNCHANGED <<client, answer, replies, child, lost, stolen, errors>>

steal ==
  /\ \E c \in net :
       /\ \E d \in Clients : child[d] = "bound" \/ (d = c /\ child[d] = "connected")
       /\ net' = net \ {c}
       /\ stolen' = stolen \cup {c}
  /\ UNCHANGED <<client, answer, replies, recvs, cq, child, lost, errors>>

-----------------------------------------------------------------------------
(* A turn of the server's loop, which starts with a new receive request;   *)
(* fork may fail.                                                          *)
turn_shared_addr ==
  /\ cq # <<>>
  /\ child' = [child EXCEPT ![cq[Len(cq)]] = "bound"]
  /\ cq' = Tail(cq)
  /\ recvs' = recvs + 1
  /\ UNCHANGED <<client, answer, net, replies, lost, stolen, errors>>

turn_twice ==
  /\ cq # <<>>
  /\ \E s \in {"bound", "failed"} : child' = [child EXCEPT ![Head(cq)] = s]
  /\ cq' = Tail(cq)
  /\ recvs' = recvs + 2
  /\ UNCHANGED <<client, answer, net, replies, lost, stolen, errors>>

turn ==
  /\ cq # <<>>
  /\ \E s \in {"bound", "failed"} : child' = [child EXCEPT ![Head(cq)] = s]
  /\ cq' = Tail(cq)
  /\ recvs' = recvs + 1
  /\ UNCHANGED <<client, answer, net, replies, lost, stolen, errors>>

wait_error ==
  /\ errors < MaxErrors
  /\ errors' = errors + 1
  /\ recvs' = recvs + 1
  /\ UNCHANGED <<client, answer, net, replies, cq, child, lost, stolen>>

(* handle_client_fork in the child, then uptime: one datagram to the peer  *)
(* of the socket.                                                          *)
connect_ipv4_addr(c) ==
  /\ child[c] = "bound"
  /\ child' = [child EXCEPT ![c] = "connected"]
  /\ UNCHANGED <<client, answer, net, replies, recvs, cq, lost, stolen, errors>>

uptime_from_server_socket(c) ==
  /\ child[c] = "connected"
  /\ \E to \in {d \in Clients : client[d] # "start"} : replies' = replies \cup {<<to, c>>}
  /\ child' = [child EXCEPT ![c] = "exit"]
  /\ UNCHANGED <<client, answer, net, recvs, cq, lost, stolen, errors>>

uptime(c) ==
  /\ child[c] = "connected"
  /\ \/ replies' = replies \cup {<<c, c>>} /\ child' = [child EXCEPT ![c] = "exit"]
     \/ child' = [child EXCEPT ![c] = "failed"] /\ UNCHANGED replies
  /\ UNCHANGED <<client, answer, net, recvs, cq, lost, stolen, errors>>

program(c) == send(c) \/ recv(c) \/ timeout(c)
served(c) == connect_ipv4_addr(c) \/ uptime(c)

Next == \/ lose \/ complete_recv \/ steal \/ turn \/ wait_error
        \/ \E c \in Clients : program(c) \/ served(c)

(* All processes run; time passes, and so a client that waits times out.   *)
Spec == Init /\ [][Next]_vars /\ WF_vars(turn) /\ \A c \in Clients : WF_vars(program(c))

-----------------------------------------------------------------------------
(* The clients, the datagrams under way, the requests in the ring and the  *)
(* children.                                                               *)
TypeOK ==
  /\ client \in [Clients -> {"start", "recv", "answered", "timeout"}]
  /\ answer \in [Clients -> Clients \cup {Nobody}]
  /\ net \subseteq Clients
  /\ replies \subseteq Clients \X Clients
  /\ recvs \in 0..(MaxErrors + 1)
  /\ child \in [Clients -> {"none", "bound", "connected", "exit", "failed"}]

(* An answer goes to the client whose request it answers.                  *)
AnswerIsMine == \A c \in Clients : client[c] = "answered" => answer[c] = c

(* A request is handled once at most, and one that was sent is somewhere:  *)
(* under way, received, in the hands of a child, or lost, in the network or*)
(* in a socket that nobody reads.                                          *)
RequestSomewhere ==
  \A c \in Clients :
    LET places == {p \in {"net", "cq", "child", "stolen"} :
                     \/ p = "net" /\ c \in net
                     \/ p = "cq" /\ \E k \in DOMAIN cq : cq[k] = c
                     \/ p = "child" /\ child[c] # "none"
                     \/ p = "stolen" /\ c \in stolen}
    IN /\ \A p, q \in places : p = q
       /\ client[c] # "start" /\ lost = 0 => places # {}

(* No client waits forever.                                                *)
ClientEnds == \A c \in Clients : <>(client[c] \in {"answered", "timeout"})
=============================================================================
