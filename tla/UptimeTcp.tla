----------------------------- MODULE UptimeTcp -----------------------------
(***************************************************************************)
(* 16/5_remote_uptime_client_tcp.cpp and 16/6_remote_uptime_server_tcp.cpp:*)
(* for each connection the server forks a child that becomes uptime(1) with*)
(* the connection as its output; the client reads to the end of the stream.*)
(* The stream ends when nobody holds the server's side any more, and a     *)
(* child holds all that the server held when it was forked.                *)
(***************************************************************************)
EXTENDS Naturals, Sequences

CONSTANTS Clients,
          Output,      \* what uptime writes, a sequence of pieces
          MaxErrors    \* waits of the server that fail

VARIABLES client,      \* "start", "recv", "done"
          text,        \* what the client has written out
          stream,      \* per connection: what is under way to the client
          backlog,
          accepts,     \* accept requests in the ring
          cq,          \* connections accepted, to be seen by the server
          child,       \* per connection: "none", "dup2", "uptime", "exit", "failed"
          todo,        \* what uptime has yet to write
          holds,       \* per process, the server or a child: connections held
          errors

vars == <<client, text, stream, backlog, accepts, cq, child, todo, holds, errors>>

Server == "server"
Processes == Clients \cup {Server}   \* the child for client c is called c
Held(c) == \E p \in Processes : c \in holds[p]

Init ==
  /\ client = [c \in Clients |-> "start"]
  /\ text = [c \in Clients |-> <<>>]
  /\ stream = [c \in Clients |-> <<>>]
  /\ backlog = {}
  /\ accepts = 1
  /\ cq = <<>>
  /\ child = [c \in Clients |-> "none"]
  /\ todo = [c \in Clients |-> <<>>]
  /\ holds = [p \in Processes |-> {}]
  /\ errors = 0

-----------------------------------------------------------------------------
connect_ipv4_host(c) ==
  /\ client[c] = "start"
  /\ client' = [client EXCEPT ![c] = "recv"]
  /\ backlog' = backlog \cup {c}
  /\ UNCHANGED <<text, stream, accepts, cq, child, todo, holds, errors>>

Accepted(c) == c \notin backlog

download_once(c) ==
  /\ client[c] = "recv"
  /\ stream[c] # <<>> \/ (Accepted(c) /\ ~Held(c))
  /\ \E n \in 0..Len(stream[c]) :
       /\ n > 0 <=> stream[c] # <<>>
       /\ text' = [text EXCEPT ![c] = SubSeq(stream[c], 1, n)]
  /\ client' = [client EXCEPT ![c] = "done"]
  /\ UNCHANGED <<stream, backlog, accepts, cq, child, todo, holds, errors>>

download_uptime(c) ==
  /\ client[c] = "recv"
  /\ \/ /\ stream[c] # <<>>
        /\ \E n \in 1..Len(stream[c]) :
             /\ text' = [text EXCEPT ![c] = @ \o SubSeq(stream[c], 1, n)]
             /\ stream' = [stream EXCEPT ![c] = SubSeq(@, n + 1, Len(@))]
        /\ UNCHANGED client
     \/ /\ stream[c] = <<>> /\ Accepted(c) /\ ~Held(c)
        /\ client' = [client EXCEPT ![c] = "done"]
        /\ UNCHANGED <<text, stream>>
  /\ UNCHANGED <<backlog, accepts, cq, child, todo, holds, errors>>

(* The kernel accepts a connection for the server.                         *)
complete_accept ==
  /\ accepts > 0
  /\ \E c \in backlog :
       /\ backlog' = backlog \ {c}
       /\ holds' = [holds EXCEPT ![Server] = @ \cup {c}]
       /\ cq' = Append(cq, c)
  /\ accepts' = accepts - 1
  /\ UNCHANGED <<client, text, stream, child, todo, errors>>

-----------------------------------------------------------------------------
handle_client_fork_leaks(c) ==
  \/ /\ child' = [child EXCEPT ![c] = "dup2"]
     /\ holds' = [holds EXCEPT ![c] = holds[Server]]
  \/ /\ child' = [child EXCEPT ![c] = "failed"]
     /\ holds' = [holds EXCEPT ![Server] = @ \ {c}]

(* The child has what the server has; the server closes the connection,    *)
(* also when fork fails.                                                   *)
handle_client_fork(c) ==
  \/ /\ child' = [child EXCEPT ![c] = "dup2"]
     /\ holds' = [holds EXCEPT ![c] = holds[Server], ![Server] = @ \ {c}]
  \/ /\ child' = [child EXCEPT ![c] = "failed"]
     /\ holds' = [holds EXCEPT ![Server] = @ \ {c}]

(* A turn of the loop; each starts with a new accept request, so that an   *)
(* accept that fails changes nothing.                                      *)
turn_once ==
  /\ cq # <<>>
  /\ handle_client_fork(Head(cq))
  /\ cq' = Tail(cq)
  /\ UNCHANGED <<client, text, stream, backlog, accepts, todo, errors>>

turn_twice ==
  /\ cq # <<>>
  /\ handle_client_fork(Head(cq))
  /\ cq' = Tail(cq)
  /\ accepts' = accepts + 2
  /\ UNCHANGED <<client, text, stream, backlog, todo, errors>>

turn ==
  /\ cq # <<>>
  /\ handle_client_fork(Head(cq))
  /\ cq' = Tail(cq)
  /\ accepts' = accepts + 1
  /\ UNCHANGED <<client, text, stream, backlog, todo, errors>>

(* io_uring_wait_cqe fails, and the turn is over.                          *)
wait_error ==
  /\ errors < MaxErrors
  /\ errors' = errors + 1
  /\ accepts' = accepts + 1
  /\ UNCHANGED <<client, text, stream, backlog, cq, child, todo, holds>>

-----------------------------------------------------------------------------
(* The child: dup2, exec, and uptime, which may fail to start.             *)
dup2_exec(c) ==
  /\ child[c] = "dup2"
  /\ \/ child' = [child EXCEPT ![c] = "uptime"] /\ todo' = [todo EXCEPT ![c] = Output]
        /\ UNCHANGED holds
     \/ child' = [child EXCEPT ![c] = "failed"] /\ holds' = [holds EXCEPT ![c] = {}]
        /\ UNCHANGED todo
  /\ UNCHANGED <<client, text, stream, backlog, accepts, cq, errors>>

uptime(c) ==
  /\ child[c] = "uptime"
  /\ IF todo[c] # <<>>
     THEN /\ stream' = [stream EXCEPT ![c] = Append(@, Head(todo[c]))]
          /\ todo' = [todo EXCEPT ![c] = Tail(@)]
          /\ UNCHANGED <<child, holds>>
     ELSE /\ child' = [child EXCEPT ![c] = "exit"]
          /\ holds' = [holds EXCEPT ![c] = {}]
          /\ UNCHANGED <<stream, todo>>
  /\ UNCHANGED <<client, text, backlog, accepts, cq, errors>>

program(c) == connect_ipv4_host(c) \/ download_uptime(c)
served(c) == dup2_exec(c) \/ uptime(c)

Next == complete_accept \/ turn \/ wait_error \/ \E c \in Clients : program(c) \/ served(c)

(* All processes run and the kernel accepts while it is asked to.          *)
Spec == Init /\ [][Next]_vars /\ WF_vars(complete_accept) /\ WF_vars(turn)
        /\ \A c \in Clients : WF_vars(program(c)) /\ WF_vars(served(c))

-----------------------------------------------------------------------------
(* The clients, the connections, and what is in the ring of the server.    *)
TypeOK ==
  /\ client \in [Clients -> {"start", "recv", "done"}]
  /\ backlog \subseteq Clients
  /\ accepts \in 0..(MaxErrors + 1)
  /\ child \in [Clients -> {"none", "dup2", "uptime", "exit", "failed"}]
  /\ holds \in [Processes -> SUBSET Clients]

(* The server holds no connection but those it has yet to see.             *)
NoFdLeak == holds[Server] = {cq[k] : k \in DOMAIN cq}

(* Before the end of the stream the client has all that was written, and   *)
(* the end comes only after uptime ended: no client takes half an answer   *)
(* for a whole one.                                                        *)
OutputWhole ==
  \A c \in Clients :
    client[c] = "done" => text[c] = (IF child[c] = "exit" THEN Output ELSE <<>>)

(* Every client comes to an end.                                           *)
ClientEnds == \A c \in Clients : <>(client[c] = "done")
=============================================================================
