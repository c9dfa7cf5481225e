--------------------------- MODULE SocketPrograms ---------------------------
(***************************************************************************)
(* The programs of chapter 17 over unix sockets: a behaviour is one of the *)
(* daemon that passes descriptors to its clients (17/4, 17/5), of the      *)
(* program that forks a server for each line (17/3), or of the relay from  *)
(* message queues to sockets (17/1, 17/2).                                 *)
(***************************************************************************)
EXTENDS Integers, Sequences

CONSTANTS Files, Others, Numerals, MaxWords, Clients, OpenMax, MaxFailures, MaxLines,
          Queues, MAXMSZ, MaxMsg, SocketMax, MaxSent, MaxErrors

ASSUME SocketAssumption ==
  /\ "free" \notin Clients /\ OpenMax \in Nat
  /\ "" \notin Files \cup Numerals /\ "0" \in Numerals
  /\ MaxWords \in Nat \ {0} /\ MaxLines \in Nat
  /\ MAXMSZ \in Nat \ {0} /\ MaxMsg \in Nat /\ SocketMax \in Nat /\ MaxErrors \in Nat

VARIABLES program,   \* "daemon", "fork", "mqueue"
          wants, got, client, up, down, backlog, fds, accepts, reads, cq, failures, server,
          line, lines, answers, unsent, parent, child, held, to_child, to_parent, opened,
          sent, mq, thr, socket, reading, buffers, completed, printed, errors

Daemon == INSTANCE FdDaemon
Fork == INSTANCE FdFork
          WITH wants <- lines, got <- answers, up <- to_child, down <- to_parent
Relay == INSTANCE MqueueRelay WITH cq <- completed

daemonVars == <<wants, got, client, up, down, backlog, fds, accepts, reads, cq, failures,
                server>>
forkVars == <<line, lines, answers, unsent, parent, child, held, to_child, to_parent, opened>>
relayVars == <<sent, mq, thr, socket, reading, buffers, completed, printed, errors>>
socketVars == <<program, daemonVars, forkVars, relayVars>>

SocketInit ==
  /\ program \in {"daemon", "fork", "mqueue"}
  /\ Daemon!Init /\ Fork!Init /\ Relay!Init

daemon(A) == program = "daemon" /\ A /\ UNCHANGED <<program, forkVars, relayVars>>
fork(A) == program = "fork" /\ A /\ UNCHANGED <<program, daemonVars, relayVars>>
relay(A) == program = "mqueue" /\ A /\ UNCHANGED <<program, daemonVars, forkVars>>

SocketNext == daemon(Daemon!Next) \/ fork(Fork!Next) \/ relay(Relay!Next)

(* The fairness of the three specifications.                               *)
SocketSpec ==
  /\ SocketInit /\ [][SocketNext]_socketVars
  /\ WF_socketVars(daemon(Daemon!main)) /\ WF_socketVars(daemon(Daemon!kernel))
  /\ \A c \in Clients : WF_socketVars(daemon(Daemon!program(c)))
  /\ WF_socketVars(fork(Fork!main))
  /\ \A l \in Fork!Lines : WF_socketVars(fork(Fork!server(l)))
  /\ WF_socketVars(relay(Relay!submit)) /\ WF_socketVars(relay(Relay!turn))
  /\ \A q \in Queues : WF_socketVars(relay(Relay!thr_fun(q))) /\ WF_socketVars(relay(Relay!complete_read(q)))

-----------------------------------------------------------------------------
(* The states of the two programs.                                         *)
SocketTypeOK == Daemon!TypeOK /\ Fork!TypeOK

(* 17/5: no descriptor of the server leaks, none is closed for another,    *)
(* and an accept request is always in the ring or on its way back. 17/3:   *)
(* after a line nothing is left of it, neither descriptor nor process nor  *)
(* bytes, if its request was written. 17/1: the messages of a queue arrive *)
(* once, in order and as sent.                                             *)
NothingLost ==
  /\ SocketTypeOK /\ Daemon!FdsAccounted /\ Daemon!ListenerArmed /\ Fork!NothingLeftOver
  /\ Relay!RelayedWhole

(* 17/5: only a client that left before its answer kills the server, and   *)
(* only a wait for completions that fails lets it return.                  *)
DiesOnlyAnswering == Daemon!DiesOnlyAnswering

(* In both programs every request gets the file that the first word of its *)
(* path names, or none, once.                                              *)
ImplementsOpen == Daemon!ImplementsOpen /\ Fork!ImplementsOpen

(* 17/4: a client that asked is not left waiting, even if the server dies. *)
(* 17/3: no process waits for another forever, and none outlives the       *)
(* program.  17/1: every message that is not empty is printed in the end.  *)
Answered ==
  /\ program = "daemon" => Daemon!Answered
  /\ program = "fork" => Fork!EveryLineAnswered
  /\ program = "mqueue" => Relay!AllPrinted
=============================================================================
