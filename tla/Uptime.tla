------------------------------- MODULE Uptime -------------------------------
(***************************************************************************)
(* Remote uptime as a host offers it, over TCP (16/5, 16/6) or over UDP    *)
(* (16/7, 16/8): a behaviour is one of UptimeTcp or of UptimeUdp, with the *)
(* same clients.                                                           *)
(***************************************************************************)
EXTENDS Naturals, Sequences

CONSTANTS Clients, Output, MaxLost, MaxErrors

ASSUME UptimeAssumption ==
  /\ "server" \notin Clients
  /\ Output \in Seq({Output[k] : k \in DOMAIN Output})
  /\ MaxErrors \in Nat

VARIABLES service,   \* "tcp" or "udp"
          client, cq, child, errors,
          text, stream, backlog, accepts, todo, holds,
          answer, net, replies, recvs, lost, stolen

Tcp == INSTANCE UptimeTcp
Udp == INSTANCE UptimeUdp

tcpOnly == <<text, stream, backlog, accepts, todo, holds>>
udpOnly == <<answer, net, replies, recvs, lost, stolen>>
uptimeVars == <<service, client, cq, child, errors, tcpOnly, udpOnly>>

UptimeInit == service \in {"tcp", "udp"} /\ Tcp!Init /\ Udp!Init

tcp(A) == service = "tcp" /\ A /\ UNCHANGED <<service, udpOnly>>
udp(A) == service = "udp" /\ A /\ UNCHANGED <<service, tcpOnly>>

UptimeNext == tcp(Tcp!Next) \/ udp(Udp!Next)

(* The fairness of the two specifications.                                 *)
UptimeSpec ==
  /\ UptimeInit /\ [][UptimeNext]_uptimeVars
  /\ WF_uptimeVars(tcp(Tcp!complete_accept)) /\ WF_uptimeVars(tcp(Tcp!turn)) /\ WF_uptimeVars(udp(Udp!turn))
  /\ \A c \in Clients : /\ WF_uptimeVars(tcp(Tcp!program(c))) /\ WF_uptimeVars(tcp(Tcp!served(c)))
                        /\ WF_uptimeVars(udp(Udp!program(c)))

-----------------------------------------------------------------------------
(* The state is that of the service which runs.                            *)
ServiceTypeOK == IF service = "tcp" THEN Tcp!TypeOK ELSE Udp!TypeOK

(* Every client comes to an end: of the stream, or by its timeout.         *)
ClientEnds == IF service = "tcp" THEN Tcp!ClientEnds ELSE Udp!ClientEnds

(* 16/5: no client takes half an answer for a whole one. 16/6: the server  *)
(* holds no connection but those it has yet to see. 16/8: an answer goes   *)
(* to the client that asked, a request is handled once at most and does    *)
(* not vanish unless it is lost or reaches a socket that nobody reads.     *)
AnswersRight ==
  /\ ServiceTypeOK
  /\ IF service = "tcp" THEN Tcp!OutputWhole /\ Tcp!NoFdLeak
     ELSE Udp!AnswerIsMine /\ Udp!RequestSomewhere
=============================================================================
