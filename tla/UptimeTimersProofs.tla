------------------------- MODULE UptimeTimersProofs -------------------------
(***************************************************************************)
(* Proofs about two programs in which time passes: the services of chapter *)
(* 16 (Uptime), for any clients, any output of uptime and any number of    *)
(* lost datagrams and failed waits; and the timers of 10/23 (Timers), for  *)
(* any handlers, seconds, number of timers and length of the run.          *)
(***************************************************************************)
EXTENDS Uptime, Timers, TLAPS

Pieces == {Output[k] : k \in DOMAIN Output}
Elements(s) == {s[k] : k \in DOMAIN s}
Together(r, s, t) == r \o (s \o t)
Distinct(s) == \A j, k \in DOMAIN s : s[j] = s[k] => j = k

(* 16/5, 16/6: the types of what TypeOK leaves out, and the requests of    *)
(* the ring: one more than the waits that failed.                          *)
TcpTypes ==
  /\ Tcp!TypeOK
  /\ text \in [Clients -> Seq(Pieces)] /\ stream \in [Clients -> Seq(Pieces)]
  /\ todo \in [Clients -> Seq(Pieces)]
  /\ cq \in Seq(Clients)
  /\ accepts + Len(cq) <= 1 + errors /\ errors \in 0..MaxErrors

(* A connection waits in the backlog, or among the completions, or it has  *)
(* had its child, and it is held until its child is gone.                  *)
TcpPlaces ==
  /\ Distinct(cq)
  /\ \A c \in Clients :
       /\ client[c] = "start" \/ c \in backlog \/ c \in Elements(cq) => child[c] = "none"
       /\ client[c] = "start" => c \notin backlog /\ c \notin Elements(cq)
       /\ c \in backlog => c \notin Elements(cq)
       /\ client[c] # "start" /\ child[c] = "none" => c \in backlog \/ c \in Elements(cq)
       /\ child[c] \in {"dup2", "uptime"} => c \in holds[c]
       /\ client[c] = "done" => stream[c] = <<>> /\ child[c] \in {"exit", "failed"}

(* What the client has, what is under way and what uptime has yet to write *)
(* are together all of the output, if uptime was started.                  *)
TcpStream ==
  \A c \in Clients :
    /\ Together(text[c], stream[c], todo[c]) = (IF child[c] \in {"uptime", "exit"} THEN Output ELSE <<>>)
    /\ child[c] # "uptime" => todo[c] = <<>>

TcpInv == TcpTypes /\ Tcp!NoFdLeak /\ TcpPlaces /\ TcpStream

(* 16/7, 16/8: the same for datagrams.                                     *)
UdpTypes ==
  /\ Udp!TypeOK
  /\ stolen \subseteq Clients /\ cq \in Seq(Clients) /\ lost \in Nat
  /\ recvs + Len(cq) <= 1 + errors /\ errors \in 0..MaxErrors

(* A request is in one place, and an answer goes to who asked.             *)
UdpPlaces ==
  /\ Distinct(cq)
  /\ \A c \in Clients :
       /\ c \in net => c \notin Elements(cq) /\ child[c] = "none" /\ c \notin stolen
       /\ c \in Elements(cq) => child[c] = "none" /\ c \notin stolen
       /\ child[c] # "none" => c \notin stolen
       /\ client[c] = "start" =>
            c \notin net /\ c \notin Elements(cq) /\ child[c] = "none" /\ c \notin stolen
       /\ client[c] # "start" /\ lost = 0 =>
            c \in net \/ c \in Elements(cq) \/ child[c] # "none" \/ c \in stolen
  /\ \A r \in replies : r[1] = r[2]
  /\ Udp!AnswerIsMine

UdpInv == UdpTypes /\ UdpPlaces

UptimeInv ==
  /\ service \in {"tcp", "udp"}
  /\ service = "tcp" => TcpInv
  /\ service = "udp" => UdpInv
-----------------------------------------------------------------------------
(* An element put at the end of a sequence.                                *)
LEMMA AppendElements ==
  ASSUME NEW S, NEW s \in Seq(S), NEW x \in S
  PROVE  /\ Append(s, x) \in Seq(S) /\ Len(Append(s, x)) = Len(s) + 1
         /\ Elements(Append(s, x)) = Elements(s) \cup {x}
         /\ Distinct(s) /\ x \notin Elements(s) => Distinct(Append(s, x))
<1>1. /\ Append(s, x) \in Seq(S) /\ Len(Append(s, x)) = Len(s) + 1
      /\ DOMAIN s = 1..Len(s) /\ DOMAIN Append(s, x) = 1..(Len(s) + 1) /\ Len(s) \in Nat
      /\ Append(s, x)[Len(s) + 1] = x /\ \A k \in 1..Len(s) : Append(s, x)[k] = s[k]
  OBVIOUS
<1> HIDE DEF Distinct
<1>2. Elements(Append(s, x)) = Elements(s) \cup {x}
  BY <1>1 DEF Elements
<1>3. Distinct(s) /\ x \notin Elements(s) => Distinct(Append(s, x))
  BY <1>1 DEF Elements, Distinct
<1> QED
  BY <1>1, <1>2, <1>3, Zenon

(* The first element of a sequence taken away.                             *)
LEMMA TailElements ==
  ASSUME NEW S, NEW s \in Seq(S), s # <<>>
  PROVE  /\ Tail(s) \in Seq(S) /\ Len(Tail(s)) = Len(s) - 1 /\ Len(s) > 0
         /\ Head(s) \in S /\ Head(s) \in Elements(s)
         /\ Distinct(s) => Distinct(Tail(s)) /\ Elements(Tail(s)) = Elements(s) \ {Head(s)}
<1>1. /\ Tail(s) \in Seq(S) /\ Len(Tail(s)) = Len(s) - 1 /\ Len(s) \in Nat /\ Len(s) > 0
      /\ DOMAIN s = 1..Len(s) /\ DOMAIN Tail(s) = 1..(Len(s) - 1)
      /\ Head(s) = s[1] /\ s[1] \in S /\ \A k \in 1..(Len(s) - 1) : Tail(s)[k] = s[k + 1]
  OBVIOUS
<1>2. Head(s) \in Elements(s)
  BY <1>1 DEF Elements
<1>3. ASSUME Distinct(s) PROVE Distinct(Tail(s))
  BY <1>1, <1>3 DEF Distinct
<1>4. ASSUME Distinct(s) PROVE Elements(Tail(s)) = Elements(s) \ {Head(s)}
  <2>1. ASSUME NEW y \in Elements(Tail(s)) PROVE y \in Elements(s) /\ y # Head(s)
    <3>1. PICK k \in 1..(Len(s) - 1) : y = s[k + 1]
      BY <1>1, Zenon DEF Elements
    <3>2. k + 1 \in DOMAIN s /\ 1 \in DOMAIN s /\ k + 1 # 1
      BY <1>1
    <3> QED
      BY <1>1, <1>4, <3>1, <3>2, Zenon DEF Elements, Distinct
  <2>2. ASSUME NEW y \in Elements(s), y # Head(s) PROVE y \in Elements(Tail(s))
    <3>1. PICK k \in 1..Len(s) : y = s[k]
      BY <1>1, Zenon DEF Elements
    <3>2. k - 1 \in 1..(Len(s) - 1) /\ Tail(s)[k - 1] = y
      BY <1>1, <2>2, <3>1
    <3> QED
      BY <1>1, <3>2, Zenon DEF Elements
  <2> QED
    BY <2>1, <2>2, Zenon
<1> QED
  BY <1>1, <1>2, <1>3, <1>4, Zenon

(* Two pieces of a sequence are together the sequence.                     *)
LEMMA TwoPieces ==
  ASSUME NEW S, NEW s \in Seq(S), NEW n \in 1..Len(s)
  PROVE  /\ SubSeq(s, 1, n) \in Seq(S) /\ SubSeq(s, n + 1, Len(s)) \in Seq(S)
         /\ SubSeq(s, 1, n) \o SubSeq(s, n + 1, Len(s)) = s
OBVIOUS

(* An element that goes from one sequence to the end of another, and a     *)
(* piece that does, do not change the two together.                        *)
LEMMA MoveOne ==
  ASSUME NEW S, NEW r \in Seq(S), NEW s \in Seq(S), NEW t \in Seq(S), t # <<>>
  PROVE  Together(r, Append(s, Head(t)), Tail(t)) = Together(r, s, t)
<1>1. Append(s, Head(t)) \o Tail(t) = s \o t
  OBVIOUS
<1> QED
  BY <1>1, Zenon DEF Together

LEMMA MoveSome ==
  ASSUME NEW S, NEW r \in Seq(S), NEW s \in Seq(S), NEW t \in Seq(S), NEW n \in 1..Len(s)
  PROVE  /\ r \o SubSeq(s, 1, n) \in Seq(S) /\ SubSeq(s, n + 1, Len(s)) \in Seq(S)
         /\ Together(r \o SubSeq(s, 1, n), SubSeq(s, n + 1, Len(s)), t) = Together(r, s, t)
<1> DEFINE a == SubSeq(s, 1, n)
           b == SubSeq(s, n + 1, Len(s))
<1>1. a \in Seq(S) /\ b \in Seq(S)
  BY TwoPieces, Zenon
<1>2. a \o b = s
  BY TwoPieces, Zenon
<1> HIDE DEF a, b
<1>3. r \o a \in Seq(S) /\ b \o t \in Seq(S)
  BY <1>1
<1>4. \A d \in Seq(S) : (r \o a) \o d = r \o (a \o d)
  BY <1>1, SMTT(30)
<1>5. (a \o b) \o t = a \o (b \o t)
  BY SMTT(30), <1>1
<1>6. (r \o a) \o (b \o t) = r \o (a \o (b \o t))
  BY <1>3, <1>4, Zenon
<1> QED
  BY <1>1, <1>2, <1>3, <1>5, <1>6, Zenon DEF a, b, Together
-----------------------------------------------------------------------------
(* The output of uptime is a sequence of its pieces.                       *)
LEMMA OutputSeq == Output \in Seq(Pieces) /\ MaxErrors \in Nat
BY UptimeAssumption, Zenon DEF Pieces

(* 16/5, 16/6: nobody has connected.                                       *)
LEMMA TcpInit == Tcp!Init => TcpInv
<1> SUFFICES ASSUME Tcp!Init PROVE TcpInv
  BY Zenon
<1>1. Elements(cq) = {} /\ Distinct(cq) /\ cq = <<>> /\ Len(cq) = 0 /\ cq \in Seq(Clients)
  BY DEF Tcp!Init, Elements, Distinct
<1>2. TcpTypes
  BY <1>1, OutputSeq DEF Tcp!Init, TcpTypes, Tcp!TypeOK, Tcp!Processes
<1>3. Tcp!NoFdLeak
  BY <1>1, Zenon DEF Tcp!Init, Tcp!NoFdLeak, Tcp!Server, Tcp!Processes, Elements
<1>4. TcpPlaces
  BY <1>1, Zenon DEF Tcp!Init, TcpPlaces
<1>5. TcpStream
  <2> SUFFICES ASSUME NEW c \in Clients
               PROVE  text[c] = <<>> /\ stream[c] = <<>> /\ todo[c] = <<>> /\ child[c] = "none"
    <3>1. Together(<<>>, <<>>, <<>>) = <<>>
      BY DEF Together
    <3> QED
      BY <3>1, Zenon DEF TcpStream
  <2> QED
    BY Zenon DEF Tcp!Init
<1> QED
  BY <1>2, <1>3, <1>4, <1>5, Zenon DEF TcpInv

(* connect_ipv4_host puts the connection into the backlog.                 *)
LEMMA ConnectKeeps ==
  ASSUME TcpInv, NEW c \in Clients, Tcp!connect_ipv4_host(c)
  PROVE  TcpInv'
<1>1. /\ client[c] = "start" /\ client' = [client EXCEPT ![c] = "recv"]
      /\ backlog' = backlog \cup {c}
      /\ text' = text /\ stream' = stream /\ accepts' = accepts /\ cq' = cq /\ child' = child
      /\ todo' = todo /\ holds' = holds /\ errors' = errors
  BY Zenon DEF Tcp!connect_ipv4_host
<1>2. TcpTypes'
  BY <1>1, Zenon DEF TcpInv, TcpTypes, Tcp!TypeOK
<1>3. Tcp!NoFdLeak'
  BY <1>1, Zenon DEF TcpInv, Tcp!NoFdLeak
<1>4. TcpPlaces'
  <2>1. client \in [Clients -> {"start", "recv", "done"}]
    BY Zenon DEF TcpInv, TcpTypes, Tcp!TypeOK
  <2> QED
    BY <1>1, <2>1, Zenon DEF TcpInv, TcpPlaces
<1>5. TcpStream'
  BY <1>1, Zenon DEF TcpInv, TcpStream
<1> QED
  BY <1>2, <1>3, <1>4, <1>5, Zenon DEF TcpInv

(* The client reads a piece of the stream, or its end.                     *)
LEMMA DownloadKeeps ==
  ASSUME TcpInv, NEW c \in Clients, Tcp!download_uptime(c)
  PROVE  TcpInv'
<1>1. /\ client[c] = "recv"
      /\ backlog' = backlog /\ accepts' = accepts /\ cq' = cq /\ child' = child
      /\ todo' = todo /\ holds' = holds /\ errors' = errors
  BY Zenon DEF Tcp!download_uptime
<1>2. /\ client \in [Clients -> {"start", "recv", "done"}]
      /\ text \in [Clients -> Seq(Pieces)] /\ stream \in [Clients -> Seq(Pieces)]
      /\ todo \in [Clients -> Seq(Pieces)]
  BY Zenon DEF TcpInv, TcpTypes, Tcp!TypeOK
<1>3. Tcp!NoFdLeak'
  BY <1>1, Zenon DEF TcpInv, Tcp!NoFdLeak
<1>4. CASE stream[c] # <<>> /\ client' = client
  <2>1. PICK n \in 1..Len(stream[c]) :
          /\ text' = [text EXCEPT ![c] = @ \o SubSeq(stream[c], 1, n)]
          /\ stream' = [stream EXCEPT ![c] = SubSeq(@, n + 1, Len(@))]
    BY <1>1, <1>4, Zenon DEF Tcp!download_uptime
  <2>2. /\ text'[c] = text[c] \o SubSeq(stream[c], 1, n)
        /\ stream'[c] = SubSeq(stream[c], n + 1, Len(stream[c]))
        /\ \A d \in Clients \ {c} : text'[d] = text[d] /\ stream'[d] = stream[d]
    BY <1>2, <2>1, Zenon
  <2>3. /\ text[c] \o SubSeq(stream[c], 1, n) \in Seq(Pieces)
        /\ SubSeq(stream[c], n + 1, Len(stream[c])) \in Seq(Pieces)
        /\ Together(text[c] \o SubSeq(stream[c], 1, n), SubSeq(stream[c], n + 1, Len(stream[c])),
                    todo[c]) = Together(text[c], stream[c], todo[c])
    <3>1. text[c] \in Seq(Pieces) /\ stream[c] \in Seq(Pieces) /\ todo[c] \in Seq(Pieces)
      BY <1>2, Zenon
    <3> QED
      BY <3>1, MoveSome
  <2>4. text' \in [Clients -> Seq(Pieces)] /\ stream' \in [Clients -> Seq(Pieces)]
    BY <1>2, <2>1, <2>3, Zenon
  <2>5. TcpTypes'
    BY <1>1, <1>4, <2>4, Zenon DEF TcpInv, TcpTypes, Tcp!TypeOK
  <2>6. TcpPlaces'
    BY <1>1, <1>2, <1>4, <2>2, Zenon DEF TcpInv, TcpPlaces
  <2>7. TcpStream'
    <3> SUFFICES ASSUME NEW d \in Clients
                 PROVE  Together(text'[d], stream'[d], todo[d])
                          = Together(text[d], stream[d], todo[d])
      BY <1>1, Zenon DEF TcpInv, TcpStream
    <3> QED
      BY <2>2, <2>3, Zenon
  <2> QED
    BY <1>3, <2>5, <2>6, <2>7, Zenon DEF TcpInv
<1>5. CASE /\ stream[c] = <<>> /\ Tcp!Accepted(c) /\ ~Tcp!Held(c)
           /\ client' = [client EXCEPT ![c] = "done"] /\ text' = text /\ stream' = stream
  <2>1. TcpTypes'
    BY <1>1, <1>5, Zenon DEF TcpInv, TcpTypes, Tcp!TypeOK
  <2>2. c \notin backlog /\ \A p \in Tcp!Processes : c \notin holds[p]
    BY <1>5, Zenon DEF Tcp!Accepted, Tcp!Held
  <2>3. c \notin Elements(cq) /\ c \notin holds[c]
    BY <2>2, Zenon DEF TcpInv, Tcp!NoFdLeak, Tcp!Processes, Elements
  <2>4. child[c] \in {"exit", "failed"}
    BY <1>1, <1>2, <2>2, <2>3, Zenon DEF TcpInv, TcpTypes, Tcp!TypeOK, TcpPlaces
  <2>5. TcpPlaces'
    BY <1>1, <1>2, <1>5, <2>2, <2>3, <2>4, Zenon DEF TcpInv, TcpPlaces
  <2>6. TcpStream'
    BY <1>1, <1>5, Zenon DEF TcpInv, TcpStream
  <2> QED
    BY <1>3, <2>1, <2>5, <2>6, Zenon DEF TcpInv
<1> QED
  BY <1>4, <1>5, Zenon DEF Tcp!download_uptime

(* The kernel accepts a connection: the server holds it until it has seen  *)
(* the completion.                                                         *)
LEMMA AcceptKeeps ==
  ASSUME TcpInv, Tcp!complete_accept
  PROVE  TcpInv'
<1>1. PICK c \in backlog :
        /\ backlog' = backlog \ {c}
        /\ holds' = [holds EXCEPT ![Tcp!Server] = @ \cup {c}]
        /\ cq' = Append(cq, c)
  BY Zenon DEF Tcp!complete_accept
<1>2. /\ accepts > 0 /\ accepts' = accepts - 1
      /\ client' = client /\ text' = text /\ stream' = stream /\ child' = child
      /\ todo' = todo /\ errors' = errors
  BY Zenon DEF Tcp!complete_accept
<1>3. /\ c \in Clients /\ cq \in Seq(Clients) /\ holds \in [Tcp!Processes -> SUBSET Clients]
      /\ Tcp!Server \in Tcp!Processes /\ Tcp!Server \notin Clients
      /\ c \notin Elements(cq) /\ Distinct(cq)
      /\ holds[Tcp!Server] = Elements(cq)
  BY UptimeAssumption, Zenon
     DEF TcpInv, TcpTypes, Tcp!TypeOK, TcpPlaces, Tcp!NoFdLeak, Elements, Tcp!Processes, Tcp!Server
<1>4. /\ cq' \in Seq(Clients) /\ Len(cq') = Len(cq) + 1 /\ Distinct(cq')
      /\ Elements(cq') = Elements(cq) \cup {c}
  BY <1>1, <1>3, AppendElements
<1>5. /\ holds' \in [Tcp!Processes -> SUBSET Clients]
      /\ holds'[Tcp!Server] = Elements(cq')
      /\ \A d \in Clients : holds'[d] = holds[d]
  BY <1>1, <1>3, <1>4, Zenon DEF Tcp!Processes
<1>6. TcpTypes'
  <2>1. Len(cq) \in Nat /\ accepts \in 0..(MaxErrors + 1) /\ errors \in Nat /\ MaxErrors \in Nat
        /\ accepts + Len(cq) <= 1 + errors
    BY <1>3, OutputSeq DEF TcpInv, TcpTypes, Tcp!TypeOK
  <2>2. accepts' \in 0..(MaxErrors + 1) /\ accepts' + Len(cq') <= 1 + errors'
    BY <1>2, <1>4, <2>1
  <2> QED
    BY <1>1, <1>2, <1>4, <1>5, <2>2, Zenon DEF TcpInv, TcpTypes, Tcp!TypeOK
<1>7. Tcp!NoFdLeak'
  BY <1>5, Zenon DEF Tcp!NoFdLeak, Elements
<1>8. TcpPlaces'
  BY <1>1, <1>2, <1>3, <1>4, <1>5, Zenon DEF TcpInv, TcpPlaces
<1>9. TcpStream'
  BY <1>2, Zenon DEF TcpInv, TcpStream
<1> QED
  BY <1>6, <1>7, <1>8, <1>9, Zenon DEF TcpInv

(* A turn of the server: the child takes over the connection, or it is     *)
(* closed.                                                                 *)
LEMMA TurnKeeps ==
  ASSUME TcpInv, Tcp!turn
  PROVE  TcpInv'
<1> DEFINE c == Head(cq)
<1>1. /\ cq # <<>> /\ cq' = Tail(cq) /\ accepts' = accepts + 1
      /\ client' = client /\ text' = text /\ stream' = stream /\ backlog' = backlog
      /\ todo' = todo /\ errors' = errors /\ Tcp!handle_client_fork(c)
  BY Zenon DEF Tcp!turn
<1>2. /\ cq \in Seq(Clients) /\ Distinct(cq) /\ holds \in [Tcp!Processes -> SUBSET Clients]
      /\ child \in [Clients -> {"none", "dup2", "uptime", "exit", "failed"}]
      /\ Tcp!Server \in Tcp!Processes /\ Tcp!Server \notin Clients
      /\ holds[Tcp!Server] = Elements(cq)
  BY UptimeAssumption, Zenon
     DEF TcpInv, TcpTypes, Tcp!TypeOK, TcpPlaces, Tcp!NoFdLeak, Elements, Tcp!Processes, Tcp!Server
<1>3. /\ cq' \in Seq(Clients) /\ Len(cq') = Len(cq) - 1 /\ Len(cq) > 0 /\ Distinct(cq')
      /\ c \in Clients /\ c \in Elements(cq) /\ Elements(cq') = Elements(cq) \ {c}
  BY <1>1, <1>2, TailElements, Zenon
<1> HIDE DEF c
<1>4. /\ child' \in [Clients -> {"none", "dup2", "uptime", "exit", "failed"}]
      /\ child'[c] \in {"dup2", "failed"} /\ \A d \in Clients \ {c} : child'[d] = child[d]
      /\ holds' \in [Tcp!Processes -> SUBSET Clients]
      /\ holds'[Tcp!Server] = Elements(cq')
      /\ child'[c] = "dup2" => c \in holds'[c]
      /\ \A d \in Clients \ {c} : holds'[d] = holds[d]
  <2>1. CASE /\ child' = [child EXCEPT ![c] = "dup2"]
             /\ holds' = [holds EXCEPT ![c] = holds[Tcp!Server], ![Tcp!Server] = @ \ {c}]
    BY <1>2, <1>3, <2>1, Zenon DEF Tcp!Processes
  <2>2. CASE /\ child' = [child EXCEPT ![c] = "failed"]
             /\ holds' = [holds EXCEPT ![Tcp!Server] = @ \ {c}]
    BY <1>2, <1>3, <2>2, Zenon DEF Tcp!Processes
  <2> QED
    BY <1>1, <2>1, <2>2, Zenon DEF Tcp!handle_client_fork
<1>5. TcpTypes'
  <2>1. Len(cq) \in Nat /\ accepts \in 0..(MaxErrors + 1) /\ errors \in 0..MaxErrors
        /\ accepts + Len(cq) <= 1 + errors /\ MaxErrors \in Nat
    BY <1>2, OutputSeq DEF TcpInv, TcpTypes, Tcp!TypeOK
  <2>2. accepts' \in 0..(MaxErrors + 1) /\ accepts' + Len(cq') <= 1 + errors'
    BY <1>1, <1>3, <2>1
  <2> QED
    BY <1>1, <1>3, <1>4, <2>2, Zenon DEF TcpInv, TcpTypes, Tcp!TypeOK
<1>6. Tcp!NoFdLeak'
  BY <1>4, Zenon DEF Tcp!NoFdLeak, Elements
<1>7. child[c] = "none" /\ client[c] # "start" /\ c \notin backlog /\ client[c] # "done"
  BY <1>3, Zenon DEF TcpInv, TcpPlaces
<1>8. TcpPlaces'
  <2> SUFFICES ASSUME NEW d \in Clients
               PROVE  /\ client[d] = "start" \/ d \in backlog \/ d \in Elements(cq') => child'[d] = "none"
                      /\ client[d] = "start" => d \notin backlog /\ d \notin Elements(cq')
                      /\ d \in backlog => d \notin Elements(cq')
                      /\ client[d] # "start" /\ child'[d] = "none" => d \in backlog \/ d \in Elements(cq')
                      /\ child'[d] \in {"dup2", "uptime"} => d \in holds'[d]
                      /\ client[d] = "done" => stream[d] = <<>> /\ child'[d] \in {"exit", "failed"}
    BY <1>1, <1>3, Zenon DEF TcpPlaces
  <2>1. CASE d = c
    BY <1>3, <1>4, <1>7, <2>1, Zenon
  <2>2. CASE d # c
    BY <1>3, <1>4, <2>2, Zenon DEF TcpInv, TcpPlaces
  <2> QED
    BY <2>1, <2>2, Zenon
<1>9. TcpStream'
  <2> SUFFICES ASSUME NEW d \in Clients
               PROVE  /\ child'[d] \in {"uptime", "exit"} <=> child[d] \in {"uptime", "exit"}
                      /\ child'[d] = "uptime" <=> child[d] = "uptime"
    BY <1>1, Zenon DEF TcpInv, TcpStream
  <2> QED
    BY <1>4, <1>7, Zenon
<1> QED
  BY <1>5, <1>6, <1>8, <1>9, Zenon DEF TcpInv

(* A wait that fails: the turn is over, and the next has an accept request *)
(* of its own.                                                             *)
LEMMA WaitErrorKeeps ==
  ASSUME TcpInv, Tcp!wait_error
  PROVE  TcpInv'
<1>1. /\ errors < MaxErrors /\ errors' = errors + 1 /\ accepts' = accepts + 1
      /\ client' = client /\ text' = text /\ stream' = stream /\ backlog' = backlog
      /\ cq' = cq /\ child' = child /\ todo' = todo /\ holds' = holds
  BY Zenon DEF Tcp!wait_error
<1>2. TcpTypes'
  <2>1. Len(cq) \in Nat /\ accepts \in 0..(MaxErrors + 1) /\ errors \in 0..MaxErrors
        /\ accepts + Len(cq) <= 1 + errors /\ MaxErrors \in Nat
    BY OutputSeq DEF TcpInv, TcpTypes, Tcp!TypeOK
  <2>2. /\ accepts' \in 0..(MaxErrors + 1) /\ accepts' + Len(cq') <= 1 + errors'
        /\ errors' \in 0..MaxErrors
    BY <1>1, <2>1
  <2> QED
    BY <1>1, <2>2, Zenon DEF TcpInv, TcpTypes, Tcp!TypeOK
<1>3. Tcp!NoFdLeak'
  BY <1>1, Zenon DEF TcpInv, Tcp!NoFdLeak
<1>4. TcpPlaces'
  BY <1>1, Zenon DEF TcpInv, TcpPlaces
<1>5. TcpStream'
  BY <1>1, Zenon DEF TcpInv, TcpStream
<1> QED
  BY <1>2, <1>3, <1>4, <1>5, Zenon DEF TcpInv

(* The child becomes uptime, which has all of its output to write, or it   *)
(* fails with nothing written.                                             *)
LEMMA ExecKeeps ==
  ASSUME TcpInv, NEW c \in Clients, Tcp!dup2_exec(c)
  PROVE  TcpInv'
<1>1. /\ child[c] = "dup2"
      /\ client' = client /\ text' = text /\ stream' = stream /\ backlog' = backlog
      /\ accepts' = accepts /\ cq' = cq /\ errors' = errors
  BY Zenon DEF Tcp!dup2_exec
<1>2. \/ /\ child' = [child EXCEPT ![c] = "uptime"] /\ todo' = [todo EXCEPT ![c] = Output]
         /\ holds' = holds
      \/ /\ child' = [child EXCEPT ![c] = "failed"] /\ holds' = [holds EXCEPT ![c] = {}]
         /\ todo' = todo
  BY Zenon DEF Tcp!dup2_exec
<1>3. /\ child \in [Clients -> {"none", "dup2", "uptime", "exit", "failed"}]
      /\ holds \in [Tcp!Processes -> SUBSET Clients] /\ todo \in [Clients -> Seq(Pieces)]
      /\ Output \in Seq(Pieces) /\ Tcp!Server \notin Clients /\ Clients \subseteq Tcp!Processes
      /\ text[c] \in Seq(Pieces) /\ stream[c] \in Seq(Pieces)
  BY OutputSeq, UptimeAssumption, Zenon DEF TcpInv, TcpTypes, Tcp!TypeOK, Tcp!Processes, Tcp!Server
<1>4. /\ child' \in [Clients -> {"none", "dup2", "uptime", "exit", "failed"}]
      /\ child'[c] \in {"uptime", "failed"} /\ \A d \in Clients \ {c} : child'[d] = child[d]
      /\ todo' \in [Clients -> Seq(Pieces)] /\ \A d \in Clients \ {c} : todo'[d] = todo[d]
      /\ child'[c] = "uptime" => todo'[c] = Output
      /\ child'[c] = "failed" => todo'[c] = todo[c]
      /\ holds' \in [Tcp!Processes -> SUBSET Clients] /\ holds'[Tcp!Server] = holds[Tcp!Server]
      /\ child'[c] = "uptime" => holds'[c] = holds[c]
      /\ \A d \in Clients \ {c} : holds'[d] = holds[d]
  <2>1. CASE /\ child' = [child EXCEPT ![c] = "uptime"] /\ todo' = [todo EXCEPT ![c] = Output]
             /\ holds' = holds
    BY <1>3, <2>1, Zenon
  <2>2. CASE /\ child' = [child EXCEPT ![c] = "failed"] /\ holds' = [holds EXCEPT ![c] = {}]
             /\ todo' = todo
    BY <1>3, <2>2
  <2> QED
    BY <1>2, <2>1, <2>2, Zenon
<1>5. TcpTypes'
  BY <1>1, <1>4, Zenon DEF TcpInv, TcpTypes, Tcp!TypeOK
<1>6. Tcp!NoFdLeak'
  BY <1>1, <1>4, Zenon DEF TcpInv, Tcp!NoFdLeak
<1>7. TcpPlaces'
  BY <1>1, <1>4 DEF TcpInv, TcpPlaces
<1>8. text[c] = <<>> /\ stream[c] = <<>> /\ todo[c] = <<>>
  <2>1. text[c] \o (stream[c] \o <<>>) = <<>> /\ todo[c] = <<>>
    BY <1>1, Zenon DEF TcpInv, TcpStream, Together
  <2> QED
    BY <1>3, <2>1
<1>9. TcpStream'
  <2> SUFFICES ASSUME NEW d \in Clients
               PROVE  /\ Together(text[d], stream[d], todo'[d])
                           = (IF child'[d] \in {"uptime", "exit"} THEN Output ELSE <<>>)
                      /\ child'[d] # "uptime" => todo'[d] = <<>>
    BY <1>1, Zenon DEF TcpStream
  <2>1. CASE d # c
    BY <1>4, <2>1, Zenon DEF TcpInv, TcpStream
  <2>2. CASE d = c
    <3>1. \A o \in Seq(Pieces) : Together(<<>>, <<>>, o) = o
      BY DEF Together
    <3> HIDE DEF Together
    <3> QED
      BY <1>3, <1>4, <1>8, <2>2, <3>1, Zenon
  <2> QED
    BY <2>1, <2>2, Zenon
<1> QED
  BY <1>5, <1>6, <1>7, <1>9, Zenon DEF TcpInv

(* uptime writes its next piece, or exits after the last.                  *)
LEMMA WriteKeeps ==
  ASSUME TcpInv, NEW c \in Clients, Tcp!uptime(c)
  PROVE  TcpInv'
<1>1. /\ child[c] = "uptime"
      /\ client' = client /\ text' = text /\ backlog' = backlog
      /\ accepts' = accepts /\ cq' = cq /\ errors' = errors
  BY Zenon DEF Tcp!uptime
<1>2. /\ child \in [Clients -> {"none", "dup2", "uptime", "exit", "failed"}]
      /\ holds \in [Tcp!Processes -> SUBSET Clients] /\ todo \in [Clients -> Seq(Pieces)]
      /\ stream \in [Clients -> Seq(Pieces)] /\ text \in [Clients -> Seq(Pieces)]
      /\ Tcp!Server \notin Clients /\ Clients \subseteq Tcp!Processes
  BY UptimeAssumption, Zenon DEF TcpInv, TcpTypes, Tcp!TypeOK, Tcp!Processes, Tcp!Server
<1>3. CASE todo[c] # <<>>
  <2>1. /\ stream' = [stream EXCEPT ![c] = Append(@, Head(todo[c]))]
        /\ todo' = [todo EXCEPT ![c] = Tail(@)] /\ child' = child /\ holds' = holds
    BY <1>3, Zenon DEF Tcp!uptime
  <2>2. /\ Append(stream[c], Head(todo[c])) \in Seq(Pieces) /\ Tail(todo[c]) \in Seq(Pieces)
        /\ Together(text[c], Append(stream[c], Head(todo[c])), Tail(todo[c]))
             = Together(text[c], stream[c], todo[c])
    <3>1. text[c] \in Seq(Pieces) /\ stream[c] \in Seq(Pieces) /\ todo[c] \in Seq(Pieces)
      BY <1>2, Zenon
    <3>2. Head(todo[c]) \in Pieces /\ Tail(todo[c]) \in Seq(Pieces)
      BY <1>3, <3>1
    <3> QED
      BY <1>3, <3>1, <3>2, MoveOne
  <2>3. /\ stream' \in [Clients -> Seq(Pieces)] /\ todo' \in [Clients -> Seq(Pieces)]
        /\ Together(text[c], stream'[c], todo'[c]) = Together(text[c], stream[c], todo[c])
        /\ \A d \in Clients \ {c} : stream'[d] = stream[d] /\ todo'[d] = todo[d]
    BY <1>2, <2>1, <2>2, Zenon
  <2>4. TcpTypes'
    BY <1>1, <2>1, <2>3, Zenon DEF TcpInv, TcpTypes, Tcp!TypeOK
  <2>5. Tcp!NoFdLeak'
    BY <1>1, <2>1, Zenon DEF TcpInv, Tcp!NoFdLeak
  <2>6. TcpPlaces'
    <3>1. client[c] # "done"
      BY <1>1, Zenon DEF TcpInv, TcpPlaces
    <3> QED
      BY <1>1, <2>1, <2>3, <3>1, Zenon DEF TcpInv, TcpPlaces
  <2>7. TcpStream'
    BY <1>1, <2>1, <2>3, Zenon DEF TcpInv, TcpStream
  <2> QED
    BY <2>4, <2>5, <2>6, <2>7, Zenon DEF TcpInv
<1>4. CASE todo[c] = <<>>
  <2>1. /\ child' = [child EXCEPT ![c] = "exit"] /\ holds' = [holds EXCEPT ![c] = {}]
        /\ stream' = stream /\ todo' = todo
    BY <1>4, Zenon DEF Tcp!uptime
  <2>2. /\ child' \in [Clients -> {"none", "dup2", "uptime", "exit", "failed"}]
        /\ child'[c] = "exit" /\ \A d \in Clients \ {c} : child'[d] = child[d]
        /\ holds' \in [Tcp!Processes -> SUBSET Clients]
        /\ holds'[Tcp!Server] = holds[Tcp!Server] /\ \A d \in Clients \ {c} : holds'[d] = holds[d]
    BY <1>2, <2>1, Zenon DEF Tcp!Processes
  <2>3. TcpTypes'
    BY <1>1, <2>1, <2>2, Zenon DEF TcpInv, TcpTypes, Tcp!TypeOK
  <2>4. Tcp!NoFdLeak'
    BY <1>1, <2>2, Zenon DEF TcpInv, Tcp!NoFdLeak
  <2>5. TcpPlaces'
    BY <1>1, <2>1, <2>2 DEF TcpInv, TcpPlaces
  <2>6. TcpStream'
    BY <1>1, <1>4, <2>1, <2>2, Zenon DEF TcpInv, TcpStream
  <2> QED
    BY <2>3, <2>4, <2>5, <2>6, Zenon DEF TcpInv
<1> QED
  BY <1>3, <1>4, Zenon

-----------------------------------------------------------------------------
(* 16/7, 16/8: nobody has asked.                                           *)
LEMMA UdpInit == Udp!Init => UdpInv
<1> SUFFICES ASSUME Udp!Init PROVE UdpInv
  BY Zenon
<1>1. Elements(cq) = {} /\ Distinct(cq) /\ Len(cq) = 0 /\ cq \in Seq(Clients)
  BY DEF Udp!Init, Elements, Distinct
<1>2. UdpTypes
  BY <1>1, OutputSeq DEF Udp!Init, UdpTypes, Udp!TypeOK
<1>3. UdpPlaces
  BY <1>1, Zenon DEF Udp!Init, UdpPlaces, Udp!AnswerIsMine
<1> QED
  BY <1>2, <1>3, Zenon DEF UdpInv

(* A client sends its request, gets an answer or gives up.                 *)
LEMMA ClientKeeps ==
  ASSUME UdpInv, NEW c \in Clients, Udp!program(c)
  PROVE  UdpInv'
<1>1. /\ recvs' = recvs /\ cq' = cq /\ child' = child /\ lost' = lost /\ stolen' = stolen
      /\ errors' = errors
  BY Zenon DEF Udp!program, Udp!send, Udp!recv, Udp!timeout
<1>2. CASE Udp!send(c)
  <2>1. /\ client[c] = "start" /\ client' = [client EXCEPT ![c] = "recv"]
        /\ net' = net \cup {c} /\ answer' = answer /\ replies' = replies
    BY <1>2, Zenon DEF Udp!send
  <2>2. client \in [Clients -> {"start", "recv", "answered", "timeout"}]
    BY Zenon DEF UdpInv, UdpTypes, Udp!TypeOK
  <2>3. UdpTypes'
    BY <1>1, <2>1, Zenon DEF UdpInv, UdpTypes, Udp!TypeOK
  <2>4. UdpPlaces'
    BY <1>1, <2>1, <2>2, Zenon DEF UdpInv, UdpPlaces, Udp!AnswerIsMine
  <2> QED
    BY <2>3, <2>4, Zenon DEF UdpInv
<1>3. CASE Udp!recv(c)
  <2>1. PICK r \in replies : /\ r[1] = c /\ answer' = [answer EXCEPT ![c] = r[2]]
                             /\ replies' = replies \ {r}
    BY <1>3, Zenon DEF Udp!recv
  <2>2. client[c] = "recv" /\ client' = [client EXCEPT ![c] = "answered"] /\ net' = net
    BY <1>3, Zenon DEF Udp!recv
  <2>3. /\ client \in [Clients -> {"start", "recv", "answered", "timeout"}] /\ r[2] = c
        /\ answer \in [Clients -> Clients \cup {Udp!Nobody}]
    BY <2>1, Zenon DEF UdpInv, UdpTypes, UdpPlaces, Udp!TypeOK
  <2>4. UdpTypes'
    BY <1>1, <2>1, <2>2, <2>3, Zenon DEF UdpInv, UdpTypes, Udp!TypeOK
  <2>5. UdpPlaces'
    BY <1>1, <2>1, <2>2, <2>3, Zenon DEF UdpInv, UdpPlaces, Udp!AnswerIsMine
  <2> QED
    BY <2>4, <2>5, Zenon DEF UdpInv
<1>4. CASE Udp!timeout(c)
  <2>1. /\ client[c] = "recv" /\ client' = [client EXCEPT ![c] = "timeout"]
        /\ net' = net /\ answer' = answer /\ replies' = replies
    BY <1>4, Zenon DEF Udp!timeout
  <2>2. client \in [Clients -> {"start", "recv", "answered", "timeout"}]
    BY Zenon DEF UdpInv, UdpTypes, Udp!TypeOK
  <2>3. UdpTypes'
    BY <1>1, <2>1, Zenon DEF UdpInv, UdpTypes, Udp!TypeOK
  <2>4. UdpPlaces'
    BY <1>1, <2>1, <2>2, Zenon DEF UdpInv, UdpPlaces, Udp!AnswerIsMine
  <2> QED
    BY <2>3, <2>4, Zenon DEF UdpInv
<1> QED
  BY <1>2, <1>3, <1>4, Zenon DEF Udp!program

(* The network loses a request or an answer.                               *)
LEMMA LoseKeeps ==
  ASSUME UdpInv, Udp!lose
  PROVE  UdpInv'
<1>1. /\ client' = client /\ answer' = answer /\ recvs' = recvs /\ cq' = cq /\ child' = child
      /\ stolen' = stolen /\ errors' = errors /\ lost' = lost + 1
      /\ net' \subseteq net /\ replies' \subseteq replies
  BY Zenon DEF Udp!lose
<1>2. lost' \in Nat /\ lost' # 0
  BY <1>1 DEF UdpInv, UdpTypes
<1>3. UdpTypes'
  BY <1>1, <1>2, Zenon DEF UdpInv, UdpTypes, Udp!TypeOK
<1>4. UdpPlaces'
  BY <1>1, <1>2, Zenon DEF UdpInv, UdpPlaces, Udp!AnswerIsMine
<1> QED
  BY <1>3, <1>4, Zenon DEF UdpInv

(* The server receives a request.                                          *)
LEMMA ReceiveKeeps ==
  ASSUME UdpInv, Udp!complete_recv
  PROVE  UdpInv'
<1>1. PICK c \in net : net' = net \ {c} /\ cq' = Append(cq, c)
  BY Zenon DEF Udp!complete_recv
<1>2. /\ recvs > 0 /\ recvs' = recvs - 1 /\ client' = client /\ answer' = answer
      /\ replies' = replies /\ child' = child /\ lost' = lost /\ stolen' = stolen
      /\ errors' = errors
  BY Zenon DEF Udp!complete_recv
<1>3. c \in Clients /\ c \notin Elements(cq) /\ child[c] = "none" /\ c \notin stolen
      /\ cq \in Seq(Clients) /\ Distinct(cq) /\ client[c] # "start"
  BY <1>1, Zenon DEF UdpInv, UdpTypes, UdpPlaces, Udp!TypeOK
<1>4. /\ cq' \in Seq(Clients) /\ Len(cq') = Len(cq) + 1
      /\ Elements(cq') = Elements(cq) \cup {c} /\ Distinct(cq')
  BY <1>1, <1>3, AppendElements
<1>5. UdpTypes'
  <2>1. Len(cq) \in Nat /\ recvs \in 0..(MaxErrors + 1) /\ errors \in 0..MaxErrors
        /\ recvs + Len(cq) <= 1 + errors /\ MaxErrors \in Nat
    BY OutputSeq DEF UdpInv, UdpTypes, Udp!TypeOK
  <2>2. recvs' \in 0..(MaxErrors + 1) /\ recvs' + Len(cq') <= 1 + errors'
    BY <1>2, <1>4, <2>1
  <2> QED
    BY <1>1, <1>2, <1>4, <2>2, Zenon DEF UdpInv, UdpTypes, Udp!TypeOK
<1>6. UdpPlaces'
  BY <1>1, <1>2, <1>3, <1>4, Zenon DEF UdpInv, UdpPlaces, Udp!AnswerIsMine
<1> QED
  BY <1>5, <1>6, Zenon DEF UdpInv

(* A child's socket takes a request, which nobody reads.                   *)
LEMMA StealKeeps ==
  ASSUME UdpInv, Udp!steal
  PROVE  UdpInv'
<1>1. PICK c \in net : net' = net \ {c} /\ stolen' = stolen \cup {c}
  BY Zenon DEF Udp!steal
<1>2. /\ client' = client /\ answer' = answer /\ replies' = replies /\ recvs' = recvs
      /\ cq' = cq /\ child' = child /\ lost' = lost /\ errors' = errors
  BY Zenon DEF Udp!steal
<1>3. c \in Clients /\ c \notin Elements(cq) /\ child[c] = "none" /\ client[c] # "start"
  BY <1>1, Zenon DEF UdpInv, UdpTypes, UdpPlaces, Udp!TypeOK
<1>4. UdpTypes'
  BY <1>1, <1>2, <1>3, Zenon DEF UdpInv, UdpTypes, Udp!TypeOK
<1>5. UdpPlaces'
  BY <1>1, <1>2, <1>3, Zenon DEF UdpInv, UdpPlaces, Udp!AnswerIsMine
<1> QED
  BY <1>4, <1>5, Zenon DEF UdpInv

(* A turn of the server: the request is its child's.                       *)
LEMMA UdpTurnKeeps ==
  ASSUME UdpInv, Udp!turn
  PROVE  UdpInv'
<1>1. PICK s \in {"bound", "failed"} : child' = [child EXCEPT ![Head(cq)] = s]
  BY Zenon DEF Udp!turn
<1> DEFINE c == Head(cq)
<1>2. /\ cq # <<>> /\ cq' = Tail(cq) /\ recvs' = recvs + 1 /\ client' = client
      /\ answer' = answer /\ net' = net /\ replies' = replies /\ lost' = lost
      /\ stolen' = stolen /\ errors' = errors
  BY Zenon DEF Udp!turn
<1>3. cq \in Seq(Clients) /\ Distinct(cq)
  BY Zenon DEF UdpInv, UdpTypes, UdpPlaces
<1>4. /\ cq' \in Seq(Clients) /\ Len(cq') = Len(cq) - 1 /\ Len(cq) > 0
      /\ c \in Clients /\ c \in Elements(cq)
      /\ Distinct(cq') /\ Elements(cq') = Elements(cq) \ {c}
  BY <1>2, <1>3, TailElements, Zenon
<1>5. child' = [child EXCEPT ![c] = s]
  BY <1>1, Zenon
<1> HIDE DEF c
<1>6. /\ child \in [Clients -> {"none", "bound", "connected", "exit", "failed"}]
      /\ c \notin net /\ child[c] = "none" /\ c \notin stolen /\ client[c] # "start"
  BY <1>4, Zenon DEF UdpInv, UdpTypes, UdpPlaces, Udp!TypeOK
<1>7. /\ child' \in [Clients -> {"none", "bound", "connected", "exit", "failed"}]
      /\ child'[c] # "none" /\ \A d \in Clients \ {c} : child'[d] = child[d]
  BY <1>4, <1>5, <1>6, Zenon
<1>8. UdpTypes'
  <2>1. Len(cq) \in Nat /\ recvs \in 0..(MaxErrors + 1) /\ errors \in 0..MaxErrors
        /\ recvs + Len(cq) <= 1 + errors /\ MaxErrors \in Nat
    BY OutputSeq DEF UdpInv, UdpTypes, Udp!TypeOK
  <2>2. recvs' \in 0..(MaxErrors + 1) /\ recvs' + Len(cq') <= 1 + errors'
    BY <1>2, <1>4, <2>1
  <2> QED
    BY <1>2, <1>4, <1>7, <2>2, Zenon DEF UdpInv, UdpTypes, Udp!TypeOK
<1>9. UdpPlaces'
  BY <1>2, <1>4, <1>6, <1>7, Zenon DEF UdpInv, UdpPlaces, Udp!AnswerIsMine
<1> QED
  BY <1>8, <1>9, Zenon DEF UdpInv

(* A wait that fails.                                                      *)
LEMMA UdpWaitErrorKeeps ==
  ASSUME UdpInv, Udp!wait_error
  PROVE  UdpInv'
<1>1. /\ errors < MaxErrors /\ errors' = errors + 1 /\ recvs' = recvs + 1
      /\ client' = client /\ answer' = answer /\ net' = net /\ replies' = replies
      /\ cq' = cq /\ child' = child /\ lost' = lost /\ stolen' = stolen
  BY Zenon DEF Udp!wait_error
<1>2. UdpTypes'
  <2>1. Len(cq) \in Nat /\ recvs \in 0..(MaxErrors + 1) /\ errors \in 0..MaxErrors
        /\ recvs + Len(cq) <= 1 + errors /\ MaxErrors \in Nat
    BY OutputSeq DEF UdpInv, UdpTypes, Udp!TypeOK
  <2>2. /\ recvs' \in 0..(MaxErrors + 1) /\ recvs' + Len(cq') <= 1 + errors'
        /\ errors' \in 0..MaxErrors
    BY <1>1, <2>1
  <2> QED
    BY <1>1, <2>2, Zenon DEF UdpInv, UdpTypes, Udp!TypeOK
<1>3. UdpPlaces'
  BY <1>1, Zenon DEF UdpInv, UdpPlaces, Udp!AnswerIsMine
<1> QED
  BY <1>2, <1>3, Zenon DEF UdpInv

(* The child connects its socket to who asked, and uptime answers.         *)
LEMMA ServedKeeps ==
  ASSUME UdpInv, NEW c \in Clients, Udp!served(c)
  PROVE  UdpInv'
<1>1. /\ client' = client /\ answer' = answer /\ net' = net /\ recvs' = recvs /\ cq' = cq
      /\ lost' = lost /\ stolen' = stolen /\ errors' = errors
      /\ child[c] # "none" /\ replies' \subseteq replies \cup {<<c, c>>}
  BY Zenon DEF Udp!served, Udp!connect_ipv4_addr, Udp!uptime
<1>2. PICK s \in {"connected", "exit", "failed"} : child' = [child EXCEPT ![c] = s]
  BY Zenon DEF Udp!served, Udp!connect_ipv4_addr, Udp!uptime
<1>3. child \in [Clients -> {"none", "bound", "connected", "exit", "failed"}]
  BY Zenon DEF UdpInv, UdpTypes, Udp!TypeOK
<1>4. /\ child' \in [Clients -> {"none", "bound", "connected", "exit", "failed"}]
      /\ child'[c] # "none" /\ \A d \in Clients \ {c} : child'[d] = child[d]
  BY <1>2, <1>3, Zenon
<1>5. UdpTypes'
  BY <1>1, <1>4 DEF UdpInv, UdpTypes, Udp!TypeOK
<1>6. \A d \in Clients : child'[d] = "none" <=> child[d] = "none"
  BY <1>1, <1>4, Zenon
<1>7. \A r \in replies' : r[1] = r[2]
  <2>1. \A r \in replies : r[1] = r[2]
    BY Zenon DEF UdpInv, UdpPlaces
  <2> QED
    BY <1>1, <2>1
<1>8. UdpPlaces'
  BY <1>1, <1>6, <1>7, Zenon DEF UdpInv, UdpPlaces, Udp!AnswerIsMine
<1> QED
  BY <1>5, <1>8, Zenon DEF UdpInv

-----------------------------------------------------------------------------
(* Every step keeps the invariant of the service that runs.                *)
LEMMA UptimeKeeps == UptimeInv /\ [UptimeNext]_uptimeVars => UptimeInv'
<1>1. ASSUME UptimeInv, tcp(Tcp!Next) PROVE UptimeInv'
  <2>1. service = "tcp" /\ service' = service /\ TcpInv /\ Tcp!Next
    BY <1>1, Zenon DEF tcp, UptimeInv
  <2>2. TcpInv'
    BY <2>1, ConnectKeeps, DownloadKeeps, AcceptKeeps, TurnKeeps, WaitErrorKeeps, ExecKeeps,
       WriteKeeps, Zenon DEF Tcp!Next, Tcp!program, Tcp!served
  <2> QED
    BY <2>1, <2>2, Zenon DEF UptimeInv
<1>2. ASSUME UptimeInv, udp(Udp!Next) PROVE UptimeInv'
  <2>1. service = "udp" /\ service' = service /\ UdpInv /\ Udp!Next
    BY <1>2, Zenon DEF udp, UptimeInv
  <2>2. UdpInv'
    BY <2>1, ClientKeeps, LoseKeeps, ReceiveKeeps, StealKeeps, UdpTurnKeeps, UdpWaitErrorKeeps,
       ServedKeeps, Zenon DEF Udp!Next
  <2> QED
    BY <2>1, <2>2, Zenon DEF UptimeInv
<1>3. ASSUME UptimeInv, UNCHANGED uptimeVars PROVE UptimeInv'
  <2>1. /\ service' = service /\ client' = client /\ cq' = cq /\ child' = child
        /\ errors' = errors /\ text' = text /\ stream' = stream /\ backlog' = backlog
        /\ accepts' = accepts /\ todo' = todo /\ holds' = holds /\ answer' = answer
        /\ net' = net /\ replies' = replies /\ recvs' = recvs /\ lost' = lost
        /\ stolen' = stolen
    BY <1>3, Zenon DEF uptimeVars, tcpOnly, udpOnly
  <2>2. TcpInv => TcpInv'
    BY <2>1, Zenon DEF TcpInv, TcpTypes, TcpPlaces, TcpStream, Tcp!TypeOK, Tcp!NoFdLeak
  <2>3. UdpInv => UdpInv'
    BY <2>1, Zenon DEF UdpInv, UdpTypes, UdpPlaces, Udp!TypeOK, Udp!AnswerIsMine
  <2> QED
    BY <1>3, <2>1, <2>2, <2>3, Zenon DEF UptimeInv
<1> QED
  BY <1>1, <1>2, <1>3, Zenon DEF UptimeNext

(* A client that saw the end of the stream has all of it: nothing is under *)
(* way any more, and uptime is gone.                                       *)
LEMMA DoneHasAll == TcpInv => Tcp!OutputWhole
<1> SUFFICES ASSUME TcpInv, NEW c \in Clients, client[c] = "done"
             PROVE  text[c] = (IF child[c] = "exit" THEN Output ELSE <<>>)
  BY Zenon DEF Tcp!OutputWhole
<1>1. stream[c] = <<>> /\ child[c] \in {"exit", "failed"} /\ todo[c] = <<>>
  BY Zenon DEF TcpInv, TcpPlaces, TcpStream
<1>2. text[c] \in Seq(Pieces)
  BY Zenon DEF TcpInv, TcpTypes
<1>3. Together(text[c], <<>>, <<>>) = text[c]
  BY <1>2 DEF Together
<1> QED
  BY <1>1, <1>3, Zenon DEF TcpInv, TcpStream

(* A request is in one place at most, and in one at least as long as no    *)
(* datagram was lost.                                                      *)
LEMMA RequestInOnePlace == UdpInv => Udp!RequestSomewhere
<1> SUFFICES ASSUME UdpInv, NEW c \in Clients
             PROVE  LET places == {p \in {"net", "cq", "child", "stolen"} :
                                     \/ p = "net" /\ c \in net
                                     \/ p = "cq" /\ \E k \in DOMAIN cq : cq[k] = c
                                     \/ p = "child" /\ child[c] # "none"
                                     \/ p = "stolen" /\ c \in stolen}
                    IN /\ \A p, q \in places : p = q
                       /\ client[c] # "start" /\ lost = 0 => places # {}
  BY Zenon DEF Udp!RequestSomewhere
<1>1. (\E k \in DOMAIN cq : cq[k] = c) <=> c \in Elements(cq)
  BY Zenon DEF Elements
<1> QED
  BY <1>1, Zenon DEF UdpInv, UdpPlaces

(* 16/5 .. 16/8, for any clients, any output, any number of datagrams lost *)
(* and of waits that fail: over TCP a client that saw the end of the       *)
(* stream has the whole output, or nothing if no uptime ran for it, and    *)
(* the server holds no connection it has handed over; over UDP an answer   *)
(* is for the client that gets it, and a request is handled once at most   *)
(* and does not vanish.                                                    *)
THEOREM UptimeAnswersRight == UptimeSpec => []AnswersRight
<1>1. UptimeInit => UptimeInv
  BY TcpInit, UdpInit, Zenon DEF UptimeInit, UptimeInv
<1>2. UptimeInv /\ [UptimeNext]_uptimeVars => UptimeInv'
  BY UptimeKeeps, Zenon
<1>3. UptimeInv => AnswersRight
  <2>1. TcpInv => Tcp!TypeOK /\ Tcp!NoFdLeak
    BY Zenon DEF TcpInv, TcpTypes
  <2>2. UdpInv => Udp!TypeOK /\ Udp!AnswerIsMine
    BY Zenon DEF UdpInv, UdpTypes, UdpPlaces
  <2> QED
    BY <2>1, <2>2, DoneHasAll, RequestInOnePlace, Zenon DEF UptimeInv, AnswersRight, ServiceTypeOK
<1> QED
  BY <1>1, <1>2, <1>3, PTL DEF UptimeSpec

-----------------------------------------------------------------------------
(* The timers of 10/23.                                                    *)
INSTANCE FiniteSetTheorems

Order(t, u) == t[1] < u[1] \/ (t[1] = u[1] /\ t[2] <= u[2])

(* Every set of natural numbers that is not empty has a least element.     *)
LEMMA LeastNat ==
  ASSUME NEW T \in SUBSET Nat, T # {}
  PROVE  \E x \in T : \A y \in T : x <= y
<1>1. PICK x \in T : \A y \in T : ~ (<<y, x>> \in OpToRel(<, Nat))
  BY NatLessThanWellFounded, WFMin, Zenon
<1>2. \A y \in T : ~ (y < x)
  BY <1>1, Zenon DEF OpToRel
<1> QED
  BY <1>2

(* The first element of std::set, which orders pairs by their seconds and  *)
(* then by the address of the handler.                                     *)
LEMMA BeginIsFirst ==
  ASSUME NEW S \in SUBSET (Nat \X Nat), S # {}
  PROVE  begin(S) \in S /\ \A u \in S : Order(begin(S), u)
<1>1. PICK a \in {t[1] : t \in S} : \A y \in {t[1] : t \in S} : a <= y
  <2>1. {t[1] : t \in S} \in SUBSET Nat /\ {t[1] : t \in S} # {}
    BY Zenon
  <2> QED
    BY <2>1, LeastNat, Zenon
<1> DEFINE L == {t \in S : t[1] = a}
<1>2. PICK b \in {t[2] : t \in L} : \A y \in {t[2] : t \in L} : b <= y
  <2>1. {t[2] : t \in L} \in SUBSET Nat /\ {t[2] : t \in L} # {}
    BY Zenon
  <2> HIDE DEF L
  <2> QED
    BY <2>1, LeastNat, Zenon
<1>3. PICK t \in L : t[2] = b
  BY <1>2, Zenon
<1>4. \A u \in S : Order(t, u)
  BY SMTT(30), <1>1, <1>2, <1>3 DEF Order
<1>5. \E x \in S : \A u \in S : x[1] < u[1] \/ (x[1] = u[1] /\ x[2] <= u[2])
  BY <1>3, <1>4, Zenon DEF Order
<1> QED
  BY <1>5, Zenon DEF begin, Order
-----------------------------------------------------------------------------
Wide == (0..MaxSeconds) \X Funcs

(* The clock by which asked and called are kept.                           *)
Clock == now - drift

(* The times at which the timers of S end, and at which they would if they *)
(* were set at c.                                                          *)
EndsOf(S) == {<<Clock + alarm + PerSecond * (t[1] - begin(S)[1]), t[2]>> : t \in S}
SetAt(c, S) == {<<c + PerSecond * t[1], t[2]>> : t \in S}

(* What holds also after the clock has struck inside apue_alarm.           *)
Always ==
  /\ alarm_set \in SUBSET Wide /\ alarm \in 0..PerSecond * MaxSeconds
  /\ now \in Nat /\ drift \in Int
  /\ sigalrm \in BOOLEAN /\ struck \in BOOLEAN
  /\ place \in {"main", "blocked", "wait", "sigsuspend", "done"}
  /\ asked \in SUBSET (Int \X Funcs) /\ called \in SUBSET (Int \X Funcs)
  /\ IsFiniteSet(asked)
  /\ place = "blocked" => arg \in Timer
  /\ alarm > 0 => alarm_set # {}
  /\ alarm_set # {} => alarm <= PerSecond * begin(alarm_set)[1]

(* Every timer asked for has added less than a second to the drift, or     *)
(* taken off less than half of one.                                        *)
DriftBounded ==
  LET most == (PerSecond - 1) * Cardinality(asked)
  IN -most <= 2 * drift /\ drift <= most

(* The timers that were asked for and not called are those of the set, no  *)
(* two end together, and the one apue_alarm is called with ends alone.     *)
OnSchedule ==
  /\ alarm_set \subseteq Timer /\ called \subseteq asked
  /\ alarm > 0 <=> alarm_set # {} /\ ~sigalrm
  /\ EndsOf(alarm_set) = asked \ called
  /\ \A a, b \in asked : a[1] = b[1] => a = b
  /\ place = "blocked" => ~sigalrm /\ \A a \in asked : a[1] # end_of(arg)
  /\ DriftBounded

TimersInv == ~Ties /\ Always /\ (~struck => OnSchedule)
-----------------------------------------------------------------------------
(* Seconds and fractions of a second.                                      *)
LEMMA TimesRight ==
  ASSUME NEW a \in Int, NEW b \in Int
  PROVE  /\ PerSecond * a \in Int
         /\ PerSecond * (a - b) = PerSecond * a - PerSecond * b
         /\ a <= b <=> PerSecond * a <= PerSecond * b
         /\ PerSecond * a = PerSecond * b => a = b
<1>1. PerSecond \in Nat \ {0}
  BY TimersAssumption, Zenon
<1> QED
  BY ONLY <1>1

LEMMA DivRange ==
  ASSUME NEW n \in Nat, NEW p \in Nat \ {0}
  PROVE  n \div p \in Nat /\ p * (n \div p) <= n /\ n < p * (n \div p) + p
OBVIOUS

(* alarm(0) is off by less than a second, is not 0 while the clock runs    *)
(* and does not exceed the seconds the alarm was set to.                   *)
LEMMA RoundingSmall ==
  ASSUME alarm \in Nat
  PROVE  /\ alarm_0 \in Nat /\ rounding \in Int
         /\ alarm_0 > 0 <=> alarm > 0
         /\ alarm = 0 => rounding = 0
         /\ 1 - PerSecond <= 2 * rounding /\ rounding <= PerSecond - 1
         /\ \A n \in Nat : alarm <= PerSecond * n => alarm_0 <= n
<1> DEFINE h == PerSecond \div 2
           q == (alarm + h) \div PerSecond
<1>1. PerSecond \in Nat \ {0}
  BY TimersAssumption, Zenon
<1>2. h \in Nat /\ 2 * h <= PerSecond /\ PerSecond < 2 * h + 2 /\ h < PerSecond
  BY <1>1, DivRange
<1> HIDE DEF h
<1>3. q \in Nat /\ PerSecond * q <= alarm + h /\ alarm + h < PerSecond * q + PerSecond
  <2>1. alarm + h \in Nat
    BY <1>2
  <2> QED
    BY <1>1, <2>1, DivRange, Zenon
<1> HIDE DEF q
<1>4. CASE 0 < alarm /\ alarm < PerSecond
  <2>1. alarm_0 = 1 /\ rounding = PerSecond - alarm
    BY <1>1, <1>4 DEF alarm_0, rounding
  <2>2. \A n \in Nat : alarm <= PerSecond * n => 1 <= n
    BY <1>1, <1>4
  <2> QED
    BY <1>1, <1>4, <2>1, <2>2
<1>5. CASE ~ (0 < alarm /\ alarm < PerSecond)
  <2>1. alarm_0 = q
    BY <1>5, Zenon DEF alarm_0, q, h
  <2>2. rounding = PerSecond * q - alarm /\ PerSecond * q \in Int /\ rounding \in Int
    BY <1>1, <1>3, <2>1 DEF rounding
  <2>3. q > 0 <=> alarm > 0
    <3>1. CASE alarm = 0
      <4>1. PerSecond * q < PerSecond * 1
        BY <1>1, <1>2, <1>3, <3>1, <2>2
      <4> QED
        BY <1>1, <1>3, <3>1, <4>1
    <3>2. CASE alarm >= PerSecond
      <4>1. q # 0
        BY <1>1, <1>2, <1>3, <3>2
      <4> QED
        BY <1>1, <1>3, <3>2, <4>1
    <3> QED
      BY <1>1, <1>5, <3>1, <3>2
  <2>4. \A n \in Nat : alarm <= PerSecond * n => q <= n
    <3>1. SUFFICES ASSUME NEW n \in Nat, alarm <= PerSecond * n
                   PROVE  q < n + 1
      BY <1>3
    <3>2. PerSecond * n \in Int /\ PerSecond * (n + 1) = PerSecond * n + PerSecond
      BY <1>1
    <3>3. PerSecond * q < PerSecond * (n + 1)
      BY <1>1, <1>2, <1>3, <2>2, <3>1, <3>2
    <3>4. ~ (n + 1 <= q)
      BY <1>1, <1>3, <3>3, TimesRight
    <3> QED
      BY <1>3, <3>4
  <2>5. alarm = 0 => rounding = 0
    <3>1. alarm = 0 => q = 0
      BY <1>3, <2>3
    <3> QED
      BY <1>1, <2>2, <3>1
  <2>6. 1 - PerSecond <= 2 * rounding /\ rounding <= PerSecond - 1
    BY <1>1, <1>2, <1>3, <2>2
  <2> QED
    BY <1>3, <2>1, <2>2, <2>3, <2>4, <2>5, <2>6, Zenon
<1> QED
  BY <1>4, <1>5, Zenon

(* The sets of timers are sets std::set orders.                            *)
LEMMA FirstOfWide ==
  ASSUME NEW S \in SUBSET Wide, S # {}
  PROVE  /\ begin(S) \in S /\ begin(S) \in Wide
         /\ \A u \in S : Order(begin(S), u) /\ begin(S)[1] <= u[1]
<1>1. S \in SUBSET (Nat \X Nat)
  <2>1. 0..MaxSeconds \subseteq Nat /\ Funcs \subseteq Nat
    BY TimersAssumption
  <2>2. Wide \subseteq Nat \X Nat
    BY <2>1, Zenon DEF Wide
  <2> QED
    BY <2>2, Zenon
<1>2. begin(S) \in S /\ \A u \in S : Order(begin(S), u)
  BY <1>1, BeginIsFirst, Zenon
<1>3. \A u \in S : begin(S)[1] \in Nat /\ u[1] \in Nat
  BY <1>1, <1>2, Zenon
<1>4. \A u \in S : begin(S)[1] <= u[1]
  BY <1>2, <1>3 DEF Order
<1> QED
  BY <1>2, <1>4, Zenon

(* reset_system_alarm sets the alarm for the first timer, so that the      *)
(* seconds of every timer count from now.                                  *)
LEMMA AlarmIsFirst ==
  ASSUME NEW S \in SUBSET Wide, reset_system_alarm(S), alarm_set' = S, Clock' \in Int
  PROVE  /\ alarm' \in 0..PerSecond * MaxSeconds
         /\ S = {} => alarm' = 0
         /\ S # {} => alarm' = PerSecond * begin(S)[1] /\ begin(S) \in S
         /\ EndsOf(alarm_set)' = SetAt(Clock', S)
<1>0. PerSecond * MaxSeconds \in Nat
  BY TimersAssumption
<1>1. CASE S = {}
  BY <1>0, <1>1 DEF reset_system_alarm, EndsOf, SetAt
<1>2. CASE S # {}
  <2>1. begin(S) \in S /\ begin(S) \in Wide
    BY <1>2, FirstOfWide, Zenon
  <2>2. alarm' = PerSecond * begin(S)[1] /\ begin(S)[1] \in 0..MaxSeconds
    BY <1>2, <2>1, Zenon DEF reset_system_alarm, Wide
  <2>3. alarm' \in 0..PerSecond * MaxSeconds
    BY <1>0, <2>2, TimesRight, TimersAssumption
  <2>4. ASSUME NEW t \in S
        PROVE  Clock' + alarm' + PerSecond * (t[1] - begin(S)[1]) = Clock' + PerSecond * t[1]
    <3>1. t[1] \in Int /\ begin(S)[1] \in Int
      BY <2>1, TimersAssumption DEF Wide
    <3>2. /\ PerSecond * t[1] \in Int /\ PerSecond * begin(S)[1] \in Int
          /\ PerSecond * (t[1] - begin(S)[1]) = PerSecond * t[1] - PerSecond * begin(S)[1]
      BY <3>1, TimesRight, Zenon
    <3> QED
      BY <2>2, <3>2
  <2>5. EndsOf(alarm_set)' = SetAt(Clock', S)
    BY <2>4, Zenon DEF EndsOf, SetAt
  <2> QED
    BY <1>2, <2>1, <2>2, <2>3, <2>5, Zenon
<1> QED
  BY <1>1, <1>2, Zenon

(* Timers moved by n seconds end where they did, counted from n later.     *)
LEMMA LaterEnds ==
  ASSUME NEW S, NEW c, NEW n
  PROVE  SetAt(c, Later(S, n)) = {<<c + PerSecond * (t[1] - n), t[2]>> : t \in S}
<1> DEFINE f(t) == <<t[1] - n, t[2]>>
<1>1. \A t : f(t)[1] = t[1] - n /\ f(t)[2] = t[2]
  BY Zenon
<1>2. Later(S, n) = {f(t) : t \in S}
  BY Zenon DEF Later
<1> HIDE DEF f
<1>3. SetAt(c, Later(S, n)) = {<<c + PerSecond * f(t)[1], f(t)[2]>> : t \in S}
  BY <1>2, Zenon DEF SetAt
<1> QED
  BY <1>1, <1>3, Zenon

(* main asks for a timer: without Ties, one that ends alone.               *)
LEMMA CallKeeps ==
  ASSUME TimersInv, NEW t \in Timer, call_apue_alarm(t)
  PROVE  TimersInv'
<1>1. Always'
  BY Zenon DEF TimersInv, Always, call_apue_alarm
<1>2. OnSchedule => OnSchedule'
  <2>1. ~Ties => \A a \in asked' : a[1] # end_of(arg)'
    BY Zenon DEF call_apue_alarm, end_of, rounding, alarm_0
  <2> QED
    BY <2>1, Zenon DEF TimersInv, OnSchedule, DriftBounded, EndsOf, Clock, call_apue_alarm
<1> QED
  BY <1>1, <1>2, Zenon DEF TimersInv, call_apue_alarm

(* One more timer bounds the drift as before.                              *)
LEMMA DriftKeeps ==
  ASSUME NEW d \in Int, NEW r \in Int, NEW n \in Nat, NEW P \in Nat \ {0},
         -((P - 1) * n) <= 2 * d, d <= (P - 1) * n, 1 - P <= 2 * r, r <= P - 1
  PROVE  -((P - 1) * (n + 1)) <= 2 * (d + r) /\ d + r <= (P - 1) * (n + 1)
<1>1. (P - 1) * (n + 1) = (P - 1) * n + (P - 1) /\ (P - 1) * n \in Int
  OBVIOUS
<1> QED
  BY <1>1

(* apue_alarm counts the timers of the set from now and puts in its own.   *)
LEMMA AlarmKeeps ==
  ASSUME TimersInv, apue_alarm
  PROVE  TimersInv'
<1> DEFINE b == begin(alarm_set)
           M == IF alarm_0 > 0 THEN Later(alarm_set, b[1] - alarm_0) ELSE alarm_set
           S == M \cup {arg}
           a == <<end_of(arg), arg[2]>>
<1>1. /\ place = "blocked" /\ place' = "main" /\ asked' = asked \cup {a}
      /\ drift' = drift + rounding
      /\ alarm_set' = S /\ reset_system_alarm(S)
      /\ UNCHANGED <<sigalrm, arg, struck, now, called>>
  BY Zenon DEF apue_alarm
<1>2. Always /\ ~Ties /\ arg \in Timer /\ arg[1] \in 1..MaxSeconds /\ arg[2] \in Funcs
  BY <1>1, Zenon DEF TimersInv, Always, Timer
<1>3. alarm \in Nat /\ now \in Nat /\ drift \in Int
  BY <1>2, TimersAssumption DEF Always
<1>4. /\ alarm_0 \in Nat /\ rounding \in Int /\ (alarm_0 > 0 <=> alarm > 0)
      /\ \A n \in Nat : alarm <= PerSecond * n => alarm_0 <= n
  BY <1>3, RoundingSmall, Zenon
<1>5. alarm_0 > 0 => /\ b \in Wide /\ b[1] \in Nat /\ alarm_0 <= b[1]
                     /\ \A t \in alarm_set : b[1] <= t[1]
  <2>1. SUFFICES ASSUME alarm_0 > 0
                 PROVE  /\ b \in Wide /\ b[1] \in Nat /\ alarm_0 <= b[1]
                        /\ \A t \in alarm_set : b[1] <= t[1]
    BY Zenon
  <2>2. alarm_set # {} /\ alarm <= PerSecond * b[1]
    BY <1>2, <1>4, <2>1, Zenon DEF Always
  <2>3. b \in Wide /\ \A t \in alarm_set : b[1] <= t[1]
    BY <1>2, <2>2, FirstOfWide, Zenon DEF Always
  <2>4. b[1] \in Nat
    BY <2>3, TimersAssumption DEF Wide
  <2> QED
    BY <1>4, <2>2, <2>3, <2>4, Zenon
<1>6. M \in SUBSET Wide
  <2>1. CASE alarm_0 > 0
    <3>1. ASSUME NEW t \in alarm_set
          PROVE  <<t[1] - (b[1] - alarm_0), t[2]>> \in Wide
      BY SMTT(30), <1>2, <1>4, <1>5, <2>1, TimersAssumption DEF Always, Wide
    <3> QED
      BY <2>1, <3>1, Zenon DEF Later
  <2>2. CASE ~ (alarm_0 > 0)
    BY <1>2, <2>2, Zenon DEF Always
  <2> QED
    BY <2>1, <2>2, Zenon
<1>7. S \in SUBSET Wide
  <2>1. arg \in Wide
    BY <1>2 DEF Wide, Timer
  <2> QED
    BY <1>6, <2>1, Zenon
<1>8. S # {} /\ Clock' = now - (drift + rounding) /\ Clock' \in Int /\ drift' \in Int
  BY <1>1, <1>3, <1>4 DEF Clock
<1> HIDE DEF S
<1>9. /\ alarm' \in 0..PerSecond * MaxSeconds
      /\ alarm' = PerSecond * begin(S)[1] /\ begin(S) \in S
      /\ EndsOf(alarm_set)' = SetAt(Clock', S)
  BY <1>1, <1>7, <1>8, AlarmIsFirst, Zenon
<1>10. end_of(arg) = Clock' + PerSecond * arg[1] /\ a \in Int \X Funcs
  <2>1. arg[1] \in Int
    BY <1>2, TimersAssumption
  <2>2. PerSecond * arg[1] \in Int
    BY <2>1, TimesRight, Zenon
  <2> QED
    BY <1>2, <1>8, <2>2 DEF end_of
<1>11. Always'
  <2>1. IsFiniteSet(asked')
    BY <1>1, <1>2, FS_AddElement, Zenon DEF Always
  <2>2. alarm' <= PerSecond * begin(S)[1]
    BY <1>9, TimersAssumption
  <2>3. asked' \in SUBSET (Int \X Funcs) /\ called' \in SUBSET (Int \X Funcs)
    BY <1>1, <1>2, <1>10, Zenon DEF Always
  <2> QED
    BY <1>1, <1>2, <1>7, <1>8, <1>9, <2>1, <2>2, <2>3, Zenon DEF Always
<1>12. ASSUME ~struck
       PROVE  OnSchedule'
  <2>1. OnSchedule /\ ~sigalrm /\ \A x \in asked : x[1] # end_of(arg)
    BY <1>1, <1>12, Zenon DEF TimersInv, OnSchedule
  <2>2. M \subseteq Timer /\ EndsOf(alarm_set) = SetAt(Clock', M)
    <3>1. CASE alarm_0 > 0
      <4>1. \A t \in alarm_set : <<t[1] - (b[1] - alarm_0), t[2]>> \in Timer
        BY SMTT(30), <1>4, <1>5, <2>1, <3>1, TimersAssumption DEF OnSchedule, Timer
      <4>2. ASSUME NEW t \in alarm_set
            PROVE  Clock + alarm + PerSecond * (t[1] - b[1])
                     = Clock' + PerSecond * (t[1] - (b[1] - alarm_0))
        <5>1. t[1] \in Int /\ b[1] \in Int /\ alarm_0 \in Int
          BY <1>4, <1>5, <2>1, <3>1 DEF OnSchedule, Timer
        <5>2. PerSecond \in Int
          BY TimersAssumption
        <5>3. Clock = now - drift /\ rounding = PerSecond * alarm_0 - alarm
          BY Zenon DEF Clock, rounding
        <5>4. Clock' = now - (drift + rounding)
          BY <1>8, Zenon
        <5> HIDE DEF b
        <5> QED
          BY ONLY <1>3, <5>1, <5>2, <5>3, <5>4
      <4>3. EndsOf(alarm_set)
              = {<<Clock' + PerSecond * (t[1] - (b[1] - alarm_0)), t[2]>> : t \in alarm_set}
        BY <4>2, Zenon DEF EndsOf
      <4>4. M = Later(alarm_set, b[1] - alarm_0)
        BY <3>1, Zenon
      <4>5. M \subseteq Timer
        BY <4>1, <4>4, Zenon DEF Later
      <4>6. SetAt(Clock', Later(alarm_set, b[1] - alarm_0))
              = {<<Clock' + PerSecond * (t[1] - (b[1] - alarm_0)), t[2]>> : t \in alarm_set}
        <5> HIDE DEF b
        <5> QED
          BY LaterEnds
      <4> QED
        BY <4>3, <4>4, <4>5, <4>6, Zenon
    <3>2. CASE ~ (alarm_0 > 0)
      <4>1. M = {} /\ alarm_set = {}
        BY <1>3, <1>4, <2>1, <3>2, Zenon DEF OnSchedule
      <4> QED
        BY <4>1, Zenon DEF EndsOf, SetAt
    <3> QED
      BY <3>1, <3>2, Zenon
  <2>3. S \subseteq Timer
    BY <1>2, <2>2, Zenon DEF S
  <2>4. EndsOf(alarm_set)' = (asked \ called) \cup {a}
    <3> HIDE DEF M
    <3>1. SetAt(Clock', S) = SetAt(Clock', M) \cup {a}
      BY <1>10, Zenon DEF S, SetAt
    <3> QED
      BY <1>9, <2>1, <2>2, <3>1, Zenon DEF OnSchedule
  <2>5. a \notin asked /\ a \notin called
    BY <2>1, Zenon DEF OnSchedule
  <2>6. EndsOf(alarm_set)' = asked' \ called'
    BY <1>1, <2>4, <2>5, Zenon
  <2>7. alarm' > 0
    <3>1. begin(S)[1] \in Nat /\ begin(S)[1] > 0
      BY <1>9, <2>3, TimersAssumption DEF Timer
    <3>2. PerSecond \in Nat \ {0} /\ alarm' = PerSecond * begin(S)[1]
      BY <1>9, TimersAssumption, Zenon
    <3> QED
      BY ONLY <3>1, <3>2
  <2>8. \A x, y \in asked' : x[1] = y[1] => x = y
    <3>1. asked' = asked \cup {a} /\ a[1] = end_of(arg)
      BY <1>1, Zenon
    <3>2. (\A x, y \in asked : x[1] = y[1] => x = y) /\ \A x \in asked : x[1] # a[1]
      BY <2>1, <3>1, Zenon DEF OnSchedule
    <3> HIDE DEF a
    <3> QED
      BY ONLY <3>1, <3>2, Zenon
  <2>9. DriftBounded'
    <3>1. Cardinality(asked') = Cardinality(asked) + 1 /\ Cardinality(asked) \in Nat
      BY <1>1, <1>2, <2>5, FS_AddElement, FS_CardinalityType, Zenon DEF Always
    <3>2. PerSecond \in Nat \ {0} /\ 1 - PerSecond <= 2 * rounding /\ rounding <= PerSecond - 1
      BY <1>3, RoundingSmall, TimersAssumption, Zenon
    <3>3. /\ -((PerSecond - 1) * Cardinality(asked)) <= 2 * drift
          /\ drift <= (PerSecond - 1) * Cardinality(asked)
      BY <2>1, Zenon DEF OnSchedule, DriftBounded
    <3>4. /\ -((PerSecond - 1) * (Cardinality(asked) + 1)) <= 2 * (drift + rounding)
          /\ drift + rounding <= (PerSecond - 1) * (Cardinality(asked) + 1)
      BY <1>3, <1>4, <3>1, <3>2, <3>3, DriftKeeps, Zenon
    <3> QED
      BY <1>1, <3>1, <3>4, Zenon DEF DriftBounded
  <2> QED
    BY <1>1, <1>8, <2>1, <2>3, <2>6, <2>7, <2>8, <2>9, Zenon DEF OnSchedule
<1> QED
  BY <1>1, <1>2, <1>11, <1>12, Zenon DEF TimersInv

(* apue_alarm_handler takes the first timer out, calls its handler, and    *)
(* counts the others from now.                                             *)
LEMMA HandlerKeeps ==
  ASSUME TimersInv, apue_alarm_handler
  PROVE  TimersInv'
<1>1. CASE alarm_set = {}
  BY <1>1, Zenon DEF TimersInv, Always, OnSchedule, EndsOf, Clock, DriftBounded, apue_alarm_handler
<1>2. CASE alarm_set # {}
  <2> DEFINE first == begin(alarm_set)
             R == alarm_set \ {first}
             S == Later(R, first[1])
             c == <<Clock, first[2]>>
  <2>1. /\ sigalrm /\ sigalrm' = FALSE /\ called' = called \cup {c}
        /\ place \in {"main", "sigsuspend"} /\ place' \in {"main", "wait"}
        /\ alarm_set' = S /\ reset_system_alarm(S)
        /\ UNCHANGED <<arg, struck, now, drift, asked>>
    BY <1>2, Zenon DEF apue_alarm_handler, Clock
  <2>2. Always /\ ~Ties
    BY Zenon DEF TimersInv
  <2>3. /\ first \in alarm_set /\ first[1] \in 0..MaxSeconds /\ first[2] \in Funcs
        /\ \A t \in alarm_set : first[1] <= t[1]
    BY <1>2, <2>2, FirstOfWide, Zenon DEF Always, Wide
  <2>4. S \in SUBSET Wide
    <3>1. \A t \in R : <<t[1] - first[1], t[2]>> \in Wide
      BY <2>2, <2>3, TimersAssumption DEF Always, Wide
    <3> QED
      BY <3>1, Zenon DEF Later
  <2>5. Clock' = Clock /\ Clock \in Int /\ c \in Int \X Funcs
    <3>1. now \in Int /\ drift \in Int
      BY <2>2 DEF Always
    <3>2. Clock \in Int
      BY <3>1 DEF Clock
    <3>3. Clock' = Clock
      BY <2>1, Zenon DEF Clock
    <3> QED
      BY <2>3, <3>2, <3>3, Zenon
  <2> HIDE DEF S
  <2>6. /\ alarm' \in 0..PerSecond * MaxSeconds
        /\ S = {} => alarm' = 0
        /\ S # {} => alarm' = PerSecond * begin(S)[1] /\ begin(S) \in S
        /\ EndsOf(alarm_set)' = SetAt(Clock, S)
    BY <2>1, <2>4, <2>5, AlarmIsFirst, Zenon
  <2>7. Always'
    <3> HIDE DEF c, R
    <3>1. called' \in SUBSET (Int \X Funcs) /\ asked' \in SUBSET (Int \X Funcs)
      BY <2>1, <2>2, <2>5, Zenon DEF Always
    <3>2. alarm' \in Nat
      BY <2>6, TimersAssumption
    <3>3. /\ alarm' > 0 => S # {}
          /\ S # {} => alarm' <= PerSecond * begin(S)[1]
      BY <2>6, <3>2
    <3> QED
      BY <2>1, <2>2, <2>4, <2>6, <3>1, <3>3, Zenon DEF Always
  <2>8. ASSUME ~struck
        PROVE  OnSchedule'
    <3> DEFINE e(t) == <<Clock + PerSecond * (t[1] - first[1]), t[2]>>
    <3>1. OnSchedule /\ alarm = 0
      BY <2>1, <2>2, <2>8 DEF TimersInv, OnSchedule, Always
    <3>2. \A t \in alarm_set : t[1] \in 1..MaxSeconds /\ t = <<t[1], t[2]>>
      BY <3>1 DEF OnSchedule, Timer
    <3>3. \A t \in alarm_set : Clock + alarm + PerSecond * (t[1] - first[1])
                                  = Clock + PerSecond * (t[1] - first[1])
      BY <2>5, <3>1
    <3>4. asked \ called = {e(t) : t \in alarm_set}
      BY <3>1, <3>3, Zenon DEF OnSchedule, EndsOf
    <3>5. e(first) = c
      <4>1. PerSecond \in Int /\ first[1] \in Int
        BY <2>3, TimersAssumption
      <4>2. Clock + PerSecond * (first[1] - first[1]) = Clock
        BY ONLY <2>5, <4>1
      <4> QED
        BY <4>2, Zenon
    <3>6. ASSUME NEW t \in R
          PROVE  e(t) # c /\ t[1] > first[1]
      <4>1. e(t) \in asked /\ c \in asked
        BY <2>3, <3>4, <3>5, Zenon
      <4>2. t[1] # first[1]
        <5>1. SUFFICES ASSUME t[1] = first[1] PROVE FALSE
          BY Zenon
        <5>2. e(t)[1] = c[1]
          BY <3>5, <5>1, Zenon
        <5>3. e(t) = c
          BY <3>1, <4>1, <5>2, Zenon DEF OnSchedule
        <5>4. t[2] = first[2]
          BY <5>3, Zenon
        <5> QED
          BY <2>3, <3>2, <5>1, <5>4, Zenon
      <4>3. t[1] \in Int /\ first[1] \in Int /\ first[1] <= t[1]
        BY <2>3, <3>2, TimersAssumption
      <4>4. t[1] - first[1] \in Int /\ t[1] - first[1] # 0 /\ t[1] > first[1]
        BY <4>2, <4>3
      <4>5. PerSecond * (t[1] - first[1]) \in Int /\ PerSecond * (t[1] - first[1]) # 0
        <5> DEFINE d == t[1] - first[1]
        <5>1. PerSecond \in Nat \ {0} /\ d \in Int /\ d # 0
          BY <4>4, TimersAssumption, Zenon
        <5> HIDE DEF d
        <5>2. PerSecond * d \in Int /\ PerSecond * d # 0
          BY ONLY <5>1
        <5> QED
          BY <5>2, Zenon DEF d
      <4>6. Clock + PerSecond * (t[1] - first[1]) # Clock
        BY <2>5, <4>5
      <4> QED
        BY <4>4, <4>6, Zenon
    <3>7. S \subseteq Timer
      <4>1. \A t \in R : <<t[1] - first[1], t[2]>> \in Timer
        BY SMTT(30), <2>3, <3>1, <3>6, TimersAssumption DEF OnSchedule, Timer
      <4> QED
        BY <4>1, Zenon DEF S, Later
    <3>8. EndsOf(alarm_set)' = {e(t) : t \in R}
      <4>1. SetAt(Clock, Later(R, first[1])) = {e(t) : t \in R}
        <5> HIDE DEF R, first
        <5> QED
          BY LaterEnds
      <4>2. EndsOf(alarm_set)' = SetAt(Clock, S)
        BY <2>6, Zenon
      <4> QED
        BY <4>1, <4>2, Zenon DEF S
    <3>9. EndsOf(alarm_set)' = asked' \ called'
      <4>1. asked' \ called' = (asked \ called) \ {c}
        BY <2>1, Zenon
      <4>2. {e(t) : t \in alarm_set} \ {c} = {e(t) : t \in R}
        <5> HIDE DEF e, c
        <5> QED
          BY <2>3, <3>5, <3>6, Zenon
      <4> QED
        BY <3>4, <3>8, <4>1, <4>2, Zenon
    <3>10. called' \subseteq asked'
      BY <2>1, <2>3, <3>1, <3>4, <3>5, Zenon DEF OnSchedule
    <3>11. alarm' > 0 <=> S # {}
      <4>1. CASE S = {}
        BY <2>6, <4>1
      <4>2. CASE S # {}
        <5>1. begin(S)[1] \in Nat /\ begin(S)[1] > 0
          BY <2>6, <3>7, <4>2, TimersAssumption DEF Timer
        <5>2. PerSecond \in Nat \ {0} /\ alarm' = PerSecond * begin(S)[1]
          BY <2>6, <4>2, TimersAssumption, Zenon
        <5>3. alarm' > 0
          BY ONLY <5>1, <5>2
        <5> QED
          BY <4>2, <5>3, Zenon
      <4> QED
        BY <4>1, <4>2, Zenon
    <3>12. DriftBounded'
      BY <2>1, <3>1, Zenon DEF OnSchedule, DriftBounded
    <3> QED
      BY <2>1, <3>1, <3>7, <3>9, <3>10, <3>11, <3>12, Zenon DEF OnSchedule
  <2> QED
    BY <2>1, <2>2, <2>7, <2>8, Zenon DEF TimersInv
<1> QED
  BY <1>1, <1>2, Zenon

(* Waiting touches no timer.                                               *)
LEMMA WaitKeeps ==
  ASSUME TimersInv, wait_apue_timers
  PROVE  TimersInv'
<1>1. /\ UNCHANGED <<alarm_set, alarm, sigalrm, arg, struck, now, drift, asked, called>>
      /\ place \in {"main", "wait"} /\ place' \in {"wait", "sigsuspend", "done"}
  BY Zenon DEF wait_apue_timers
<1>2. Always => Always'
  BY <1>1, Zenon DEF Always
<1>3. OnSchedule => OnSchedule'
  BY <1>1, Zenon DEF OnSchedule, DriftBounded, EndsOf, Clock
<1> QED
  BY <1>1, <1>2, <1>3, Zenon DEF TimersInv

(* Time brings the first timer nearer by as much as it moves now.          *)
LEMMA TickKeeps ==
  ASSUME TimersInv, Tick
  PROVE  TimersInv'
<1>1. Always /\ ~Ties
  BY Zenon DEF TimersInv
<1>2. alarm_set # {} => PerSecond * begin(alarm_set)[1] \in Int
  <2>1. SUFFICES ASSUME alarm_set # {}
                 PROVE  begin(alarm_set)[1] \in Int
    BY TimesRight, Zenon
  <2>2. begin(alarm_set) \in Wide
    BY <1>1, <2>1, FirstOfWide, Zenon DEF Always
  <2> QED
    BY <2>2, TimersAssumption DEF Wide
<1>3. Always'
  <2>1. alarm \in Nat /\ PerSecond * MaxSeconds \in Nat
    BY <1>1, TimersAssumption DEF Always
  <2>2. alarm' \in 0..PerSecond * MaxSeconds /\ alarm' <= alarm /\ alarm' \in Nat
    BY <1>1, <2>1 DEF Always, Tick
  <2>3. now' \in Nat
    BY <1>1 DEF Always, Tick
  <2>4. alarm' > 0 => alarm > 0
    BY <2>1, <2>2
  <2>5. alarm_set # {} => alarm' <= PerSecond * begin(alarm_set)[1]
    <3>1. alarm_set # {} => alarm <= PerSecond * begin(alarm_set)[1]
      BY <1>1, Zenon DEF Always
    <3> QED
      BY ONLY <1>2, <2>1, <2>2, <3>1
  <2>6. struck' \in BOOLEAN /\ sigalrm' \in BOOLEAN
    BY Zenon DEF Tick
  <2> QED
    BY <1>1, <2>2, <2>3, <2>4, <2>5, <2>6, Zenon DEF Always, Tick
<1>4. ASSUME ~struck'
      PROVE  OnSchedule'
  <2>1. OnSchedule /\ ~struck /\ place # "blocked" /\ ~sigalrm
    BY <1>1, <1>4, Zenon DEF Tick, TimersInv, Always
  <2>2. EndsOf(alarm_set)' = EndsOf(alarm_set)
    <3>1. CASE alarm > 0
      <4>1. now \in Int /\ drift \in Int /\ alarm \in Int
        BY <1>1 DEF Always
      <4>2. now' = now + 1 /\ alarm' = alarm - 1 /\ drift' = drift /\ alarm_set' = alarm_set
        BY <3>1, Zenon DEF Tick
      <4>3. Clock' + alarm' = Clock + alarm
        BY <4>1, <4>2 DEF Clock
      <4> QED
        BY <4>2, <4>3, Zenon DEF EndsOf
    <3>2. CASE ~ (alarm > 0)
      BY <2>1, <3>2, Zenon DEF OnSchedule, EndsOf, Tick
    <3> QED
      BY <3>1, <3>2, Zenon
  <2>3. alarm' > 0 <=> alarm_set' # {} /\ ~sigalrm'
    <3>1. (alarm > 0 <=> alarm_set # {}) /\ alarm_set' = alarm_set /\ alarm \in Nat
      BY <1>1, <2>1 DEF OnSchedule, Always, Tick
    <3>2. CASE alarm = 0
      BY <3>1, <3>2 DEF Tick
    <3>3. CASE alarm = 1
      <4>1. sigalrm'
        BY <3>3, Zenon DEF Tick
      <4>2. alarm' = 0
        BY <3>3 DEF Tick
      <4> QED
        BY <4>1, <4>2
    <3>4. CASE alarm > 1
      <4>1. alarm # 1 /\ alarm > 0
        BY <3>1, <3>4
      <4>2. ~sigalrm' /\ alarm' = alarm - 1
        BY <4>1, Zenon DEF Tick
      <4> QED
        BY <3>1, <3>4, <4>2
    <3> QED
      BY SMTT(30), <3>1, <3>2, <3>3, <3>4
  <2> QED
    BY <2>1, <2>2, <2>3, Zenon DEF OnSchedule, DriftBounded, Tick
<1> QED
  BY <1>1, <1>3, <1>4, Zenon DEF TimersInv

(* However often apue_alarm and its handler stop the clock and set it      *)
(* again (10/23:14-69), the set is the schedule of the timers that were    *)
(* asked for, but for the drift, which is bounded: a call puts the timers  *)
(* off by less than a second. This is so as long as the set never has two  *)
(* timers of the same seconds, be it by the rounding of alarm(0), and the  *)
(* clock does not strike inside apue_alarm.                                *)
THEOREM ScheduleKept ==
  ASSUME ~Ties
  PROVE  TimersSpec => []SetIsSchedule
<1>1. TimersInit => TimersInv
  <2> SUFFICES ASSUME TimersInit
               PROVE  Always /\ OnSchedule
    BY Zenon DEF TimersInv
  <2>1. Always
    <3>1. 0 \in 0..PerSecond * MaxSeconds /\ 0 \in Nat /\ 0 \in Int /\ ~ (0 > 0)
      BY TimersAssumption
    <3>2. IsFiniteSet({})
      BY FS_EmptySet, Zenon
    <3> QED
      BY <3>1, <3>2, Zenon DEF TimersInit, Always
  <2>2. EndsOf(alarm_set) = {}
    BY Zenon DEF TimersInit, EndsOf
  <2>3. DriftBounded
    <3>1. Cardinality(asked) = 0 /\ drift = 0
      BY FS_EmptySet, Zenon DEF TimersInit
    <3> QED
      BY <3>1, TimersAssumption DEF DriftBounded
  <2>4. OnSchedule
    BY <2>2, <2>3 DEF TimersInit, OnSchedule
  <2> QED
    BY <2>1, <2>4, Zenon
<1>2. TimersInv /\ [TimersNext]_timerVars => TimersInv'
  <2> SUFFICES ASSUME TimersInv, [TimersNext]_timerVars
               PROVE  TimersInv'
    BY Zenon
  <2>1. CASE UNCHANGED timerVars
    BY <2>1, Zenon DEF timerVars, TimersInv, Always, OnSchedule, DriftBounded, EndsOf, Clock,
         end_of, rounding, alarm_0
  <2> QED
    BY <2>1, CallKeeps, AlarmKeeps, HandlerKeeps, WaitKeeps, TickKeeps, Zenon DEF TimersNext
<1>3. TimersInv => SetIsSchedule
  BY Zenon DEF TimersInv, Always, OnSchedule, DriftBounded, EndsOf, Clock, SetIsSchedule
<1> QED
  BY <1>1, <1>2, <1>3, PTL DEF TimersSpec
=============================================================================
