---------------------------- MODULE SocketProofs ----------------------------
(***************************************************************************)
(* Proofs about SocketPrograms for any clients, files and failures.        *)
(***************************************************************************)
EXTENDS SocketPrograms, TLAPS

Elements(s) == {s[k] : k \in DOMAIN s}
Distinct(s) == \A j, k \in DOMAIN s : s[j] = s[k] => j = k

(* The requests for the paths, and the answers that a request may get.     *)
Requests == {Daemon!request(p) : p \in Daemon!Paths}
Reply(s) == {Daemon!send_fd(t.fd, t.status) : t \in Daemon!target(s)}
Replies == UNION {Reply(s) : s \in Requests}

Completions ==
  [type : {"OP_ACCEPT"}, fd : Daemon!Numbers, res : Daemon!Numbers]
    \cup [type : {"OP_ACCEPT"}, fd : {0}, res : {-1}]
    \cup [type : {"OP_READ"}, fd : Daemon!Numbers, res : Nat]

DaemonTypes ==
  /\ Daemon!TypeOK
  /\ up \in [Clients -> Seq(Requests)] /\ down \in [Clients -> Seq(Replies)]
  /\ backlog \in Seq(Clients) /\ Distinct(backlog)
  /\ cq \in Seq(Completions)

(* What the client has done tells what there is of its connection.         *)
ClientRight(c) ==
  /\ client[c] \in {"start", "connected"} => wants[c] = <<>>
  /\ client[c] \in {"asked", "finished"} => wants[c] # <<>>
  /\ wants[c] = <<>> => up[c] = <<>> /\ down[c] = <<>>
  /\ client[c] # "finished" => got[c] = "waiting"
  /\ up[c] \in {<<>>, <<Daemon!request(wants[c])>>}
  /\ down[c] = <<>> \/ \E m \in Reply(Daemon!request(wants[c])) : down[c] = <<m>>

DaemonClients == \A c \in Clients : ClientRight(c)

(* A connection is in the backlog or has one descriptor, and its client    *)
(* has not been answered and has not finished.                             *)
Connected(c) ==
  /\ client[c] # "start" /\ down[c] = <<>>
  /\ server = "running" => client[c] # "finished"

DaemonConnections ==
  /\ \A c \in Elements(backlog) : Connected(c) /\ \A n \in Daemon!Numbers : fds[n] # c
  /\ \A n \in Daemon!Numbers : fds[n] # Daemon!Free =>
       /\ Connected(fds[n])
       /\ \A m \in Daemon!Numbers : fds[m] = fds[n] => m = n

(* Every descriptor has one request or completion, and no more.            *)
DaemonRing ==
  /\ \A j, k \in DOMAIN cq : cq[j].fd = cq[k].fd /\ cq[j].fd # 0 => j = k
  /\ \A k \in DOMAIN cq : cq[k].fd # 0 => /\ cq[k].fd \notin reads /\ fds[cq[k].fd] # Daemon!Free
                                          /\ cq[k].type = "OP_ACCEPT" => cq[k].res = cq[k].fd
                                          /\ cq[k].type = "OP_READ" /\ cq[k].res > 0 => up[fds[cq[k].fd]] # <<>>
  /\ \A n \in reads : fds[n] # Daemon!Free
  /\ \A n \in Daemon!Numbers : fds[n] # Daemon!Free => n \in reads \/ \E k \in DOMAIN cq : cq[k].fd = n

DaemonInv ==
  DaemonTypes /\ DaemonClients /\ DaemonConnections /\ DaemonRing /\ Daemon!ListenerArmed

-----------------------------------------------------------------------------
(* 17/3: where the parent is tells which lines are still to come, who      *)
(* holds the ends of the socket pairs and what is in the sockets.  After   *)
(* the parent's end the servers' ends matter to nobody.                    *)
ForkTypes ==
  /\ Fork!TypeOK
  /\ lines \in [Fork!Lines -> Daemon!Paths \cup {<<>>}]
  /\ to_child \in [Fork!Lines -> Seq(Requests)] /\ to_parent \in [Fork!Lines -> Seq(Replies)]

ForkRuns == parent \notin {"done", "killed"}
Live(l) == child[l] \in {"close", "loop"}

Ahead(l) == answers[l] = "waiting" /\ lines[l] = <<>> /\ l \notin unsent /\ child[l] = "none"

ForkPlace ==
  /\ \A l \in Fork!Lines : l > line => Ahead(l)
  /\ parent \in {"request", "recv_fd", "waitpid", "cat"} => line \in Fork!Lines /\ line \notin unsent
  /\ parent \in {"request", "recv_fd"} => answers[line] = "waiting" /\ lines[line] # <<>>
  /\ parent \notin {"waitpid", "cat"} => opened = {}

(* The child's end is its own; the parent's end is the parent's as long as *)
(* it waits for the answer, or for good if the request was not written,    *)
(* and that of servers which inherited it. A line that is over leaves no   *)
(* server and no end.                                                      *)
HeldRight(l) ==
  /\ held[l][1] \subseteq {l} /\ (held[l][1] # {} => Live(l))
  /\ \A p \in held[l][0] : p = 0 \/ (p \in Fork!Lines /\ p >= l /\ Live(p))
  /\ l \in held[l][0] => child[l] = "close"
  /\ 0 \in held[l][0] <=> (l \in unsent \/ (l = line /\ parent \in {"request", "recv_fd"}))
  /\ l \in unsent \/ (l = line /\ parent \in {"request", "recv_fd", "waitpid"})
       \/ (child[l] \in {"none", "reaped"} /\ held[l][0] = {} /\ held[l][1] = {})

ForkHeld == ForkRuns => \A l \in Fork!Lines : HeldRight(l)

StreamRight(l) ==
  /\ \/ to_child[l] = <<>>
     \/ /\ l = line /\ parent \in {"recv_fd", "waitpid"} /\ Live(l)
        /\ to_child[l] = <<Daemon!request(lines[l])>> /\ to_parent[l] = <<>>
  /\ \/ to_parent[l] = <<>>
     \/ /\ l = line /\ parent = "recv_fd"
        /\ \E m \in Reply(Daemon!request(lines[l])) : to_parent[l] = <<m>>

ForkStreams == ForkRuns => \A l \in Fork!Lines : StreamRight(l)

ForkInv == ForkTypes /\ ForkPlace /\ ForkHeld /\ ForkStreams

-----------------------------------------------------------------------------
(* What is assumed of the constants that are not words.                    *)
LEMMA Bounds ==
  /\ "free" \notin Clients /\ OpenMax \in Nat /\ MaxWords \in Nat \ {0} /\ MaxLines \in Nat
  /\ MAXMSZ \in Nat \ {0} /\ MaxMsg \in Nat /\ SocketMax \in Nat /\ MaxErrors \in Nat
BY SocketAssumption, Zenon

(* An element put at the end of a sequence.                                *)
LEMMA AppendIs ==
  ASSUME NEW S, NEW s \in Seq(S), NEW x \in S
  PROVE  /\ Append(s, x) \in Seq(S) /\ Len(Append(s, x)) = Len(s) + 1 /\ Len(s) \in Nat
         /\ DOMAIN s = 1..Len(s) /\ DOMAIN Append(s, x) = 1..(Len(s) + 1)
         /\ Append(s, x)[Len(s) + 1] = x
         /\ \A k \in 1..Len(s) : Append(s, x)[k] = s[k]
OBVIOUS

(* The first element of a sequence taken away.                             *)
LEMMA TailIs ==
  ASSUME NEW S, NEW s \in Seq(S), s # <<>>
  PROVE  /\ Tail(s) \in Seq(S) /\ Len(Tail(s)) = Len(s) - 1 /\ Len(s) \in Nat /\ Len(s) > 0
         /\ DOMAIN s = 1..Len(s) /\ DOMAIN Tail(s) = 1..(Len(s) - 1)
         /\ Head(s) = s[1] /\ s[1] \in S /\ 1 \in DOMAIN s
         /\ \A k \in 1..(Len(s) - 1) : Tail(s)[k] = s[k + 1]
OBVIOUS

(* The elements of a sequence that grows, and of one that shrinks.         *)
LEMMA AppendElements ==
  ASSUME NEW S, NEW s \in Seq(S), NEW x \in S
  PROVE  /\ Append(s, x) \in Seq(S) /\ Elements(Append(s, x)) = Elements(s) \cup {x}
         /\ Distinct(s) /\ x \notin Elements(s) => Distinct(Append(s, x))
<1>1. Elements(Append(s, x)) = Elements(s) \cup {x}
  BY AppendIs DEF Elements
<1>2. Distinct(s) /\ x \notin Elements(s) => Distinct(Append(s, x))
  BY AppendIs DEF Elements, Distinct
<1> QED
  BY <1>1, <1>2

LEMMA TailElements ==
  ASSUME NEW S, NEW s \in Seq(S), s # <<>>
  PROVE  /\ Tail(s) \in Seq(S) /\ Head(s) \in S /\ Head(s) \in Elements(s)
         /\ Distinct(s) => Distinct(Tail(s)) /\ Elements(Tail(s)) = Elements(s) \ {Head(s)}
<1>1. Head(s) \in Elements(s)
  BY TailIs, Zenon DEF Elements
<1>2. ASSUME Distinct(s) PROVE Distinct(Tail(s))
  BY TailIs, <1>2 DEF Distinct
<1>3. ASSUME Distinct(s) PROVE Elements(Tail(s)) = Elements(s) \ {Head(s)}
  <2>1. ASSUME NEW y \in Elements(Tail(s)) PROVE y \in Elements(s) /\ y # Head(s)
    <3>1. PICK k \in 1..(Len(s) - 1) : y = s[k + 1]
      BY TailIs DEF Elements
    <3>2. k + 1 \in DOMAIN s /\ 1 \in DOMAIN s /\ k + 1 # 1
      BY TailIs
    <3> QED
      BY TailIs, <1>3, <3>1, <3>2 DEF Elements, Distinct
  <2>2. ASSUME NEW y \in Elements(s), y # Head(s) PROVE y \in Elements(Tail(s))
    <3>1. PICK k \in DOMAIN s : y = s[k]
      BY Zenon DEF Elements
    <3>2. k # 1 /\ k - 1 \in 1..(Len(s) - 1)
      BY TailIs, <2>2, <3>1
    <3> QED
      BY TailIs, <3>1, <3>2 DEF Elements
  <2> QED
    BY <2>1, <2>2, Zenon
<1> QED
  BY <1>1, <1>2, <1>3, TailIs

(* A status without an error lets the file through.                        *)
LEMMA SendReceive ==
  ASSUME NEW fd, NEW status
  PROVE  /\ Daemon!hasError(status) => Daemon!recv_fd(Daemon!send_fd(fd, status)) = "no_fd"
         /\ ~Daemon!hasError(status) => Daemon!recv_fd(Daemon!send_fd(fd, status)) = fd
<1> DEFINE m == Daemon!send_fd(fd, status)
<1>1. m.header = status
  BY Zenon DEF Daemon!send_fd
<1>2. m.rights = IF Daemon!hasError(status) THEN "no_fd" ELSE fd
  BY Zenon DEF Daemon!send_fd, Daemon!NoFd
<1> HIDE DEF m
<1>3. /\ Daemon!hasError(status) => Daemon!recv_fd(m) = "no_fd"
      /\ ~Daemon!hasError(status) => Daemon!recv_fd(m) = fd
  BY <1>1, <1>2, Zenon DEF Daemon!recv_fd, Daemon!NoFd
<1> QED
  BY <1>3, Zenon DEF m

(* No path is empty: it has one word at least, which may be "".            *)
LEMMA PathsFull == \A p \in Daemon!Paths : p # <<>>
<1>1. ASSUME NEW n \in 1..MaxWords, NEW p \in [1..n -> Daemon!Words] PROVE p # <<>>
  <2>1. 1 \in DOMAIN p
    BY <1>1
  <2>2. DOMAIN <<>> = {}
    OBVIOUS
  <2> QED
    BY <2>1, <2>2, Zenon
<1> QED
  BY <1>1, Zenon DEF Daemon!Paths

(* The server reads the first word of the path, or nothing.                *)
LEMMA PathRead ==
  ASSUME NEW p \in Daemon!Paths
  PROVE  Daemon!path_str(Daemon!request(p)) \subseteq Daemon!R!FirstWord(p)
<1> DEFINE s == Daemon!request(p)
<1>1. PICK n \in Nat : p \in [1..n -> Daemon!Words]
  BY Bounds DEF Daemon!Paths
<1>2. p \in Seq(Daemon!Words) /\ Len(p) = n /\ DOMAIN p = 1..n
  BY <1>1
<1>3. Len(s) = n + 2 /\ \A l \in 1..n : s[l + 1] = p[l]
  BY <1>2 DEF Daemon!request
<1> HIDE DEF s
<1>4. ASSUME NEW j \in Daemon!extracted(s, 2), NEW m \in Daemon!extracted(s, j + 1)
      PROVE  s[j] \in Daemon!R!FirstWord(p)
  <2>1. PICK blank : blank = ""
    BY Zenon
  <2>2. j \in 2..Len(s) /\ m \in j + 1..Len(s) /\ \A l \in 2..j - 1 : s[l] = blank
    BY <2>1, Zenon DEF Daemon!extracted
  <2>3. j - 1 \in 1..n /\ (j - 1) + 1 = j
    BY <1>3, <2>2
  <2>4. ASSUME NEW l \in 1..(j - 1) - 1 PROVE p[l] = blank
    <3>1. l \in 1..n /\ l + 1 \in 2..j - 1
      BY <2>2, <2>3
    <3> QED
      BY <1>3, <2>2, <3>1, Zenon
  <2>5. s[j] = p[j - 1]
    BY <1>3, <2>3, Zenon
  <2>6. s[j] # blank
    BY <2>1, Zenon DEF Daemon!extracted
  <2> QED
    BY <1>2, <2>1, <2>3, <2>4, <2>5, <2>6, Zenon DEF Daemon!R!FirstWord
<1> QED
  BY <1>4, Zenon DEF Daemon!path_str, s

(* The answer to a request brings the file of its first word, or none.     *)
LEMMA ReplyRight ==
  ASSUME NEW p \in Daemon!Paths, NEW m \in Reply(Daemon!request(p))
  PROVE  Daemon!recv_fd(m) \in {"no_fd"} \cup (Daemon!R!FirstWord(p) \cap Files)
<1> DEFINE s == Daemon!request(p)
<1>1. PICK t \in Daemon!target(s) : m = Daemon!send_fd(t.fd, t.status)
  BY Zenon DEF Reply
<1>2. t.fd = "no_fd" \/ t.fd \in Daemon!path_str(s) \cap Files
  <2>1. ASSUME NEW F, NEW S, NEW o \in [fd : F, status : S] PROVE o.fd \in F
    OBVIOUS
  <2>2. \/ \E status : t = [fd |-> "no_fd", status |-> status]
        \/ \E S : t \in [fd : Daemon!path_str(s) \cap Files, status : S]
    BY Zenon DEF Daemon!target, Daemon!NoFd
  <2>3. ASSUME NEW status, t = [fd |-> "no_fd", status |-> status] PROVE t.fd = "no_fd"
    BY <2>3, Zenon
  <2> QED
    BY <2>1, <2>2, <2>3, Zenon
<1>3. Daemon!recv_fd(m) \in {"no_fd", t.fd}
  BY <1>1, SendReceive, Zenon
<1> QED
  BY <1>2, <1>3, PathRead, Zenon

-----------------------------------------------------------------------------
(* 17/5: nobody has connected.                                             *)
LEMMA DaemonInit == Daemon!Init => DaemonInv
<1> SUFFICES ASSUME Daemon!Init PROVE DaemonInv
  BY Zenon
<1>1. /\ cq = <<>> /\ DOMAIN cq = {} /\ cq \in Seq(Completions)
      /\ backlog \in Seq(Clients) /\ Elements(backlog) = {} /\ Distinct(backlog)
  BY DEF Daemon!Init, Elements, Distinct
<1>2. DaemonTypes
  BY <1>1 DEF Daemon!Init, Daemon!R!AInit, DaemonTypes, Daemon!TypeOK, Daemon!NoFd
<1>3. DaemonClients
  BY Zenon DEF Daemon!Init, Daemon!R!AInit, DaemonClients, ClientRight
<1>4. DaemonConnections
  BY <1>1, Zenon DEF Daemon!Init, DaemonConnections
<1>5. DaemonRing
  BY <1>1, Zenon DEF Daemon!Init, DaemonRing
<1>6. Daemon!ListenerArmed
  BY DEF Daemon!Init, Daemon!ListenerArmed
<1> QED
  BY <1>2, <1>3, <1>4, <1>5, <1>6, Zenon DEF DaemonInv

(* The number in a completion is the server's, unless the accept failed.   *)
LEMMA CompletionNumbers ==
  ASSUME NEW x \in Completions
  PROVE  /\ x.fd # 0 => x.fd \in Daemon!Numbers
         /\ x.fd = 0 => x.type = "OP_ACCEPT" /\ x.res = -1
         /\ x.type = "OP_READ" => x.fd # 0
         /\ x.type \in {"OP_ACCEPT", "OP_READ"} /\ x.res \in Int
         /\ x.type = "OP_ACCEPT" /\ x.res >= 0 => x.fd # 0
BY Bounds DEF Completions, Daemon!Numbers

(* A client connects, or finds no server.                                  *)
LEMMA ConnectKeeps ==
  ASSUME DaemonInv, NEW c \in Clients, Daemon!cli_conn(c)
  PROVE  DaemonInv'
<1>1. /\ client[c] = "start" /\ wants' = wants /\ got' = got /\ up' = up /\ down' = down
      /\ fds' = fds /\ accepts' = accepts /\ reads' = reads /\ cq' = cq /\ server' = server
  BY Zenon DEF Daemon!cli_conn, Daemon!serverVars
<1>2. \/ client' = [client EXCEPT ![c] = "connected"] /\ backlog' = Append(backlog, c)
      \/ client' = [client EXCEPT ![c] = "killed"] /\ backlog' = backlog
  BY Zenon DEF Daemon!cli_conn
<1>3. /\ client \in [Clients -> {"start", "connected", "asked", "finished", "killed"}]
      /\ backlog \in Seq(Clients) /\ Distinct(backlog)
      /\ c \notin Elements(backlog) /\ \A n \in Daemon!Numbers : fds[n] # c
      /\ up[c] = <<>> /\ down[c] = <<>> /\ got[c] = "waiting" /\ c # Daemon!Free
  BY <1>1, Bounds
     DEF DaemonInv, DaemonTypes, DaemonClients, ClientRight, DaemonConnections, Connected, Daemon!TypeOK, Daemon!Free
<1>4. /\ client' \in [Clients -> {"start", "connected", "asked", "finished", "killed"}]
      /\ client'[c] \in {"connected", "killed"} /\ \A d \in Clients \ {c} : client'[d] = client[d]
  BY <1>2, <1>3, Zenon
<1>5. /\ backlog' \in Seq(Clients) /\ Distinct(backlog')
      /\ Elements(backlog') \subseteq Elements(backlog) \cup {c}
  <2>1. /\ Append(backlog, c) \in Seq(Clients) /\ Distinct(Append(backlog, c))
        /\ Elements(Append(backlog, c)) = Elements(backlog) \cup {c}
    BY <1>3, AppendElements
  <2> QED
    BY <1>2, <1>3, <2>1, Zenon
<1>6. DaemonTypes'
  BY <1>1, <1>4, <1>5, Zenon DEF DaemonInv, DaemonTypes, Daemon!TypeOK
<1>7. DaemonClients'
  BY <1>1, <1>3, <1>4, Zenon DEF DaemonInv, DaemonClients, ClientRight
<1>8. DaemonConnections'
  <2>1. \A d \in Clients : d # c /\ Connected(d) => Connected(d)'
    BY <1>1, <1>4, Zenon DEF Connected
  <2>2. Connected(c)'
    BY <1>1, <1>3, <1>4, Zenon DEF Connected
  <2>3. Elements(backlog) \subseteq Clients /\ \A n \in Daemon!Numbers : fds[n] \in Clients \cup {Daemon!Free}
    BY SMTT(30), <1>3 DEF Elements, DaemonInv, DaemonTypes, Daemon!TypeOK
  <2> QED
    BY <1>1, <1>3, <1>5, <2>1, <2>2, <2>3, Zenon DEF DaemonInv, DaemonConnections
<1>9. DaemonRing' /\ Daemon!ListenerArmed'
  BY <1>1, Zenon DEF DaemonInv, DaemonRing, Daemon!ListenerArmed
<1> QED
  BY <1>6, <1>7, <1>8, <1>9, Zenon DEF DaemonInv

(* A client sends its request, or finds the server gone; it is killed.     *)
LEMMA RequestKeeps ==
  ASSUME DaemonInv, NEW c \in Clients, Daemon!send_request(c) \/ Daemon!kill(c)
  PROVE  DaemonInv' /\ (Daemon!R!Ask(c) \/ UNCHANGED <<wants, got>>)
<1>1. /\ got' = got /\ down' = down /\ backlog' = backlog
      /\ fds' = fds /\ accepts' = accepts /\ reads' = reads /\ cq' = cq /\ server' = server
  BY Zenon DEF Daemon!send_request, Daemon!kill, Daemon!serverVars
<1>2. \/ /\ client' = [client EXCEPT ![c] = "asked"] /\ client[c] = "connected"
         /\ \E path \in Daemon!Paths : /\ wants' = [wants EXCEPT ![c] = path]
                                       /\ up' = [up EXCEPT ![c] = <<Daemon!request(path)>>]
      \/ /\ client' = [client EXCEPT ![c] = "killed"] /\ client[c] # "finished"
         /\ wants' = wants /\ up' = up
  BY Zenon DEF Daemon!send_request, Daemon!kill
<1>3. /\ client \in [Clients -> {"start", "connected", "asked", "finished", "killed"}]
      /\ up \in [Clients -> Seq(Requests)]
      /\ wants \in [Clients -> Daemon!Paths \cup {<<>>}]
  BY Zenon DEF DaemonInv, DaemonTypes, Daemon!TypeOK
<1>4. /\ client' \in [Clients -> {"start", "connected", "asked", "finished", "killed"}]
      /\ client'[c] \in {"asked", "killed"} /\ client[c] # "finished"
      /\ \A d \in Clients \ {c} : client'[d] = client[d]
  BY <1>2, <1>3, Zenon
<1> DEFINE Asked ==
             /\ client'[c] = "asked" /\ wants[c] = <<>> /\ up[c] = <<>> /\ down[c] = <<>>
             /\ wants'[c] # <<>> /\ up'[c] = <<Daemon!request(wants'[c])>> /\ up'[c] # <<>>
             /\ Daemon!R!Ask(c)
           Sent ==
             /\ up' \in [Clients -> Seq(Requests)]
             /\ wants' \in [Clients -> Daemon!Paths \cup {<<>>}]
             /\ \A d \in Clients \ {c} : up'[d] = up[d] /\ wants'[d] = wants[d]
             /\ (client'[c] = "killed" /\ wants' = wants /\ up' = up) \/ Asked
<1>5. Sent
  <2>1. CASE client' = [client EXCEPT ![c] = "killed"] /\ wants' = wants /\ up' = up
    BY <1>3, <2>1, Zenon
  <2>2. ASSUME client' = [client EXCEPT ![c] = "asked"], client[c] = "connected",
               NEW path \in Daemon!Paths, wants' = [wants EXCEPT ![c] = path],
               up' = [up EXCEPT ![c] = <<Daemon!request(path)>>]
        PROVE  Sent
    <3>1. Daemon!request(path) \in Requests
      BY Zenon DEF Requests
    <3>2. <<Daemon!request(path)>> \in Seq(Requests) /\ <<Daemon!request(path)>> # <<>>
      BY <3>1
    <3>3. wants[c] = <<>> /\ up[c] = <<>> /\ down[c] = <<>>
      BY <2>2, Zenon DEF DaemonInv, DaemonClients, ClientRight
    <3>4. Daemon!R!Ask(c)
      BY <1>1, <2>2, <3>3, Zenon DEF Daemon!R!Ask
    <3>5. /\ wants' \in [Clients -> Daemon!Paths \cup {<<>>}] /\ wants'[c] = path /\ path # <<>>
          /\ up' \in [Clients -> Seq(Requests)] /\ up'[c] = <<Daemon!request(path)>>
          /\ \A d \in Clients \ {c} : up'[d] = up[d] /\ wants'[d] = wants[d]
      BY <1>3, <2>2, <3>2, PathsFull, Zenon
    <3> QED
      BY <1>3, <2>2, <3>2, <3>3, <3>4, <3>5, Zenon
  <2> QED
    BY <1>2, <2>1, <2>2, Zenon
<1>6. DaemonTypes'
  BY <1>1, <1>4, <1>5, Zenon DEF DaemonInv, DaemonTypes, Daemon!TypeOK
<1>7. DaemonClients'
  <2>1. ASSUME NEW d \in Clients, d # c PROVE ClientRight(d)'
    BY <1>1, <1>4, <1>5, <2>1, Zenon DEF DaemonInv, DaemonClients, ClientRight
  <2>2. ClientRight(c)'
    BY <1>1, <1>4, <1>5, Zenon DEF DaemonInv, DaemonClients, ClientRight
  <2> QED
    BY <2>1, <2>2, Zenon DEF DaemonClients
<1>8. DaemonConnections'
  <2>1. \A d \in Clients : Connected(d) => Connected(d)'
    BY <1>1, <1>4, Zenon DEF Connected
  <2>2. Elements(backlog) \subseteq Clients /\ \A n \in Daemon!Numbers : fds[n] \in Clients \cup {Daemon!Free}
    BY DEF Elements, DaemonInv, DaemonTypes, Daemon!TypeOK
  <2> QED
    BY <1>1, <2>1, <2>2, Zenon DEF DaemonInv, DaemonConnections
<1>9. DaemonRing'
  <2>1. \A d \in Clients : up[d] # <<>> => up'[d] # <<>>
    BY <1>5, Zenon
  <2>2. \A k \in DOMAIN cq : cq[k].fd # 0 => fds[cq[k].fd] \in Clients
    BY CompletionNumbers DEF DaemonInv, DaemonTypes, DaemonRing, Daemon!TypeOK
  <2> QED
    BY <1>1, <2>1, <2>2, Zenon DEF DaemonInv, DaemonRing
<1>10. Daemon!ListenerArmed'
  BY <1>1, Zenon DEF DaemonInv, Daemon!ListenerArmed
<1> QED
  BY <1>1, <1>5, <1>6, <1>7, <1>8, <1>9, <1>10, Zenon DEF DaemonInv

(* A client takes its answer, or sees that there will be none.             *)
LEMMA AnswerKeeps ==
  ASSUME DaemonInv, NEW c \in Clients, Daemon!recv(c)
  PROVE  /\ DaemonInv'
         /\ Daemon!R!Answer(c)
<1>1. /\ client[c] = "asked" /\ client' = [client EXCEPT ![c] = "finished"]
      /\ wants' = wants /\ up' = up /\ down' = down /\ backlog' = backlog
      /\ fds' = fds /\ accepts' = accepts /\ reads' = reads /\ cq' = cq /\ server' = server
  BY Zenon DEF Daemon!recv, Daemon!serverVars
<1>2. \/ down[c] # <<>> /\ got' = [got EXCEPT ![c] = Daemon!recv_fd(Head(down[c]))]
      \/ down[c] = <<>> /\ ~Daemon!Served(c) /\ got' = [got EXCEPT ![c] = "no_fd"]
  BY Zenon DEF Daemon!recv, Daemon!NoFd
<1>3. /\ client \in [Clients -> {"start", "connected", "asked", "finished", "killed"}]
      /\ got \in [Clients -> Files \cup {"waiting", "no_fd"}] /\ got[c] = "waiting"
      /\ wants[c] \in Daemon!Paths /\ wants[c] # <<>>
      /\ down[c] = <<>> \/ \E m \in Reply(Daemon!request(wants[c])) : down[c] = <<m>>
  BY <1>1, Zenon DEF DaemonInv, DaemonTypes, DaemonClients, ClientRight, Daemon!TypeOK, Daemon!NoFd
<1>4. PICK g \in {"no_fd"} \cup (Daemon!R!FirstWord(wants[c]) \cap Files) : got' = [got EXCEPT ![c] = g]
  <2>1. ASSUME down[c] # <<>> PROVE Head(down[c]) \in Reply(Daemon!request(wants[c]))
    <3>1. PICK m \in Reply(Daemon!request(wants[c])) : down[c] = <<m>>
      BY <1>3, <2>1, Zenon
    <3>2. Head(<<m>>) = m
      OBVIOUS
    <3> QED
      BY <3>1, <3>2, Zenon
  <2> QED
    BY <1>2, <1>3, <2>1, ReplyRight, Zenon
<1>5. ~Connected(c) \/ server # "running" \/ \A n \in Daemon!Numbers : fds[n] # c
  BY <1>2, Zenon DEF Connected, Daemon!Served
<1>6. ~Connected(c) \/ server # "running" \/ c \notin Elements(backlog)
  BY <1>2, Zenon DEF Connected, Daemon!Served, Elements
<1>7. /\ client' \in [Clients -> {"start", "connected", "asked", "finished", "killed"}]
      /\ client'[c] = "finished" /\ \A d \in Clients \ {c} : client'[d] = client[d]
      /\ got' \in [Clients -> Files \cup {"waiting", "no_fd"}]
      /\ \A d \in Clients \ {c} : got'[d] = got[d]
  BY <1>1, <1>3, <1>4, Zenon
<1>8. DaemonTypes'
  BY <1>1, <1>7, Zenon DEF DaemonInv, DaemonTypes, Daemon!TypeOK, Daemon!NoFd
<1>9. DaemonClients'
  <2>1. ASSUME NEW d \in Clients, d # c PROVE ClientRight(d)'
    BY <1>1, <1>7, <2>1, Zenon DEF DaemonInv, DaemonClients, ClientRight
  <2>2. ClientRight(c)'
    BY <1>1, <1>3, <1>7, Zenon DEF DaemonInv, DaemonClients, ClientRight
  <2> QED
    BY <2>1, <2>2, Zenon DEF DaemonClients
<1>10. DaemonConnections'
  <2>1. \A d \in Clients \ {c} : Connected(d) => Connected(d)'
    BY <1>1, <1>7, Zenon DEF Connected
  <2>2. server # "running" /\ Connected(c) => Connected(c)'
    BY <1>1, <1>7, Zenon DEF Connected
  <2>3. Elements(backlog) \subseteq Clients /\ \A n \in Daemon!Numbers : fds[n] \in Clients \cup {Daemon!Free}
    BY DEF Elements, DaemonInv, DaemonTypes, Daemon!TypeOK
  <2> QED
    BY <1>1, <1>5, <1>6, <2>1, <2>2, <2>3, Zenon DEF DaemonInv, DaemonConnections
<1>11. DaemonRing' /\ Daemon!ListenerArmed'
  BY <1>1, Zenon DEF DaemonInv, DaemonRing, Daemon!ListenerArmed
<1> QED
  BY <1>1, <1>3, <1>4, <1>8, <1>9, <1>10, <1>11, Zenon DEF DaemonInv, Daemon!R!Answer

(* A completion at the end of the queue, of a request that was in the      *)
(* ring or of an accept.                                                   *)
LEMMA AppendRing ==
  ASSUME DaemonTypes, DaemonRing, Daemon!ListenerArmed, NEW x \in Completions,
         cq' = Append(cq, x), server' = server,
         x.fd = 0 \/ /\ fds'[x.fd] # Daemon!Free /\ x.fd \notin reads'
                     /\ \A k \in DOMAIN cq : cq[k].fd # x.fd
                     /\ x.type = "OP_ACCEPT" => x.res = x.fd
                     /\ x.type = "OP_READ" /\ x.res > 0 => up[fds'[x.fd]] # <<>>,
         up' = up,
         reads' \subseteq reads, reads \subseteq reads' \cup {x.fd},
         \A n \in Daemon!Numbers \ {x.fd} : fds'[n] = fds[n],
         x.type = "OP_ACCEPT" \/ accepts' = accepts
  PROVE  cq' \in Seq(Completions) /\ DaemonRing' /\ Daemon!ListenerArmed'
<1>1. /\ cq' \in Seq(Completions) /\ Len(cq) \in Nat
      /\ DOMAIN cq = 1..Len(cq) /\ DOMAIN cq' = 1..(Len(cq) + 1)
      /\ cq'[Len(cq) + 1] = x /\ \A k \in 1..Len(cq) : cq'[k] = cq[k]
  BY AppendIs DEF DaemonTypes
<1>2. \A k \in DOMAIN cq : cq[k] \in Completions
  BY DEF DaemonTypes
<1>3. \A k \in DOMAIN cq : cq[k].fd # 0 => cq[k].fd \in Daemon!Numbers
  BY <1>2, CompletionNumbers, Zenon
<1>4. reads \subseteq Daemon!Numbers
  BY Zenon DEF DaemonTypes, Daemon!TypeOK
<1>5. \A j, k \in DOMAIN cq' : cq'[j].fd = cq'[k].fd /\ cq'[j].fd # 0 => j = k
  BY <1>1 DEF DaemonRing
<1>6. ASSUME NEW k \in DOMAIN cq', cq'[k].fd # 0
      PROVE  /\ cq'[k].fd \notin reads' /\ fds'[cq'[k].fd] # Daemon!Free
             /\ cq'[k].type = "OP_ACCEPT" => cq'[k].res = cq'[k].fd
             /\ cq'[k].type = "OP_READ" /\ cq'[k].res > 0 => up'[fds'[cq'[k].fd]] # <<>>
  <2>1. CASE k = Len(cq) + 1
    BY <1>1, <1>6, <2>1, Zenon
  <2>2. CASE k \in DOMAIN cq
    <3>1. cq'[k] = cq[k] /\ cq[k].fd \in Daemon!Numbers
      BY <1>1, <1>3, <1>6, <2>2, Zenon
    <3>2. cq[k].fd # x.fd /\ fds'[cq[k].fd] = fds[cq[k].fd]
      BY <1>6, <2>2, <3>1, Zenon
    <3> QED
      BY SMTT(30), <1>6, <2>2, <3>1, <3>2 DEF DaemonRing
  <2> QED
    BY <1>1, <2>1, <2>2
<1>7. \A n \in reads' : fds'[n] # Daemon!Free
  <2>1. 0 \notin Daemon!Numbers
    BY Bounds DEF Daemon!Numbers
  <2> QED
    BY <1>4, <2>1 DEF DaemonRing
<1>8. ASSUME NEW n \in Daemon!Numbers, fds'[n] # Daemon!Free
      PROVE  n \in reads' \/ \E k \in DOMAIN cq' : cq'[k].fd = n
  <2>1. CASE n = x.fd
    BY <1>1, <2>1
  <2>2. CASE n # x.fd
    <3>1. n \in reads \/ \E k \in DOMAIN cq : cq[k].fd = n
      BY <1>8, <2>2, Zenon DEF DaemonRing
    <3> QED
      BY <1>1, <2>2, <3>1
  <2> QED
    BY <2>1, <2>2, Zenon
<1>9. DaemonRing'
  BY <1>5, <1>6, <1>7, <1>8, Zenon DEF DaemonRing
<1>10. Daemon!ListenerArmed'
  <2>1. CASE x.type = "OP_ACCEPT"
    BY <1>1, <2>1 DEF Daemon!ListenerArmed
  <2>2. CASE accepts' = accepts
    BY <1>1, <2>2 DEF Daemon!ListenerArmed
  <2> QED
    BY <2>1, <2>2, Zenon
<1> QED
  BY <1>1, <1>9, <1>10, Zenon

(* A connection gets the lowest free descriptor, or the accept fails.      *)
LEMMA AcceptKeeps ==
  ASSUME DaemonInv, Daemon!complete_accept
  PROVE  DaemonInv'
<1>1. /\ backlog # <<>> /\ accepts > 0 /\ accepts' = accepts - 1
      /\ wants' = wants /\ got' = got /\ client' = client /\ up' = up /\ down' = down
      /\ reads' = reads /\ server' = server
  BY Zenon DEF Daemon!complete_accept, Daemon!clientVars
<1>2. /\ backlog \in Seq(Clients) /\ Distinct(backlog) /\ accepts' \in Nat /\ reads \subseteq Daemon!Numbers
      /\ fds \in [Daemon!Numbers -> Clients \cup {Daemon!Free}]
  BY <1>1 DEF DaemonInv, DaemonTypes, Daemon!TypeOK
<1>3. CASE /\ cq' = Append(cq, [type |-> "OP_ACCEPT", fd |-> 0, res |-> -1])
           /\ fds' = fds /\ backlog' = backlog
  <2> DEFINE x == [type |-> "OP_ACCEPT", fd |-> 0, res |-> -1]
  <2>1. x \in Completions /\ x.fd = 0 /\ x.type = "OP_ACCEPT"
    BY Zenon DEF Completions
  <2> HIDE DEF x
  <2>2. cq' \in Seq(Completions) /\ DaemonRing' /\ Daemon!ListenerArmed'
    <3>1. cq' = Append(cq, x)
      BY <1>3, Zenon DEF x
    <3> QED
      BY <1>1, <1>3, <2>1, <3>1, AppendRing, Zenon DEF DaemonInv
  <2>3. DaemonTypes'
    BY <1>1, <1>2, <1>3, <2>2, Zenon DEF DaemonInv, DaemonTypes, Daemon!TypeOK
  <2>4. DaemonClients' /\ DaemonConnections'
    BY <1>1, <1>3, Zenon DEF DaemonInv, DaemonClients, ClientRight, DaemonConnections, Connected
  <2> QED
    BY <2>2, <2>3, <2>4, Zenon DEF DaemonInv
<1>4. ASSUME NEW n \in Daemon!Numbers, fds[n] = Daemon!Free,
             fds' = [fds EXCEPT ![n] = Head(backlog)], backlog' = Tail(backlog),
             cq' = Append(cq, [type |-> "OP_ACCEPT", fd |-> n, res |-> n])
      PROVE  DaemonInv'
  <2> DEFINE x == [type |-> "OP_ACCEPT", fd |-> n, res |-> n]
             c == Head(backlog)
  <2>1. x \in Completions /\ x.fd = n /\ x.type = "OP_ACCEPT" /\ x.res = n /\ cq' = Append(cq, x)
    BY <1>4, Zenon DEF Completions
  <2> HIDE DEF x
  <2>2. /\ c \in Clients /\ backlog' \in Seq(Clients) /\ Distinct(backlog') /\ c \in Elements(backlog)
        /\ Elements(backlog') = Elements(backlog) \ {c}
    BY <1>1, <1>2, <1>4, TailElements, Zenon
  <2>3. /\ fds' \in [Daemon!Numbers -> Clients \cup {Daemon!Free}] /\ fds'[n] = c
        /\ \A m \in Daemon!Numbers \ {n} : fds'[m] = fds[m] /\ c # Daemon!Free
    BY <1>2, <1>4, <2>2, Bounds, Zenon DEF Daemon!Free
  <2> HIDE DEF c
  <2>4. /\ n \notin reads /\ \A k \in DOMAIN cq : cq[k].fd # n /\ n # 0
    BY SMTT(30), <1>4, Bounds DEF DaemonInv, DaemonRing, Daemon!Numbers
  <2>5. cq' \in Seq(Completions) /\ DaemonRing' /\ Daemon!ListenerArmed'
    <3>1. fds'[x.fd] # Daemon!Free
      BY <2>1, <2>2, <2>3, Bounds, Zenon DEF Daemon!Free
    <3> QED
      BY <1>1, <2>1, <2>3, <2>4, <3>1, AppendRing, Zenon DEF DaemonInv
  <2>6. DaemonTypes'
    BY <1>1, <1>2, <2>2, <2>3, <2>5, Zenon DEF DaemonInv, DaemonTypes, Daemon!TypeOK
  <2>7. DaemonClients'
    BY <1>1, Zenon DEF DaemonInv, DaemonClients, ClientRight
  <2>8. DaemonConnections'
    <3>1. \A d \in Clients : Connected(d) => Connected(d)'
      BY <1>1, Zenon DEF Connected
    <3>2. Connected(c) /\ \A m \in Daemon!Numbers : fds[m] # c
      BY <2>2, Zenon DEF DaemonInv, DaemonConnections
    <3>3. Elements(backlog) \subseteq Clients
      BY <1>2 DEF Elements
    <3>4. \A d \in Elements(backlog') : Connected(d)' /\ \A m \in Daemon!Numbers : fds'[m] # d
      BY <2>2, <2>3, <3>1, <3>3, Zenon DEF DaemonInv, DaemonConnections
    <3>5. \A m \in Daemon!Numbers : fds'[m] # Daemon!Free =>
            /\ Connected(fds[m])'
            /\ \A l \in Daemon!Numbers : fds'[l] = fds'[m] => l = m
      BY <1>2, <2>2, <2>3, <3>1, <3>2, Zenon DEF DaemonInv, DaemonConnections
    <3> QED
      BY <3>4, <3>5, Zenon DEF DaemonConnections
  <2> QED
    BY <2>5, <2>6, <2>7, <2>8, Zenon DEF DaemonInv
<1> QED
  BY <1>3, <1>4, Zenon DEF Daemon!complete_accept, Daemon!Lowest

(* A read completes.                                                       *)
LEMMA ReadKeeps ==
  ASSUME DaemonInv, NEW n \in Daemon!Numbers, Daemon!complete_read(n)
  PROVE  DaemonInv'
<1> DEFINE x == [type |-> "OP_READ", fd |-> n, res |-> Len(up[fds[n]])]
<1>1. /\ n \in reads /\ reads' = reads \ {n} /\ cq' = Append(cq, x)
      /\ wants' = wants /\ got' = got /\ client' = client /\ up' = up /\ down' = down
      /\ backlog' = backlog /\ fds' = fds /\ accepts' = accepts /\ server' = server
  BY Zenon DEF Daemon!complete_read, Daemon!clientVars
<1>2. fds[n] \in Clients /\ fds[n] # Daemon!Free
  BY <1>1 DEF DaemonInv, DaemonTypes, DaemonRing, Daemon!TypeOK
<1>3. up[fds[n]] \in Seq(Requests)
  BY <1>2, Zenon DEF DaemonInv, DaemonTypes
<1>4. Len(up[fds[n]]) \in Nat /\ (Len(up[fds[n]]) > 0 => up[fds[n]] # <<>>)
  BY <1>3
<1>5. x \in Completions /\ x.fd = n /\ x.type = "OP_READ" /\ x.res = Len(up[fds[n]])
  BY <1>4, Zenon DEF Completions
<1> HIDE DEF x
<1>6. n # 0 /\ \A k \in DOMAIN cq : cq[k].fd # n
  BY <1>1, Bounds DEF DaemonInv, DaemonRing, Daemon!Numbers
<1>7. cq' \in Seq(Completions) /\ DaemonRing' /\ Daemon!ListenerArmed'
  BY <1>1, <1>2, <1>4, <1>5, <1>6, AppendRing, Zenon DEF DaemonInv
<1>8. DaemonTypes'
  BY <1>1, <1>7, Zenon DEF DaemonInv, DaemonTypes, Daemon!TypeOK
<1>9. DaemonClients' /\ DaemonConnections'
  BY <1>1, Zenon DEF DaemonInv, DaemonClients, ClientRight, DaemonConnections, Connected
<1> QED
  BY <1>7, <1>8, <1>9, Zenon DEF DaemonInv

(* A turn of the loop takes the first completion: its descriptor gets a    *)
(* read request or is closed.                                              *)
LEMMA TailRing ==
  ASSUME DaemonTypes, DaemonRing, NEW x, cq # <<>>, x = Head(cq), cq' = Tail(cq),
         accepts' > 0,
         reads \subseteq reads', reads' \subseteq reads \cup {x.fd}, 0 \notin reads',
         x.fd # 0 => (x.fd \in reads' <=> fds'[x.fd] # Daemon!Free),
         \A m \in Daemon!Numbers \ {x.fd} :
           fds'[m] = fds[m] /\ (fds[m] # Daemon!Free => up'[fds[m]] = up[fds[m]])
  PROVE  /\ cq' \in Seq(Completions) /\ DaemonRing' /\ Daemon!ListenerArmed'
         /\ x \in Completions
         /\ x.fd # 0 => x.fd \in Daemon!Numbers /\ x.fd \notin reads /\ fds[x.fd] # Daemon!Free
<1>1. /\ cq' \in Seq(Completions) /\ Len(cq) \in Nat /\ Len(cq) > 0
      /\ DOMAIN cq = 1..Len(cq) /\ DOMAIN cq' = 1..(Len(cq) - 1)
      /\ x = cq[1] /\ cq[1] \in Completions /\ 1 \in DOMAIN cq
      /\ \A k \in 1..(Len(cq) - 1) : cq'[k] = cq[k + 1]
  BY TailIs DEF DaemonTypes
<1>2. \A k \in DOMAIN cq : cq[k] \in Completions
  BY DEF DaemonTypes
<1>3. \A k \in DOMAIN cq : cq[k].fd # 0 => cq[k].fd \in Daemon!Numbers
  BY <1>2, CompletionNumbers, Zenon
<1>4. x.fd # 0 => x.fd \in Daemon!Numbers /\ x.fd \notin reads /\ fds[x.fd] # Daemon!Free
  BY SMTT(30), <1>1, <1>3 DEF DaemonRing
<1>5. ASSUME NEW j \in DOMAIN cq', NEW k \in DOMAIN cq', cq'[j].fd = cq'[k].fd, cq'[j].fd # 0
      PROVE  j = k
  <2>1. j + 1 \in DOMAIN cq /\ k + 1 \in DOMAIN cq /\ cq'[j] = cq[j + 1] /\ cq'[k] = cq[k + 1]
    BY <1>1
  <2>2. j + 1 = k + 1
    BY <1>5, <2>1 DEF DaemonRing
  <2> QED
    BY <1>1, <2>2
<1>6. ASSUME NEW k \in DOMAIN cq', cq'[k].fd # 0
      PROVE  /\ cq'[k].fd \notin reads' /\ fds'[cq'[k].fd] # Daemon!Free
             /\ cq'[k].type = "OP_ACCEPT" => cq'[k].res = cq'[k].fd
             /\ cq'[k].type = "OP_READ" /\ cq'[k].res > 0 => up'[fds'[cq'[k].fd]] # <<>>
  <2>1. k + 1 \in DOMAIN cq /\ k + 1 # 1 /\ cq'[k] = cq[k + 1]
    BY <1>1
  <2>2. cq[k + 1].fd \in Daemon!Numbers /\ cq[k + 1].fd # x.fd
    BY SMTT(30), <1>1, <1>3, <1>6, <2>1 DEF DaemonRing
  <2>3. /\ cq[k + 1].fd \notin reads /\ fds[cq[k + 1].fd] # Daemon!Free
        /\ cq[k + 1].type = "OP_ACCEPT" => cq[k + 1].res = cq[k + 1].fd
        /\ cq[k + 1].type = "OP_READ" /\ cq[k + 1].res > 0 => up[fds[cq[k + 1].fd]] # <<>>
    BY <1>6, <2>1, Zenon DEF DaemonRing
  <2> QED
    BY <2>1, <2>2, <2>3
<1>7. \A n \in reads' : fds'[n] # Daemon!Free
  <2>1. reads \subseteq Daemon!Numbers /\ \A n \in reads : fds[n] # Daemon!Free
    BY Zenon DEF DaemonRing, DaemonTypes, Daemon!TypeOK
  <2>2. ASSUME NEW n \in reads', n # x.fd PROVE fds'[n] # Daemon!Free
    BY <2>1, <2>2, Zenon
  <2>3. x.fd \in reads' => fds'[x.fd] # Daemon!Free
    BY Zenon
  <2> QED
    BY <2>2, <2>3, Zenon
<1>8. ASSUME NEW n \in Daemon!Numbers, fds'[n] # Daemon!Free
      PROVE  n \in reads' \/ \E k \in DOMAIN cq' : cq'[k].fd = n
  <2>1. CASE n = x.fd
    BY <1>8, <2>1, Bounds DEF Daemon!Numbers
  <2>2. CASE n # x.fd
    <3>1. n \in reads \/ \E k \in DOMAIN cq : cq[k].fd = n
      BY <1>8, <2>2, Zenon DEF DaemonRing
    <3>2. ASSUME NEW k \in DOMAIN cq, cq[k].fd = n PROVE \E j \in DOMAIN cq' : cq'[j].fd = n
      <4>1. k # 1 /\ k - 1 \in DOMAIN cq' /\ cq'[k - 1] = cq[k]
        BY SMTT(30), <1>1, <2>2, <3>2
      <4> QED
        BY <3>2, <4>1, Zenon
    <3> QED
      BY <3>1, <3>2, Zenon
  <2> QED
    BY <2>1, <2>2, Zenon
<1>9. DaemonRing'
  BY <1>5, <1>6, <1>7, <1>8, Zenon DEF DaemonRing
<1>10. Daemon!ListenerArmed'
  BY Zenon DEF Daemon!ListenerArmed
<1> QED
  BY <1>1, <1>4, <1>9, <1>10, Zenon

(* The completion of an accept, which succeeded or not.                    *)
LEMMA AcceptedKeeps ==
  ASSUME DaemonInv, Daemon!accepted \/ Daemon!accept_failed
  PROVE  DaemonInv'
<1>1. /\ cq # <<>> /\ Head(cq).type = "OP_ACCEPT" /\ cq' = Tail(cq)
      /\ wants' = wants /\ got' = got /\ client' = client /\ up' = up /\ down' = down
      /\ backlog' = backlog /\ fds' = fds /\ server' = server
      /\ \/ Head(cq).res >= 0 /\ reads' = reads \cup {Head(cq).res} /\ accepts' = accepts + 2
         \/ Head(cq).res < 0 /\ reads' = reads /\ accepts' = accepts + 1
  BY Zenon DEF Daemon!accepted, Daemon!accept_failed, Daemon!Completion, Daemon!clientVars
<1> DEFINE x == Head(cq)
<1>2. x \in Completions /\ x = cq[1] /\ 1 \in DOMAIN cq
  BY <1>1, TailIs DEF DaemonInv, DaemonTypes
<1>3. x.type = "OP_ACCEPT" /\ \/ x.res >= 0 /\ reads' = reads \cup {x.res} /\ accepts' = accepts + 2
                              \/ x.res < 0 /\ reads' = reads /\ accepts' = accepts + 1
  BY <1>1, Zenon
<1> HIDE DEF x
<1>4. accepts \in Nat /\ reads \subseteq Daemon!Numbers /\ 0 \notin Daemon!Numbers /\ x.res \in Int
  BY SMTT(30), <1>2, Bounds, CompletionNumbers DEF DaemonInv, DaemonTypes, Daemon!TypeOK, Daemon!Numbers
<1>5. /\ x.fd # 0 => x.fd \in Daemon!Numbers /\ x.res = x.fd /\ fds[x.fd] # Daemon!Free
      /\ x.fd = 0 => x.res = -1
  BY <1>2, <1>3, CompletionNumbers, Zenon DEF DaemonInv, DaemonRing
<1>6. x.fd # 0 => x.res >= 0 /\ x.res = x.fd
  BY <1>5, Bounds DEF Daemon!Numbers
<1>7. /\ accepts' \in Nat /\ accepts' > 0 /\ reads' \subseteq Daemon!Numbers
      /\ reads \subseteq reads' /\ reads' \subseteq reads \cup {x.fd} /\ 0 \notin reads'
      /\ x.fd # 0 => x.fd \in reads' /\ fds'[x.fd] # Daemon!Free
  BY SMTT(30), <1>1, <1>3, <1>4, <1>5, <1>6
<1>8. cq' \in Seq(Completions) /\ DaemonRing' /\ Daemon!ListenerArmed'
  <2>1. x = Head(cq)
    BY Zenon DEF x
  <2> QED
    BY <1>1, <1>7, <2>1, TailRing, Zenon DEF DaemonInv
<1>9. DaemonTypes'
  BY <1>1, <1>7, <1>8, Zenon DEF DaemonInv, DaemonTypes, Daemon!TypeOK
<1>10. DaemonClients' /\ DaemonConnections'
  BY <1>1, Zenon DEF DaemonInv, DaemonClients, ClientRight, DaemonConnections, Connected
<1> QED
  BY <1>8, <1>9, <1>10, Zenon DEF DaemonInv

(* The completion of a read: the request is answered, or the client is     *)
(* gone, and the connection is closed.  Only a client that was killed      *)
(* after it asked takes the server along.                                  *)
LEMMA HandleReadKeeps ==
  ASSUME DaemonInv, Daemon!handle_read
  PROVE  /\ DaemonInv' /\ wants' = wants /\ got' = got
         /\ server' # server => /\ server' = "dead" /\ Daemon!Completion("OP_READ")
                                /\ Head(cq).res > 0 /\ client[fds[Head(cq).fd]] = "killed"
<1> DEFINE x == Head(cq)
           c == fds[x.fd]
<1>1. /\ cq # <<>> /\ x.type = "OP_READ" /\ cq' = Tail(cq) /\ accepts' = accepts + 1
      /\ server = "running"
      /\ wants' = wants /\ got' = got /\ client' = client /\ backlog' = backlog /\ reads' = reads
      /\ fds' = [fds EXCEPT ![x.fd] = Daemon!Free]
  BY Zenon DEF Daemon!handle_read, Daemon!process_request, Daemon!Completion, Daemon!clientVars
<1>2. \/ /\ x.res > 0 /\ up' = [up EXCEPT ![c] = <<>>] /\ server' = server
         /\ \E m \in Reply(Head(up[c])) : down' = [down EXCEPT ![c] = <<m>>]
      \/ /\ x.res > 0 /\ up' = [up EXCEPT ![c] = <<>>] /\ server' = "dead"
         /\ ~Daemon!Open(c) /\ down' = down
      \/ up' = up /\ down' = down /\ server' = server
  BY Zenon DEF Daemon!handle_read, Daemon!process_request, Reply
<1>3. x \in Completions /\ x = cq[1] /\ 1 \in DOMAIN cq /\ x = Head(cq)
  BY <1>1, TailIs DEF DaemonInv, DaemonTypes
<1>4. x.fd # 0 /\ x.fd \in Daemon!Numbers
  BY <1>1, <1>3, CompletionNumbers, Zenon
<1>5. /\ c \in Clients /\ c # Daemon!Free /\ x.fd \notin reads /\ (x.res > 0 => up[c] # <<>>)
  BY SMTT(30), <1>1, <1>3, <1>4 DEF DaemonInv, DaemonTypes, DaemonRing, Daemon!TypeOK
<1>6. /\ Connected(c) /\ \A m \in Daemon!Numbers : fds[m] = fds[x.fd] => m = x.fd
  BY <1>4, <1>5, Zenon DEF DaemonInv, DaemonConnections
<1>7. /\ accepts \in Nat /\ reads \subseteq Daemon!Numbers /\ 0 \notin Daemon!Numbers
      /\ fds \in [Daemon!Numbers -> Clients \cup {Daemon!Free}]
      /\ up \in [Clients -> Seq(Requests)] /\ down \in [Clients -> Seq(Replies)]
      /\ client \in [Clients -> {"start", "connected", "asked", "finished", "killed"}]
  BY SMTT(30), Bounds DEF DaemonInv, DaemonTypes, Daemon!TypeOK, Daemon!Numbers
<1>8. /\ up[c] \in {<<>>, <<Daemon!request(wants[c])>>}
      /\ x.res > 0 => wants[c] \in Daemon!Paths /\ wants[c] # <<>>
  BY <1>5, Zenon DEF DaemonInv, DaemonTypes, DaemonClients, ClientRight, Daemon!TypeOK
<1>9. x.res > 0 => Head(up[c]) = Daemon!request(wants[c])
  <2>1. Head(<<Daemon!request(wants[c])>>) = Daemon!request(wants[c])
    OBVIOUS
  <2> QED
    BY <1>5, <1>8, <2>1, Zenon
<1> HIDE DEF c, x
<1>10. /\ fds' \in [Daemon!Numbers -> Clients \cup {Daemon!Free}] /\ fds'[x.fd] = Daemon!Free
       /\ \A m \in Daemon!Numbers \ {x.fd} : fds'[m] = fds[m]
  BY <1>1, <1>4, <1>7, Zenon
<1>11. /\ up' \in [Clients -> Seq(Requests)] /\ up'[c] \in {<<>>, up[c]}
       /\ \A d \in Clients \ {c} : up'[d] = up[d]
  <2>1. <<>> \in Seq(Requests)
    OBVIOUS
  <2> QED
    BY <1>2, <1>5, <1>7, <2>1, Zenon
<1> DEFINE Sent ==
             /\ down' \in [Clients -> Seq(Replies)] /\ \A d \in Clients \ {c} : down'[d] = down[d]
             /\ \/ down'[c] = down[c]
                \/ wants[c] # <<>> /\ \E m \in Reply(Daemon!request(wants[c])) : down'[c] = <<m>>
<1>12. Sent
  <2>1. CASE down' = down
    BY <1>7, <2>1, Zenon
  <2>2. ASSUME x.res > 0, NEW m \in Reply(Head(up[c])), down' = [down EXCEPT ![c] = <<m>>]
        PROVE  Sent
    <3>1. m \in Reply(Daemon!request(wants[c])) /\ m \in Replies
      BY <1>8, <1>9, <2>2, Zenon DEF Replies, Requests
    <3>2. <<m>> \in Seq(Replies)
      BY <3>1
    <3> QED
      BY <1>5, <1>7, <1>8, <2>2, <3>1, <3>2, Zenon
  <2> QED
    BY <1>2, <2>1, <2>2, Zenon
<1>13. server' # server => server' = "dead" /\ x.res > 0 /\ client[c] = "killed"
  BY <1>1, <1>2, <1>5, <1>6, <1>7, Zenon DEF Connected, Daemon!Open
<1>14. cq' \in Seq(Completions) /\ DaemonRing' /\ Daemon!ListenerArmed'
  <2>1. \A m \in Daemon!Numbers \ {x.fd} : fds[m] # Daemon!Free => up'[fds[m]] = up[fds[m]]
    <3>1. \A m \in Daemon!Numbers \ {x.fd} : fds[m] # c
      BY <1>6, Zenon DEF c
    <3> QED
      BY <1>7, <1>11, <3>1, Zenon
  <2>2. accepts' > 0
    BY <1>1, <1>7
  <2> QED
    BY <1>1, <1>3, <1>5, <1>7, <1>10, <2>1, <2>2, TailRing, Zenon DEF DaemonInv
<1>15. DaemonTypes'
  <2>1. accepts' \in Nat
    BY <1>1, <1>7
  <2>2. server' \in {"running", "dead", "exited"}
    BY <1>1, <1>2, Zenon
  <2> QED
    BY <1>1, <1>10, <1>11, <1>12, <1>14, <2>1, <2>2, Zenon DEF DaemonInv, DaemonTypes, Daemon!TypeOK
<1>16. DaemonClients'
  <2>1. ASSUME NEW d \in Clients, d # c PROVE ClientRight(d)'
    BY <1>1, <1>11, <1>12, <2>1, Zenon DEF DaemonInv, DaemonClients, ClientRight
  <2>2. ASSUME NEW d \in Clients, d = c PROVE ClientRight(d)'
    BY <1>1, <1>11, <1>12, <2>2, Zenon DEF DaemonInv, DaemonClients, ClientRight
  <2> QED
    BY <2>1, <2>2, Zenon DEF DaemonClients
<1>17. DaemonConnections'
  <2>1. \A d \in Clients \ {c} : Connected(d) => Connected(d)'
    <3>1. server' = "running" => server = "running"
      BY <1>1, Zenon
    <3> QED
      BY <1>1, <1>12, <3>1, Zenon DEF Connected
  <2>2. Elements(backlog) \subseteq Clients \ {c}
    <3>1. Elements(backlog) \subseteq Clients
      BY DEF Elements, DaemonInv, DaemonTypes
    <3>2. \A d \in Elements(backlog) : \A n \in Daemon!Numbers : fds[n] # d
      BY Zenon DEF DaemonInv, DaemonConnections
    <3> QED
      BY <1>4, <3>1, <3>2, Zenon DEF c
  <2>3. \A d \in Elements(backlog') : Connected(d)' /\ \A m \in Daemon!Numbers : fds'[m] # d
    <3>1. \A d \in Elements(backlog) : d # Daemon!Free
      BY <2>2, Bounds, Zenon DEF Daemon!Free
    <3> QED
      BY <1>1, <1>10, <2>1, <2>2, <3>1, Zenon DEF DaemonInv, DaemonConnections
  <2>4. \A m \in Daemon!Numbers : fds'[m] # Daemon!Free =>
          /\ Connected(fds[m])'
          /\ \A l \in Daemon!Numbers : fds'[l] = fds'[m] => l = m
    <3>1. \A m \in Daemon!Numbers \ {x.fd} : fds[m] # c
      BY <1>6, Zenon DEF c
    <3> QED
      BY <1>7, <1>10, <2>1, <3>1, Zenon DEF DaemonInv, DaemonConnections
  <2> QED
    BY <2>3, <2>4, Zenon DEF DaemonConnections
<1> QED
  BY <1>1, <1>13, <1>14, <1>15, <1>16, <1>17, Zenon DEF DaemonInv, Daemon!Completion, x, c

(* The wait fails, and the server returns.                                 *)
LEMMA WaitKeeps ==
  ASSUME DaemonInv, Daemon!wait_error
  PROVE  DaemonInv'
<1>1. /\ wants' = wants /\ got' = got /\ client' = client /\ up' = up /\ down' = down
      /\ backlog' = backlog /\ fds' = fds /\ accepts' = accepts /\ reads' = reads /\ cq' = cq
      /\ server' = "exited"
  BY Zenon DEF Daemon!wait_error, Daemon!clientVars
<1>2. DaemonTypes'
  BY <1>1, Zenon DEF DaemonInv, DaemonTypes, Daemon!TypeOK
<1>3. DaemonClients' /\ DaemonRing' /\ Daemon!ListenerArmed'
  BY <1>1, Zenon DEF DaemonInv, DaemonClients, ClientRight, DaemonRing, Daemon!ListenerArmed
<1>4. DaemonConnections'
  BY <1>1, Zenon DEF DaemonInv, DaemonConnections, Connected
<1> QED
  BY <1>2, <1>3, <1>4, Zenon DEF DaemonInv

(* 17/5 stays where it is.                                                 *)
LEMMA SameDaemon ==
  ASSUME DaemonInv, UNCHANGED daemonVars
  PROVE  DaemonInv'
<1>1. /\ wants' = wants /\ got' = got /\ client' = client /\ up' = up /\ down' = down
      /\ backlog' = backlog /\ fds' = fds /\ accepts' = accepts /\ reads' = reads /\ cq' = cq
      /\ server' = server
  BY Zenon DEF daemonVars
<1>2. DaemonTypes'
  BY <1>1, Zenon DEF DaemonInv, DaemonTypes, Daemon!TypeOK
<1>3. DaemonClients' /\ Daemon!ListenerArmed'
  BY <1>1, Zenon DEF DaemonInv, DaemonClients, ClientRight, Daemon!ListenerArmed
<1>4. DaemonConnections'
  BY <1>1, Zenon DEF DaemonInv, DaemonConnections, Connected
<1>5. DaemonRing'
  BY <1>1, Zenon DEF DaemonInv, DaemonRing
<1> QED
  BY <1>2, <1>3, <1>4, <1>5, Zenon DEF DaemonInv

(* How the server may end in a step.                                       *)
ServerEnds ==
  \/ /\ server' = "dead"
     /\ Daemon!Completion("OP_READ") /\ Head(cq).res > 0
     /\ client[fds[Head(cq).fd]] = "killed"
  \/ server' = "exited" /\ failures' = failures + 1 /\ cq = <<>>

(* What every step of the server, its ring and its clients does.           *)
LEMMA DaemonStep ==
  ASSUME DaemonInv, Daemon!Next
  PROVE  /\ DaemonInv'
         /\ [\E c \in Clients : Daemon!R!Ask(c) \/ Daemon!R!Answer(c)]_<<wants, got>>
         /\ server' # server => ServerEnds
<1>1. CASE Daemon!handle_read
  BY <1>1, HandleReadKeeps, Zenon DEF ServerEnds
<1>2. CASE Daemon!accepted \/ Daemon!accept_failed
  BY <1>2, AcceptedKeeps, Zenon DEF Daemon!accepted, Daemon!accept_failed, Daemon!clientVars
<1>3. CASE Daemon!complete_accept
  BY <1>3, AcceptKeeps, Zenon DEF Daemon!complete_accept, Daemon!clientVars
<1>4. ASSUME NEW n \in Daemon!Numbers, Daemon!complete_read(n)
      PROVE  DaemonInv' /\ wants' = wants /\ got' = got /\ server' = server
  BY <1>4, ReadKeeps, Zenon DEF Daemon!complete_read, Daemon!clientVars
<1>5. ASSUME NEW c \in Clients, Daemon!cli_conn(c)
      PROVE  DaemonInv' /\ wants' = wants /\ got' = got /\ server' = server
  BY <1>5, ConnectKeeps, Zenon DEF Daemon!cli_conn, Daemon!serverVars
<1>6. ASSUME NEW c \in Clients, Daemon!send_request(c) \/ Daemon!kill(c)
      PROVE  DaemonInv' /\ (Daemon!R!Ask(c) \/ UNCHANGED <<wants, got>>) /\ server' = server
  BY <1>6, RequestKeeps, Zenon DEF Daemon!send_request, Daemon!kill, Daemon!serverVars
<1>7. ASSUME NEW c \in Clients, Daemon!recv(c)
      PROVE  DaemonInv' /\ Daemon!R!Answer(c) /\ server' = server
  <2>1. server' = server
    BY <1>7, Zenon DEF Daemon!recv, Daemon!serverVars
  <2> QED
    BY <1>7, <2>1, AnswerKeeps, Zenon
<1>8. CASE Daemon!wait_error
  BY <1>8, WaitKeeps, Zenon DEF Daemon!wait_error, Daemon!clientVars, ServerEnds
<1> QED
  BY <1>1, <1>2, <1>3, <1>4, <1>5, <1>6, <1>7, <1>8, Zenon
     DEF Daemon!Next, Daemon!main, Daemon!kernel, Daemon!program

(* Every descriptor has exactly one request or completion.                 *)
LEMMA DaemonFds == DaemonInv => Daemon!FdsAccounted
<1> SUFFICES ASSUME DaemonInv, NEW n \in Daemon!Numbers
             PROVE  LET holders == {k \in DOMAIN cq : cq[k].fd = n} \cup {0 : r \in reads \cap {n}}
                    IN IF fds[n] = Daemon!Free THEN holders = {} ELSE \E h \in holders : holders = {h}
  BY Zenon DEF Daemon!FdsAccounted
<1>1. n # 0
  BY SMTT(30), Bounds DEF Daemon!Numbers
<1>2. CASE fds[n] = Daemon!Free
  BY SMTT(30), <1>1, <1>2 DEF DaemonInv, DaemonRing
<1>3. CASE fds[n] # Daemon!Free /\ n \in reads
  BY SMTT(30), <1>1, <1>3 DEF DaemonInv, DaemonRing
<1>4. CASE fds[n] # Daemon!Free /\ n \notin reads
  <2>1. PICK k \in DOMAIN cq : cq[k].fd = n
    BY <1>4, Zenon DEF DaemonInv, DaemonRing
  <2>2. \A j \in DOMAIN cq : cq[j].fd = n => j = k
    BY <1>1, <2>1, Zenon DEF DaemonInv, DaemonRing
  <2> QED
    BY SMTT(30), <1>4, <2>1, <2>2
<1> QED
  BY <1>2, <1>3, <1>4, Zenon
-----------------------------------------------------------------------------
(* The operators of 17/3's instance are those of 17/5's.                   *)
LEMMA SameReply ==
  /\ Fork!Paths = Daemon!Paths
  /\ \A p : Fork!request(p) = Daemon!request(p) /\ Fork!R!FirstWord(p) = Daemon!R!FirstWord(p)
  /\ \A s, m : m \in Reply(s) <=> \E t \in Fork!target(s) : m = Fork!send_fd(t.fd, t.status)
  /\ \A m : Fork!recv_fd(m) = Daemon!recv_fd(m)
<1>1. ASSUME NEW s PROVE Fork!target(s) = Daemon!target(s)
  <2>1. Fork!path_str(s) = Daemon!path_str(s)
    BY Zenon DEF Fork!path_str, Daemon!path_str, Fork!extracted, Daemon!extracted
  <2> QED
    BY <2>1, Zenon DEF Fork!target, Daemon!target, Fork!StatusMsg, Daemon!StatusMsg, Fork!NoFd,
                       Daemon!NoFd, Fork!EIO, Daemon!EIO
<1>2. ASSUME NEW fd, NEW status PROVE Fork!send_fd(fd, status) = Daemon!send_fd(fd, status)
  BY Zenon DEF Fork!send_fd, Daemon!send_fd, Fork!hasError, Daemon!hasError, Fork!NoFd, Daemon!NoFd
<1>3. ASSUME NEW m PROVE Fork!recv_fd(m) = Daemon!recv_fd(m)
  BY Zenon DEF Fork!recv_fd, Daemon!recv_fd, Fork!hasError, Daemon!hasError, Fork!NoFd, Daemon!NoFd
<1>4. Fork!Paths = Daemon!Paths
  BY Zenon DEF Fork!Paths, Daemon!Paths, Fork!Words, Daemon!Words
<1>5. ASSUME NEW p PROVE Fork!request(p) = Daemon!request(p)
  BY Zenon DEF Fork!request, Daemon!request
<1>6. ASSUME NEW p PROVE Fork!R!FirstWord(p) = Daemon!R!FirstWord(p)
  BY Zenon DEF Fork!R!FirstWord, Daemon!R!FirstWord
<1>7. ASSUME NEW s, NEW m PROVE m \in Reply(s) <=> \E t \in Fork!target(s) : m = Fork!send_fd(t.fd, t.status)
  BY <1>1, <1>2, Zenon DEF Reply
<1> QED
  BY <1>3, <1>4, <1>5, <1>6, <1>7, Zenon

(* 17/3: before the first line there is nothing.                           *)
LEMMA ForkInit == Fork!Init => ForkInv
<1> SUFFICES ASSUME Fork!Init PROVE ForkInv
  BY Zenon
<1>1. <<>> \in Seq(Requests) /\ <<>> \in Seq(Replies) /\ 0 \in 0..MaxLines /\ 0 \notin Fork!Lines
  BY Bounds DEF Fork!Lines
<1>2. \A l \in Fork!Lines : held[l][0] = {} /\ held[l][1] = {}
  BY Zenon DEF Fork!Init, Fork!Ends
<1>3. ForkTypes
  BY <1>1, Zenon DEF Fork!Init, Fork!R!AInit, ForkTypes, Fork!TypeOK
<1>4. ForkPlace
  BY Zenon DEF Fork!Init, Fork!R!AInit, ForkPlace, Ahead
<1>5. ForkHeld
  BY <1>1, <1>2, Zenon DEF Fork!Init, ForkHeld, HeldRight
<1>6. ForkStreams
  BY Zenon DEF Fork!Init, ForkStreams, StreamRight
<1> QED
  BY <1>3, <1>4, <1>5, <1>6, Zenon DEF ForkInv

(* An end that a process closes, and all that it holds.                    *)
LEMMA CloseOne ==
  ASSUME ForkTypes, NEW l \in Fork!Lines, NEW p, held' = [held EXCEPT ![l][0] = @ \ {p}]
  PROVE  /\ held' \in [Fork!Lines -> [Fork!Ends -> SUBSET Fork!Processes]]
         /\ held'[l][0] = held[l][0] \ {p} /\ held'[l][1] = held[l][1]
         /\ \A k \in Fork!Lines \ {l} : held'[k] = held[k]
<1>1. held \in [Fork!Lines -> [{0, 1} -> SUBSET Fork!Processes]]
  BY Zenon DEF ForkTypes, Fork!TypeOK, Fork!Ends
<1> QED
  BY <1>1 DEF Fork!Ends

LEMMA CloseAll ==
  ASSUME ForkTypes, NEW p, held' = Fork!Without(p)
  PROVE  /\ held' \in [Fork!Lines -> [Fork!Ends -> SUBSET Fork!Processes]]
         /\ \A k \in Fork!Lines : held'[k][0] = held[k][0] \ {p} /\ held'[k][1] = held[k][1] \ {p}
<1>1. held \in [Fork!Lines -> [{0, 1} -> SUBSET Fork!Processes]]
  BY Zenon DEF ForkTypes, Fork!TypeOK, Fork!Ends
<1>2. held' = [k \in Fork!Lines |-> [e \in {0, 1} |-> held[k][e] \ {p}]]
  BY Zenon DEF Fork!Without, Fork!Ends
<1> QED
  BY <1>1, <1>2 DEF Fork!Ends

(* main reads a line and forks.  The server inherits the parent's ends of  *)
(* unsent lines, which came before.                                        *)
LEMMA OpenKeeps ==
  ASSUME ForkInv, Fork!client_open
  PROVE  /\ ForkInv'
         /\ \E l \in Fork!Lines : Fork!R!Ask(l)
<1>1. PICK n \in Fork!Lines : n = line + 1
  BY Bounds DEF Fork!client_open, ForkInv, ForkTypes, Fork!TypeOK, Fork!Lines
<1>2. /\ parent = "fgets" /\ line' = n /\ child' = [child EXCEPT ![n] = "close"]
      /\ parent' = "request" /\ answers' = answers /\ unsent' = unsent
      /\ to_child' = to_child /\ to_parent' = to_parent /\ opened' = opened
      /\ \E path \in Daemon!Paths : lines' = [lines EXCEPT ![n] = path]
      /\ held' = [l \in Fork!Lines |-> [e \in {0, 1} |->
                    IF l = n THEN IF e = 0 THEN {0, l} ELSE {l}
                    ELSE IF 0 \in held[l][e] THEN held[l][e] \cup {n} ELSE held[l][e]]]
  BY <1>1, SameReply, Zenon DEF Fork!client_open, Fork!Ends, Fork!Parent
<1>3. /\ line \in Nat /\ n > line /\ n \in 0..MaxLines
      /\ \A l \in Fork!Lines : l > n => l > line /\ l # n
      /\ \A l \in Fork!Lines : l # n => l > line \/ n >= l
      /\ 0 \notin Fork!Lines /\ n >= n
  BY <1>1, Bounds DEF ForkInv, ForkTypes, Fork!TypeOK, Fork!Lines
<1>4. /\ child \in [Fork!Lines -> {"none", "close", "loop", "zombie", "reaped"}]
      /\ lines \in [Fork!Lines -> Daemon!Paths \cup {<<>>}]
      /\ held \in [Fork!Lines -> [{0, 1} -> SUBSET Fork!Processes]]
  BY Zenon DEF ForkInv, ForkTypes, Fork!TypeOK, Fork!Ends
<1>5. /\ child' \in [Fork!Lines -> {"none", "close", "loop", "zombie", "reaped"}]
      /\ child'[n] = "close" /\ \A l \in Fork!Lines \ {n} : child'[l] = child[l]
  BY <1>2, <1>4, Zenon
<1>6. /\ lines' \in [Fork!Lines -> Daemon!Paths \cup {<<>>}] /\ lines'[n] # <<>>
      /\ \A l \in Fork!Lines \ {n} : lines'[l] = lines[l]
  BY <1>2, <1>4, PathsFull, Zenon
<1>7. \A l \in Fork!Lines \ {n} :
        /\ held'[l][0] = IF 0 \in held[l][0] THEN held[l][0] \cup {n} ELSE held[l][0]
        /\ held'[l][1] = IF 0 \in held[l][1] THEN held[l][1] \cup {n} ELSE held[l][1]
  BY <1>2, Zenon
<1>8. held'[n][0] = {0, n} /\ held'[n][1] = {n}
  BY SMTT(30), <1>2
<1>9. held' \in [Fork!Lines -> [{0, 1} -> SUBSET Fork!Processes]]
  <2>1. {0, n} \subseteq Fork!Processes
    BY Zenon DEF Fork!Processes, Fork!Parent
  <2>2. \A l \in Fork!Lines : \A e \in {0, 1} :
          (IF l = n THEN IF e = 0 THEN {0, l} ELSE {l}
           ELSE IF 0 \in held[l][e] THEN held[l][e] \cup {n} ELSE held[l][e]) \in SUBSET Fork!Processes
    BY <1>4, <2>1, Zenon
  <2> QED
    BY <1>2, <2>2, Zenon
<1>10. ForkTypes'
  BY <1>2, <1>3, <1>5, <1>6, <1>9, Zenon DEF ForkInv, ForkTypes, Fork!TypeOK, Fork!Ends
<1>11. Ahead(n) /\ opened = {}
  BY <1>2, <1>3, Zenon DEF ForkInv, ForkPlace
<1>12. ForkPlace'
  <2>1. ASSUME NEW l \in Fork!Lines, l > n PROVE Ahead(l)'
    BY <1>2, <1>3, <1>5, <1>6, <2>1, Zenon DEF ForkInv, ForkPlace, Ahead
  <2> QED
    BY <1>2, <1>6, <1>11, <2>1, Zenon DEF ForkPlace, Ahead
<1>13. \A l \in Fork!Lines : HeldRight(l) /\ StreamRight(l)
  BY <1>2, Zenon DEF ForkInv, ForkHeld, ForkStreams, ForkRuns
<1>14. ForkHeld'
  <2>1. ASSUME NEW l \in Fork!Lines, l # n PROVE HeldRight(l)'
    <3> HeldRight(l)
      BY <1>13, Zenon
    <3>0. 0 \notin held[l][1]
      BY <1>3, Zenon DEF HeldRight
    <3>1. held'[l][1] = held[l][1]
      BY <1>7, <2>1, <3>0, Zenon
    <3>2. l \in unsent => n >= l
      BY <1>3, <2>1, Zenon DEF ForkInv, ForkPlace, Ahead
    <3>3. \A p \in Fork!Lines : Live(p) => Live(p)'
      BY <1>5, Zenon DEF Live
    <3>4. Live(n)'
      BY <1>5, Zenon DEF Live
    <3>5. 0 \in held[l][0] <=> l \in unsent
      BY <1>2, Zenon DEF HeldRight
    <3>6. \/ l \in unsent /\ held'[l][0] = held[l][0] \cup {n}
          \/ l \notin unsent /\ held'[l][0] = held[l][0]
      BY <1>7, <2>1, <3>5, Zenon
    <3>7. ASSUME NEW p \in held'[l][0] PROVE p = 0 \/ (p \in Fork!Lines /\ p >= l /\ Live(p)')
      <4>1. CASE p \in held[l][0]
        <5>1. p = 0 \/ (p \in Fork!Lines /\ p >= l /\ Live(p))
          BY <4>1, Zenon DEF HeldRight
        <5> QED
          BY <3>3, <5>1, Zenon
      <4>2. CASE p = n /\ l \in unsent
        BY <3>2, <3>4, <4>2, Zenon
      <4> QED
        BY <3>6, <4>1, <4>2, Zenon
    <3>8. child'[l] = child[l] /\ (l \in held'[l][0] => child[l] = "close")
      <4>1. l \in held'[l][0] => l \in held[l][0]
        BY <2>1, <3>6, Zenon
      <4> QED
        BY <1>5, <2>1, <4>1, Zenon DEF HeldRight
    <3>9. 0 \in held'[l][0] <=> l \in unsent
      BY <1>3, <3>5, <3>6, Zenon
    <3>10. held'[l][1] \subseteq {l} /\ (held'[l][1] # {} => Live(l)')
      BY <3>1, <3>3, Zenon DEF HeldRight
    <3>11. l \in unsent \/ (child'[l] \in {"none", "reaped"} /\ held'[l][0] = {} /\ held'[l][1] = {})
      BY <1>2, <3>1, <3>6, <3>8, Zenon DEF HeldRight
    <3> QED
      BY <1>2, <2>1, <3>7, <3>8, <3>9, <3>10, <3>11, Zenon DEF HeldRight
  <2>2. HeldRight(n)'
    BY <1>2, <1>3, <1>5, <1>8, Zenon DEF HeldRight, Live
  <2> QED
    BY <2>1, <2>2, Zenon DEF ForkHeld
<1>15. ForkStreams'
  BY <1>2, <1>13, Zenon DEF ForkStreams, StreamRight
<1>16. Fork!R!Ask(n)
  BY <1>2, <1>11, SameReply, Zenon DEF Fork!R!Ask, Ahead
<1> QED
  BY <1>10, <1>12, <1>14, <1>15, <1>16, Zenon DEF ForkInv

(* The request is written, to a server that lives.                         *)
LEMMA SendKeeps ==
  ASSUME ForkInv, Fork!send_request
  PROVE  ForkInv'
<1>1. /\ parent = "request" /\ held[line][1] # {} /\ parent' = "recv_fd"
      /\ line' = line /\ lines' = lines /\ answers' = answers /\ unsent' = unsent
      /\ child' = child /\ held' = held /\ to_parent' = to_parent /\ opened' = opened
      /\ to_child' = [to_child EXCEPT ![line] = <<Daemon!request(lines[line])>>]
  BY SameReply, Zenon DEF Fork!send_request
<1>2. line \in Fork!Lines /\ lines[line] \in Daemon!Paths
  BY <1>1, Zenon DEF ForkInv, ForkTypes, ForkPlace
<1>3. \A l \in Fork!Lines : HeldRight(l) /\ StreamRight(l)
  BY <1>1, Zenon DEF ForkInv, ForkHeld, ForkStreams, ForkRuns
<1>4. /\ \A l \in Fork!Lines : to_child[l] = <<>> /\ to_parent[l] = <<>>
      /\ Live(line)
  BY <1>1, <1>2, <1>3, Zenon DEF HeldRight, StreamRight
<1>5. to_child' \in [Fork!Lines -> Seq(Requests)]
  <2>1. Daemon!request(lines[line]) \in Requests
    BY <1>2, Zenon DEF Requests
  <2>2. <<Daemon!request(lines[line])>> \in Seq(Requests)
    BY <2>1
  <2> QED
    BY <1>1, <1>2, <2>2, Zenon DEF ForkInv, ForkTypes
<1>6. ForkTypes'
  BY <1>1, <1>5, Zenon DEF ForkInv, ForkTypes, Fork!TypeOK
<1>7. ForkPlace'
  BY <1>1, Zenon DEF ForkInv, ForkPlace, Ahead
<1>8. ForkHeld'
  <2>1. ASSUME NEW l \in Fork!Lines PROVE HeldRight(l)'
    <3>1. HeldRight(l)
      BY <1>3, Zenon
    <3> QED
      BY <1>1, <3>1, Zenon DEF HeldRight, Live
  <2> QED
    BY <2>1, Zenon DEF ForkHeld
<1>9. ForkStreams'
  <2>1. ASSUME NEW l \in Fork!Lines PROVE StreamRight(l)'
    <3>1. CASE l = line
      <4>1. to_child'[l] = <<Daemon!request(lines[l])>> /\ Live(l)'
        BY <1>1, <1>2, <1>4, <3>1, Zenon DEF ForkInv, ForkTypes, Live
      <4> QED
        BY <1>1, <1>4, <3>1, <4>1, Zenon DEF StreamRight
    <3>2. CASE l # line
      <4>1. to_child'[l] = <<>>
        BY <1>1, <1>2, <1>4, <3>2, Zenon DEF ForkInv, ForkTypes
      <4> QED
        BY <1>1, <1>4, <4>1, Zenon DEF StreamRight
    <3> QED
      BY <3>1, <3>2, Zenon
  <2> QED
    BY <2>1, Zenon DEF ForkStreams
<1> QED
  BY <1>6, <1>7, <1>8, <1>9, Zenon DEF ForkInv

(* The parent ends.                                                        *)
LEMMA ExitKeeps ==
  ASSUME ForkInv, Fork!send_request_killed \/ Fork!finish
  PROVE  ForkInv' /\ UNCHANGED <<lines, answers>>
<1>1. /\ parent' \in {"done", "killed"} /\ held' = Fork!Without(0) /\ opened' = {}
      /\ line' = line /\ lines' = lines /\ answers' = answers /\ unsent' = unsent
      /\ child' = child /\ to_child' = to_child /\ to_parent' = to_parent
  BY Zenon DEF Fork!send_request_killed, Fork!finish, Fork!parent_exits, Fork!Parent
<1>2. held' \in [Fork!Lines -> [Fork!Ends -> SUBSET Fork!Processes]]
  BY <1>1, CloseAll, Zenon DEF ForkInv
<1>3. ForkTypes'
  BY <1>1, <1>2, Zenon DEF ForkInv, ForkTypes, Fork!TypeOK
<1>4. ForkPlace'
  BY <1>1, Zenon DEF ForkInv, ForkPlace, Ahead
<1>5. ForkHeld' /\ ForkStreams'
  BY <1>1, Zenon DEF ForkHeld, ForkStreams, ForkRuns
<1> QED
  BY <1>1, <1>3, <1>4, <1>5, Zenon DEF ForkInv

(* The request is not written: the parent's end and the server stay.       *)
LEMMA UnsentKeeps ==
  ASSUME ForkInv, Fork!send_request_failed
  PROVE  ForkInv' /\ \E l \in Fork!Lines : Fork!R!Answer(l)
<1>1. /\ parent = "request" /\ answers' = [answers EXCEPT ![line] = "no_fd"]
      /\ unsent' = unsent \cup {line} /\ parent' = "fgets"
      /\ line' = line /\ lines' = lines /\ child' = child /\ held' = held
      /\ to_child' = to_child /\ to_parent' = to_parent /\ opened' = opened
  BY Zenon DEF Fork!send_request_failed, Fork!NoFd
<1>2. /\ line \in Fork!Lines /\ answers[line] = "waiting" /\ lines[line] # <<>> /\ opened = {}
      /\ answers \in [Fork!Lines -> Files \cup {"waiting", "no_fd"}]
  BY <1>1, Zenon DEF ForkInv, ForkTypes, ForkPlace, Fork!TypeOK, Fork!NoFd
<1>3. /\ answers' \in [Fork!Lines -> Files \cup {"waiting", "no_fd"}]
      /\ \A l \in Fork!Lines \ {line} : answers'[l] = answers[l]
  BY <1>1, <1>2, Zenon
<1>4. ForkTypes'
  BY <1>1, <1>2, <1>3, Zenon DEF ForkInv, ForkTypes, Fork!TypeOK, Fork!NoFd
<1>5. ForkPlace'
  <2>1. \A l \in Fork!Lines : l > line => l # line
    BY <1>2 DEF Fork!Lines
  <2>2. ASSUME NEW l \in Fork!Lines, l > line PROVE Ahead(l)'
    BY <1>1, <1>3, <2>1, <2>2, Zenon DEF ForkInv, ForkPlace, Ahead
  <2> QED
    BY <1>1, <1>2, <2>2, Zenon DEF ForkPlace
<1>6. \A l \in Fork!Lines : HeldRight(l) /\ StreamRight(l)
  BY <1>1, Zenon DEF ForkInv, ForkHeld, ForkStreams, ForkRuns
<1>7. ForkHeld'
  <2>1. ASSUME NEW l \in Fork!Lines PROVE HeldRight(l)'
    <3>1. HeldRight(l)
      BY <1>6, Zenon
    <3>2. /\ 0 \in held'[l][0] <=> l \in unsent'
          /\ l \in unsent' \/ (child'[l] \in {"none", "reaped"} /\ held'[l][0] = {} /\ held'[l][1] = {})
      BY <1>1, <3>1, Zenon DEF HeldRight
    <3> QED
      BY <1>1, <3>1, <3>2, Zenon DEF HeldRight, Live
  <2> QED
    BY <2>1, Zenon DEF ForkHeld
<1>8. ForkStreams'
  BY <1>1, <1>6, Zenon DEF ForkStreams, StreamRight
<1>9. Fork!R!Answer(line)
  BY <1>1, <1>2, Zenon DEF Fork!R!Answer
<1> QED
  BY <1>2, <1>4, <1>5, <1>7, <1>8, <1>9, Zenon DEF ForkInv

(* The answer, the end of the stream of a server that is gone, or an       *)
(* error; the parent closes its end.                                       *)
LEMMA ReceiveKeeps ==
  ASSUME ForkInv, Fork!recv_fd_then_close \/ Fork!recv_fd_failed
  PROVE  ForkInv' /\ \E l \in Fork!Lines : Fork!R!Answer(l)
<1>1. /\ parent = "recv_fd" /\ to_parent' = [to_parent EXCEPT ![line] = <<>>]
      /\ held' = [held EXCEPT ![line][0] = @ \ {0}] /\ parent' = "waitpid"
      /\ line' = line /\ lines' = lines /\ unsent' = unsent /\ child' = child
      /\ to_child' = to_child
  BY Zenon DEF Fork!recv_fd_then_close, Fork!recv_fd_failed, Fork!close_end, Fork!Parent
<1>2. /\ line \in Fork!Lines /\ answers[line] = "waiting" /\ lines[line] # <<>> /\ line \notin unsent
      /\ lines[line] \in Daemon!Paths /\ opened = {}
      /\ answers \in [Fork!Lines -> Files \cup {"waiting", "no_fd"}]
      /\ to_parent \in [Fork!Lines -> Seq(Replies)]
  BY <1>1, Zenon DEF ForkInv, ForkTypes, ForkPlace, Fork!TypeOK, Fork!NoFd
<1>3. PICK fd : /\ answers' = [answers EXCEPT ![line] = fd] /\ opened' = opened \cup ({fd} \ {"no_fd"})
                /\ \/ to_parent[line] # <<>> /\ fd = Fork!recv_fd(Head(to_parent[line]))
                   \/ fd = "no_fd"
  BY Zenon DEF Fork!recv_fd_then_close, Fork!recv_fd_failed, Fork!Received, Fork!NoFd
<1>4. \A l \in Fork!Lines : HeldRight(l) /\ StreamRight(l)
  BY <1>1, Zenon DEF ForkInv, ForkHeld, ForkStreams, ForkRuns
<1>5. fd \in {"no_fd"} \cup (Daemon!R!FirstWord(lines[line]) \cap Files)
  <2>1. ASSUME to_parent[line] # <<>> PROVE Head(to_parent[line]) \in Reply(Daemon!request(lines[line]))
    <3>1. PICK m \in Reply(Daemon!request(lines[line])) : to_parent[line] = <<m>>
      BY <1>2, <1>4, <2>1, Zenon DEF StreamRight
    <3>2. Head(<<m>>) = m
      OBVIOUS
    <3> QED
      BY <3>1, <3>2, Zenon
  <2>2. ASSUME to_parent[line] # <<>>, fd = Daemon!recv_fd(Head(to_parent[line])) PROVE fd \in {"no_fd"} \cup (Daemon!R!FirstWord(lines[line]) \cap Files)
    BY <1>2, <2>1, <2>2, ReplyRight, Zenon
  <2> QED
    BY <1>3, <2>2, SameReply, Zenon
<1>6. /\ held' \in [Fork!Lines -> [Fork!Ends -> SUBSET Fork!Processes]]
      /\ held'[line][0] = held[line][0] \ {0} /\ held'[line][1] = held[line][1]
      /\ \A k \in Fork!Lines \ {line} : held'[k] = held[k]
  BY <1>1, <1>2, CloseOne, Zenon DEF ForkInv
<1>7. /\ answers' \in [Fork!Lines -> Files \cup {"waiting", "no_fd"}]
      /\ \A l \in Fork!Lines \ {line} : answers'[l] = answers[l]
  BY <1>2, <1>3, <1>5, Zenon
<1>8. /\ to_parent' \in [Fork!Lines -> Seq(Replies)] /\ to_parent'[line] = <<>>
      /\ \A l \in Fork!Lines \ {line} : to_parent'[l] = to_parent[l]
  <2>1. <<>> \in Seq(Replies)
    OBVIOUS
  <2> QED
    BY <1>1, <1>2, <2>1, Zenon
<1>9. opened' \subseteq Files
  BY <1>2, <1>3, <1>5, Zenon
<1>10. ForkTypes'
  BY <1>1, <1>6, <1>7, <1>8, <1>9, Zenon DEF ForkInv, ForkTypes, Fork!TypeOK, Fork!NoFd
<1>11. ForkPlace'
  <2>1. \A l \in Fork!Lines : l > line => l # line
    BY <1>2 DEF Fork!Lines
  <2>2. ASSUME NEW l \in Fork!Lines, l > line PROVE Ahead(l)'
    BY <1>1, <1>7, <2>1, <2>2, Zenon DEF ForkInv, ForkPlace, Ahead
  <2> QED
    BY <1>1, <1>2, <2>2, Zenon DEF ForkPlace
<1>12. ForkHeld'
  <2>1. ASSUME NEW l \in Fork!Lines PROVE HeldRight(l)'
    <3>1. HeldRight(l)
      BY <1>4, Zenon
    <3>2. CASE l # line
      <4>1. held'[l] = held[l]
        BY <1>6, <3>2, Zenon
      <4> QED
        BY <1>1, <3>1, <3>2, <4>1, Zenon DEF HeldRight, Live
    <3>3. CASE l = line
      <4>1. held'[l][0] = held[l][0] \ {0} /\ held'[l][1] = held[l][1] /\ l \notin unsent
        BY <1>2, <1>6, <3>3, Zenon
      <4> QED
        BY <1>1, <3>1, <3>3, <4>1, Zenon DEF HeldRight, Live
    <3> QED
      BY <3>2, <3>3, Zenon
  <2> QED
    BY <2>1, Zenon DEF ForkHeld
<1>13. ForkStreams'
  <2>1. ASSUME NEW l \in Fork!Lines PROVE StreamRight(l)'
    <3>1. StreamRight(l)
      BY <1>4, Zenon
    <3>2. to_parent'[l] = <<>>
      BY <1>1, <1>8, <3>1, Zenon DEF StreamRight
    <3> QED
      BY <1>1, <3>1, <3>2, Zenon DEF StreamRight, Live
  <2> QED
    BY <2>1, Zenon DEF ForkStreams
<1>14. Fork!R!Answer(line)
  BY <1>1, <1>2, <1>3, <1>5, SameReply, Zenon DEF Fork!R!Answer
<1> QED
  BY <1>2, <1>10, <1>11, <1>12, <1>13, <1>14, Zenon DEF ForkInv

(* The server has ended and is reaped: nobody holds an end of the pair.    *)
LEMMA ReapKeeps ==
  ASSUME ForkInv, Fork!waitpid
  PROVE  ForkInv' /\ UNCHANGED <<lines, answers>>
<1>1. /\ parent = "waitpid" /\ child[line] = "zombie" /\ child' = [child EXCEPT ![line] = "reaped"]
      /\ parent' = "cat" /\ line' = line /\ lines' = lines /\ answers' = answers
      /\ unsent' = unsent /\ held' = held /\ to_child' = to_child /\ to_parent' = to_parent
      /\ opened' = opened
  BY Zenon DEF Fork!waitpid
<1>2. /\ line \in Fork!Lines /\ line \notin unsent
      /\ child \in [Fork!Lines -> {"none", "close", "loop", "zombie", "reaped"}]
  BY <1>1, Zenon DEF ForkInv, ForkTypes, ForkPlace, Fork!TypeOK
<1>3. /\ child' \in [Fork!Lines -> {"none", "close", "loop", "zombie", "reaped"}]
      /\ child'[line] = "reaped" /\ \A l \in Fork!Lines \ {line} : child'[l] = child[l]
  BY <1>1, <1>2, Zenon
<1>4. \A l \in Fork!Lines : HeldRight(l) /\ StreamRight(l)
  BY <1>1, Zenon DEF ForkInv, ForkHeld, ForkStreams, ForkRuns
<1>5. \A p \in Fork!Lines : p > line => p # line
  BY <1>2 DEF Fork!Lines
<1>6. \A p \in Fork!Lines : Live(p) => Live(p)' /\ p # line /\ ~(p > line)
  <2>1. ASSUME NEW p \in Fork!Lines, Live(p) PROVE p # line
    BY <1>1, <2>1, Zenon DEF Live
  <2>2. ASSUME NEW p \in Fork!Lines, Live(p) PROVE ~(p > line)
    BY <2>2, Zenon DEF Live, ForkInv, ForkPlace, Ahead
  <2> QED
    BY <1>3, <2>1, <2>2, Zenon DEF Live
<1>7. held[line][0] = {} /\ held[line][1] = {}
  <2>1. HeldRight(line)
    BY <1>2, <1>4, Zenon
  <2>2. \A p \in Fork!Lines : p >= line => p = line \/ p > line
    BY <1>2 DEF Fork!Lines
  <2>3. 0 \notin held[line][0]
    BY <1>1, <1>2, <2>1, Zenon DEF HeldRight
  <2>4. held[line][0] = {}
    BY <1>6, <2>1, <2>2, <2>3, Zenon DEF HeldRight
  <2>5. held[line][1] = {}
    BY <1>1, <2>1, Zenon DEF HeldRight, Live
  <2> QED
    BY <2>4, <2>5, Zenon
<1>8. ForkTypes'
  BY <1>1, <1>3, Zenon DEF ForkInv, ForkTypes, Fork!TypeOK
<1>9. ForkPlace'
  <2>1. ASSUME NEW l \in Fork!Lines, l > line PROVE Ahead(l)'
    BY <1>1, <1>3, <1>5, <2>1, Zenon DEF ForkInv, ForkPlace, Ahead
  <2> QED
    BY <1>1, <1>2, <2>1, Zenon DEF ForkPlace
<1>10. ForkHeld'
  <2>1. ASSUME NEW l \in Fork!Lines, l # line PROVE HeldRight(l)'
    <3>1. HeldRight(l) /\ child'[l] = child[l] /\ (Live(l) => Live(l)')
      BY <1>3, <1>4, <1>6, <2>1, Zenon
    <3>2. ASSUME NEW p \in held[l][0] PROVE p = 0 \/ (p \in Fork!Lines /\ p >= l /\ Live(p)')
      BY <1>6, <3>1, <3>2, Zenon DEF HeldRight
    <3> QED
      BY <1>1, <2>1, <3>1, <3>2, Zenon DEF HeldRight
  <2>2. ASSUME NEW l \in Fork!Lines, l = line PROVE HeldRight(l)'
    BY <1>1, <1>2, <1>3, <1>7, <2>2, Zenon DEF HeldRight
  <2> QED
    BY <2>1, <2>2, Zenon DEF ForkHeld
<1>11. ForkStreams'
  <2>1. ASSUME NEW l \in Fork!Lines PROVE to_child[l] = <<>> /\ to_parent[l] = <<>>
    BY <1>1, <1>4, <1>6, Zenon DEF StreamRight
  <2> QED
    BY <1>1, <2>1, Zenon DEF ForkStreams, StreamRight
<1> QED
  BY <1>1, <1>8, <1>9, <1>10, <1>11, Zenon DEF ForkInv

(* The file is copied and closed.                                          *)
LEMMA CatKeeps ==
  ASSUME ForkInv, Fork!cat_file
  PROVE  ForkInv' /\ UNCHANGED <<lines, answers>>
<1>1. /\ parent = "cat" /\ opened' = {} /\ parent' = "fgets" /\ line' = line /\ lines' = lines
      /\ answers' = answers /\ unsent' = unsent /\ child' = child /\ held' = held
      /\ to_child' = to_child /\ to_parent' = to_parent
  BY Zenon DEF Fork!cat_file
<1>2. \A l \in Fork!Lines : HeldRight(l) /\ StreamRight(l)
  BY <1>1, Zenon DEF ForkInv, ForkHeld, ForkStreams, ForkRuns
<1>3. ForkTypes'
  BY <1>1, Zenon DEF ForkInv, ForkTypes, Fork!TypeOK
<1>4. ForkPlace'
  BY <1>1, Zenon DEF ForkInv, ForkPlace, Ahead
<1>5. ForkHeld'
  <2>1. ASSUME NEW l \in Fork!Lines PROVE HeldRight(l)'
    <3>1. HeldRight(l)
      BY <1>2, Zenon
    <3> QED
      BY <1>1, <3>1, Zenon DEF HeldRight, Live
  <2> QED
    BY <2>1, Zenon DEF ForkHeld
<1>6. ForkStreams'
  BY <1>1, <1>2, Zenon DEF ForkStreams, StreamRight
<1> QED
  BY <1>1, <1>3, <1>4, <1>5, <1>6, Zenon DEF ForkInv

(* A server closes its copy of the parent's end.                           *)
LEMMA ChildCloseKeeps ==
  ASSUME ForkInv, NEW k \in Fork!Lines, Fork!child_close(k)
  PROVE  ForkInv' /\ UNCHANGED <<lines, answers>>
<1>1. /\ child[k] = "close" /\ child' = [child EXCEPT ![k] = "loop"]
      /\ held' = [held EXCEPT ![k][0] = @ \ {k}]
      /\ line' = line /\ lines' = lines /\ answers' = answers /\ unsent' = unsent
      /\ parent' = parent /\ to_child' = to_child /\ to_parent' = to_parent /\ opened' = opened
  BY Zenon DEF Fork!child_close
<1>2. /\ child' \in [Fork!Lines -> {"none", "close", "loop", "zombie", "reaped"}]
      /\ child'[k] = "loop" /\ \A l \in Fork!Lines \ {k} : child'[l] = child[l]
  BY <1>1, Zenon DEF ForkInv, ForkTypes, Fork!TypeOK
<1>3. /\ held' \in [Fork!Lines -> [Fork!Ends -> SUBSET Fork!Processes]]
      /\ held'[k][0] = held[k][0] \ {k} /\ held'[k][1] = held[k][1]
      /\ \A l \in Fork!Lines \ {k} : held'[l] = held[l]
  BY <1>1, CloseOne, Zenon DEF ForkInv
<1>4. \A p \in Fork!Lines : Live(p) <=> Live(p)'
  BY <1>1, <1>2, Zenon DEF Live
<1>5. ForkTypes'
  BY <1>1, <1>2, <1>3, Zenon DEF ForkInv, ForkTypes, Fork!TypeOK
<1>6. ForkPlace'
  BY <1>1, <1>2, Zenon DEF ForkInv, ForkPlace, Ahead
<1>7. ForkHeld'
  <2>1. ASSUME ForkRuns, NEW l \in Fork!Lines PROVE HeldRight(l)'
    <3>1. HeldRight(l)
      BY <2>1, Zenon DEF ForkInv, ForkHeld
    <3>2. CASE l # k
      <4>1. held'[l] = held[l] /\ child'[l] = child[l]
        BY <1>2, <1>3, <3>2, Zenon
      <4>2. ASSUME NEW p \in held[l][0] PROVE p = 0 \/ (p \in Fork!Lines /\ p >= l /\ Live(p)')
        BY <1>4, <3>1, <4>2, Zenon DEF HeldRight
      <4> QED
        BY <1>1, <1>4, <3>1, <4>1, <4>2, Zenon DEF HeldRight
    <3>3. CASE l = k
      <4>1. 0 # k
        BY Bounds DEF Fork!Lines
      <4>2. held'[l][0] = held[l][0] \ {l} /\ held'[l][1] = held[l][1] /\ 0 # l
        BY <1>3, <3>3, <4>1, Zenon
      <4>3. ASSUME NEW p \in held'[l][0] PROVE p = 0 \/ (p \in Fork!Lines /\ p >= l /\ Live(p)')
        BY <1>4, <3>1, <4>2, <4>3, Zenon DEF HeldRight
      <4>4. l \in unsent \/ (l = line /\ parent \in {"request", "recv_fd", "waitpid"})
        BY <1>1, <3>1, <3>3, Zenon DEF HeldRight
      <4> QED
        BY <1>1, <1>4, <3>1, <4>2, <4>3, <4>4, Zenon DEF HeldRight
    <3> QED
      BY <3>2, <3>3, Zenon
  <2> QED
    BY <1>1, <2>1, Zenon DEF ForkHeld, ForkRuns
<1>8. ForkStreams'
  BY <1>1, <1>4, Zenon DEF ForkInv, ForkStreams, ForkRuns, StreamRight
<1> QED
  BY <1>1, <1>5, <1>6, <1>7, <1>8, Zenon DEF ForkInv

(* A server answers; the parent has not given up.                          *)
LEMMA ProcessKeeps ==
  ASSUME ForkInv, NEW k \in Fork!Lines, Fork!process_request(k)
  PROVE  ForkInv' /\ UNCHANGED <<lines, answers>>
<1>1. /\ child[k] = "loop" /\ to_child[k] # <<>> /\ held[k][0] # {}
      /\ to_child' = [to_child EXCEPT ![k] = <<>>]
      /\ line' = line /\ lines' = lines /\ answers' = answers /\ unsent' = unsent
      /\ parent' = parent /\ child' = child /\ held' = held /\ opened' = opened
  BY Zenon DEF Fork!process_request
<1>2. PICK m \in Reply(Head(to_child[k])) : to_parent' = [to_parent EXCEPT ![k] = <<m>>]
  BY SameReply, Zenon DEF Fork!process_request
<1>3. to_child \in [Fork!Lines -> Seq(Requests)] /\ to_parent \in [Fork!Lines -> Seq(Replies)]
  BY Zenon DEF ForkInv, ForkTypes
<1>4. /\ to_child' \in [Fork!Lines -> Seq(Requests)] /\ to_child'[k] = <<>>
      /\ \A l \in Fork!Lines \ {k} : to_child'[l] = to_child[l]
  <2>1. <<>> \in Seq(Requests)
    OBVIOUS
  <2> QED
    BY <1>1, <1>3, <2>1, Zenon
<1>5. /\ to_parent' \in [Fork!Lines -> Seq(Replies)] /\ to_parent'[k] = <<m>>
      /\ \A l \in Fork!Lines \ {k} : to_parent'[l] = to_parent[l]
  <2>1. to_child[k] \in Seq(Requests)
    BY <1>3, Zenon
  <2>2. Head(to_child[k]) \in Requests
    BY <1>1, <2>1
  <2>3. m \in Replies
    BY <1>2, <2>2, Zenon DEF Replies
  <2>4. <<m>> \in Seq(Replies)
    BY <2>3
  <2> QED
    BY <1>2, <1>3, <2>4, Zenon
<1>6. ForkTypes'
  BY <1>1, <1>4, <1>5, Zenon DEF ForkInv, ForkTypes, Fork!TypeOK
<1>7. ForkPlace'
  BY <1>1, Zenon DEF ForkInv, ForkPlace, Ahead
<1>8. ForkHeld'
  BY <1>1, Zenon DEF ForkInv, ForkHeld, ForkRuns, HeldRight, Live
<1>9. ForkStreams'
  <2>1. ASSUME ForkRuns, NEW l \in Fork!Lines PROVE StreamRight(l)'
    <3>1. StreamRight(l) /\ HeldRight(l)
      BY <2>1, Zenon DEF ForkInv, ForkStreams, ForkHeld
    <3>2. CASE l # k
      <4>1. to_child'[l] = to_child[l] /\ to_parent'[l] = to_parent[l]
        BY <1>4, <1>5, <3>2, Zenon
      <4> QED
        BY <1>1, <3>1, <4>1, Zenon DEF StreamRight, Live
    <3>3. CASE l = k
      <4>1. /\ l = line /\ parent \in {"recv_fd", "waitpid"}
            /\ to_child[l] = <<Daemon!request(lines[l])>>
        BY <1>1, <3>1, <3>3, Zenon DEF StreamRight
      <4>2. parent = "recv_fd"
        <5>1. ASSUME parent = "waitpid" PROVE FALSE
          <6>1. 0 \notin held[l][0] /\ l \notin held[l][0]
            BY <1>1, <3>1, <3>3, <4>1, <5>1, Zenon DEF HeldRight, ForkInv, ForkPlace
          <6>2. PICK p \in held[l][0] : TRUE
            BY <1>1, <3>3, Zenon
          <6>3. p \in Fork!Lines /\ p >= l /\ Live(p) /\ p # l
            BY <3>1, <6>1, <6>2, Zenon DEF HeldRight
          <6>4. p > line
            BY <4>1, <6>3 DEF Fork!Lines
          <6> QED
            BY <6>3, <6>4, Zenon DEF ForkInv, ForkPlace, Ahead, Live
        <5> QED
          BY <4>1, <5>1, Zenon
      <4>3. Head(<<Daemon!request(lines[l])>>) = Daemon!request(lines[l])
        OBVIOUS
      <4>4. m \in Reply(Daemon!request(lines[l]))
        BY <1>2, <3>3, <4>1, <4>3, Zenon
      <4> QED
        BY <1>1, <1>4, <1>5, <3>3, <4>1, <4>2, <4>4, Zenon DEF StreamRight
    <3> QED
      BY <3>2, <3>3, Zenon
  <2> QED
    BY <1>1, <2>1, Zenon DEF ForkStreams, ForkRuns
<1> QED
  BY <1>1, <1>6, <1>7, <1>8, <1>9, Zenon DEF ForkInv

(* A server ends: nobody is left to answer, or it is killed.               *)
LEMMA ServerEndKeeps ==
  ASSUME ForkInv, NEW k \in Fork!Lines,
         Fork!process_request_killed(k) \/ Fork!server_loop_end(k) \/ Fork!kill_child(k)
  PROVE  ForkInv' /\ UNCHANGED <<lines, answers>>
<1>1. /\ Live(k) /\ child' = [child EXCEPT ![k] = "zombie"] /\ held' = Fork!Without(k)
      /\ to_child' = [to_child EXCEPT ![k] = <<>>]
      /\ line' = line /\ lines' = lines /\ answers' = answers /\ unsent' = unsent
      /\ parent' = parent /\ to_parent' = to_parent /\ opened' = opened
  BY Zenon DEF Fork!process_request_killed, Fork!server_loop_end, Fork!kill_child, Fork!child_exits, Live
<1>2. /\ child' \in [Fork!Lines -> {"none", "close", "loop", "zombie", "reaped"}]
      /\ child'[k] = "zombie" /\ \A l \in Fork!Lines \ {k} : child'[l] = child[l]
  BY <1>1, Zenon DEF ForkInv, ForkTypes, Fork!TypeOK
<1>3. /\ held' \in [Fork!Lines -> [Fork!Ends -> SUBSET Fork!Processes]]
      /\ \A l \in Fork!Lines : held'[l][0] = held[l][0] \ {k} /\ held'[l][1] = held[l][1] \ {k}
  BY <1>1, CloseAll, Zenon DEF ForkInv
<1>4. /\ to_child' \in [Fork!Lines -> Seq(Requests)] /\ to_child'[k] = <<>>
      /\ \A l \in Fork!Lines \ {k} : to_child'[l] = to_child[l]
  <2>1. <<>> \in Seq(Requests)
    OBVIOUS
  <2> QED
    BY <1>1, <2>1, Zenon DEF ForkInv, ForkTypes
<1>5. 0 # k
  BY Bounds DEF Fork!Lines
<1>6. \A p \in Fork!Lines \ {k} : Live(p) <=> Live(p)'
  BY <1>2, Zenon DEF Live
<1>7. ForkTypes'
  BY <1>1, <1>2, <1>3, <1>4, Zenon DEF ForkInv, ForkTypes, Fork!TypeOK
<1>8. ForkPlace'
  BY <1>1, <1>2, Zenon DEF ForkInv, ForkPlace, Ahead, Live
<1>9. ForkHeld'
  <2>1. ASSUME ForkRuns, NEW l \in Fork!Lines PROVE HeldRight(l)'
    <3>1. HeldRight(l) /\ held'[l][0] = held[l][0] \ {k} /\ held'[l][1] = held[l][1] \ {k}
      BY <1>3, <2>1, Zenon DEF ForkInv, ForkHeld
    <3>2. ASSUME NEW p \in held'[l][0] PROVE p = 0 \/ (p \in Fork!Lines /\ p >= l /\ Live(p)')
      BY <1>6, <3>1, <3>2, Zenon DEF HeldRight
    <3>3. 0 \in held'[l][0] <=> 0 \in held[l][0]
      BY <1>5, <3>1, Zenon
    <3>4. CASE l # k
      <4>1. child'[l] = child[l] /\ (Live(l) => Live(l)')
        BY <1>2, <1>6, <3>4, Zenon
      <4>2. held'[l][1] \subseteq {l} /\ (held'[l][1] # {} => Live(l)')
        BY <3>1, <4>1, Zenon DEF HeldRight
      <4>3. l \in held'[l][0] => child'[l] = "close"
        BY <3>1, <4>1, Zenon DEF HeldRight
      <4>4. l \in unsent \/ (l = line /\ parent \in {"request", "recv_fd", "waitpid"})
              \/ (child'[l] \in {"none", "reaped"} /\ held'[l][0] = {} /\ held'[l][1] = {})
        BY <3>1, <4>1, Zenon DEF HeldRight
      <4> QED
        BY <1>1, <3>1, <3>2, <3>3, <4>2, <4>3, <4>4, Zenon DEF HeldRight
    <3>5. CASE l = k
      <4>1. held'[l][1] = {} /\ l \notin held'[l][0]
        BY <3>1, <3>5, Zenon DEF HeldRight
      <4>2. l \in unsent \/ (l = line /\ parent \in {"request", "recv_fd", "waitpid"})
        BY <1>1, <3>1, <3>5, Zenon DEF HeldRight, Live
      <4> QED
        BY <1>1, <3>1, <3>2, <3>3, <4>1, <4>2, Zenon DEF HeldRight
    <3> QED
      BY <3>4, <3>5, Zenon
  <2> QED
    BY <1>1, <2>1, Zenon DEF ForkHeld, ForkRuns
<1>10. ForkStreams'
  <2>1. ASSUME ForkRuns, NEW l \in Fork!Lines PROVE StreamRight(l)'
    <3>1. StreamRight(l) /\ (to_child'[l] = <<>> \/ (l # k /\ to_child'[l] = to_child[l]))
      BY <1>4, <2>1, Zenon DEF ForkInv, ForkStreams
    <3> QED
      BY <1>1, <1>6, <3>1, Zenon DEF StreamRight
  <2> QED
    BY <1>1, <2>1, Zenon DEF ForkStreams, ForkRuns
<1> QED
  BY <1>1, <1>7, <1>8, <1>9, <1>10, Zenon DEF ForkInv

(* 17/3 stays where it is.                                                 *)
LEMMA SameFork ==
  ASSUME ForkInv, UNCHANGED forkVars
  PROVE  ForkInv'
<1>1. /\ line' = line /\ lines' = lines /\ answers' = answers /\ unsent' = unsent
      /\ parent' = parent /\ child' = child /\ held' = held
      /\ to_child' = to_child /\ to_parent' = to_parent /\ opened' = opened
  BY Zenon DEF forkVars
<1>2. ForkTypes' /\ ForkPlace'
  BY <1>1, Zenon DEF ForkInv, ForkTypes, Fork!TypeOK, ForkPlace, Ahead
<1>3. ForkHeld'
  BY <1>1, Zenon DEF ForkInv, ForkHeld, ForkRuns, HeldRight, Live
<1>4. ForkStreams'
  BY <1>1, Zenon DEF ForkInv, ForkStreams, ForkRuns, StreamRight, Live
<1> QED
  BY <1>2, <1>3, <1>4, Zenon DEF ForkInv

(* What every step of the parent and of its servers does.                  *)
LEMMA ForkStep ==
  ASSUME ForkInv, Fork!Next
  PROVE  /\ ForkInv'
         /\ [\E l \in Fork!Lines : Fork!R!Ask(l) \/ Fork!R!Answer(l)]_<<lines, answers>>
<1>1. CASE Fork!client_open
  BY <1>1, OpenKeeps, Zenon
<1>2. CASE Fork!send_request
  BY <1>2, SendKeeps, Zenon DEF Fork!send_request
<1>3. CASE Fork!send_request_killed \/ Fork!finish
  BY <1>3, ExitKeeps, Zenon
<1>4. CASE Fork!send_request_failed
  BY <1>4, UnsentKeeps, Zenon
<1>5. CASE Fork!recv_fd_then_close \/ Fork!recv_fd_failed
  BY <1>5, ReceiveKeeps, Zenon
<1>6. CASE Fork!waitpid \/ Fork!cat_file
  BY <1>6, ReapKeeps, CatKeeps, Zenon
<1>7. ASSUME NEW k \in Fork!Lines, Fork!server(k) \/ Fork!kill_child(k)
      PROVE  ForkInv' /\ UNCHANGED <<lines, answers>>
  BY <1>7, ChildCloseKeeps, ProcessKeeps, ServerEndKeeps, Zenon DEF Fork!server
<1>8. CASE Fork!Done
  <2>1. UNCHANGED forkVars
    BY <1>8, Zenon DEF Fork!Done, Fork!vars, forkVars
  <2> QED
    BY <2>1, SameFork, Zenon DEF forkVars
<1> QED
  BY <1>1, <1>2, <1>3, <1>4, <1>5, <1>6, <1>7, <1>8, Zenon DEF Fork!Next, Fork!main, Fork!failed

(* Between two lines nothing is left but of unsent ones.                   *)
LEMMA ForkClean == ForkInv => Fork!NothingLeftOver
<1> SUFFICES ASSUME ForkInv, parent = "fgets" PROVE Fork!NothingLeftOver
  BY Zenon DEF Fork!NothingLeftOver
<1>1. \A l \in Fork!Lines : HeldRight(l) /\ StreamRight(l)
  BY Zenon DEF ForkInv, ForkHeld, ForkStreams, ForkRuns
<1>2. opened = {} /\ unsent \subseteq Fork!Lines
  BY Zenon DEF ForkInv, ForkTypes, ForkPlace, Fork!TypeOK
<1>3. ASSUME NEW l \in Fork!Lines PROVE to_child[l] = <<>> /\ to_parent[l] = <<>>
  BY <1>1, Zenon DEF StreamRight
<1>4. ASSUME NEW l \in Fork!Lines, l \notin unsent
      PROVE  child[l] \in {"none", "reaped"} /\ held[l][0] = {} /\ held[l][1] = {}
  BY <1>1, <1>4, Zenon DEF HeldRight
<1>5. ASSUME NEW l \in unsent
      PROVE  /\ 0 \in held[l][0] /\ held[l][1] \subseteq {l}
             /\ held[l][0] \subseteq {0} \cup {k \in unsent : k >= l}
  <2>1. HeldRight(l)
    BY <1>1, <1>2, <1>5, Zenon
  <2>2. ASSUME NEW p \in held[l][0], p # 0 PROVE p \in unsent /\ p >= l
    <3>1. p \in Fork!Lines /\ p >= l /\ Live(p)
      BY <2>1, <2>2, Zenon DEF HeldRight
    <3> QED
      BY <1>4, <3>1, Zenon DEF Live
  <2> QED
    BY <2>1, <2>2, Zenon DEF HeldRight
<1> QED
  BY <1>2, <1>3, <1>4, <1>5, Zenon DEF Fork!NothingLeftOver, Fork!Ends, Fork!Parent
-----------------------------------------------------------------------------
(* 17/1: what is proved of the relay on its own.  The module that proves   *)
(* it is about daemons as well, of which there are none here.              *)
RP == INSTANCE DaemonRelayProofs
        WITH cq <- completed,
             Daemons <- {}, Kind <- [d \in {} |-> "handler"], MaxHups <- 0,
             Inherited <- {}, RlimMax <- 4,
             pc <- <<>>, pid <- <<>>, leader <- <<>>, terminal <- <<>>, fds <- <<>>,
             hup <- <<>>, blocked <- <<>>, pending <- <<>>, unread <- <<>>,
             lock <- "none", pidfile <- <<>>, hups <- 0

LEMMA RelayAlone ==
  ASSUME RP!RelayBounds
  PROVE  /\ RP!Init => RP!RelayInv
         /\ RP!RelayInv /\ RP!Next => RP!RelayInv'
         /\ RP!RelayInv /\ UNCHANGED RP!vars => RP!RelayInv'
         /\ RP!RelayInv => RP!RelayedWhole
<1>1. [d \in {} |-> "handler"] \in [{} -> {"handler", "thread", "singleton"}]
  BY Zenon
<1>2. 0 \in Nat /\ 4 \in Nat /\ 4 > 3
  OBVIOUS
<1>3. {} \subseteq 0..(4 - 1) /\ {} # 0..(4 - 1)
  OBVIOUS
<1> QED
  BY <1>1, <1>2, <1>3, RP!RelayInit, RP!RelayStep, RP!RelaySame, RP!RelayWhole, Zenon

LEMMA SameRelay ==
  /\ RP!RelayBounds
  /\ Relay!Init => RP!Init
  /\ Relay!Next => RP!Next
  /\ UNCHANGED relayVars => UNCHANGED RP!vars
  /\ RP!RelayedWhole => Relay!RelayedWhole
<1>1. Relay!Init => RP!Init
  BY Zenon DEF Relay!Init, RP!Init, Relay!Each, RP!Each
<1>2. ASSUME NEW q \in Queues
      PROVE  /\ \A n \in 0..MAXMSZ + 1 : Relay!mq_send(q, n) => RP!mq_send(q, n)
             /\ Relay!mq_receive(q) => RP!mq_receive(q)
             /\ Relay!thr_writen(q) => RP!thr_writen(q)
             /\ Relay!complete_read(q) => RP!complete_read(q)
             /\ Relay!complete_error(q) => RP!complete_error(q)
  BY Zenon DEF Relay!mq_send, RP!mq_send, Relay!mq_receive, RP!mq_receive,
               Relay!thr_writen, RP!thr_writen, Relay!complete_read, RP!complete_read,
               Relay!complete_error, RP!complete_error
<1>3. Relay!submit => RP!submit
  BY Zenon DEF Relay!submit, RP!submit, Relay!Started, RP!Started, Relay!Each, RP!Each
<1>4. Relay!turn => RP!turn
  BY Zenon DEF Relay!turn, RP!turn, Relay!Printed, RP!Printed
<1>5. Relay!Next => RP!Next
  BY <1>2, <1>3, <1>4, Zenon DEF Relay!Next, RP!Next, Relay!thr_fun, RP!thr_fun
<1>6. UNCHANGED relayVars => UNCHANGED RP!vars
  BY Zenon DEF relayVars, RP!vars
<1>7. RP!RelayedWhole => Relay!RelayedWhole
  BY Zenon DEF Relay!RelayedWhole, RP!RelayedWhole, Relay!TypeOK, RP!TypeOK,
       Relay!RelayedInOrder, RP!RelayedInOrder, Relay!InOrder, RP!InOrder, Relay!Ordered,
       RP!Ordered, Relay!Before, RP!Before, Relay!Ids, RP!Ids, Relay!PrintedText, RP!PrintedText
<1>8. RP!RelayBounds
  BY Bounds, Zenon DEF RP!RelayBounds
<1> QED
  BY <1>1, <1>5, <1>6, <1>7, <1>8, Zenon

SocketInv == DaemonInv /\ ForkInv /\ RP!RelayInv

(* What a step of any of the programs does.                                *)
LEMMA SocketStep ==
  ASSUME SocketInv, [SocketNext]_socketVars
  PROVE  /\ SocketInv'
         /\ [\E c \in Clients : Daemon!R!Ask(c) \/ Daemon!R!Answer(c)]_<<wants, got>>
         /\ [\E l \in Fork!Lines : Fork!R!Ask(l) \/ Fork!R!Answer(l)]_<<lines, answers>>
         /\ server' # server => ServerEnds
<1>1. DaemonInv /\ ForkInv /\ RP!RelayInv
  BY Zenon DEF SocketInv
<1>2. UNCHANGED daemonVars => UNCHANGED <<wants, got>> /\ server' = server
  BY Zenon DEF daemonVars
<1>3. UNCHANGED forkVars => UNCHANGED <<lines, answers>>
  BY Zenon DEF forkVars
<1>4. CASE daemon(Daemon!Next)
  <2>1. Daemon!Next /\ UNCHANGED forkVars /\ UNCHANGED relayVars
    BY <1>4, Zenon DEF daemon
  <2> QED
    BY <2>1, <1>1, <1>3, DaemonStep, SameFork, RelayAlone, SameRelay, Zenon DEF SocketInv
<1>5. CASE fork(Fork!Next)
  <2>1. Fork!Next /\ UNCHANGED daemonVars /\ UNCHANGED relayVars
    BY <1>5, Zenon DEF fork
  <2> QED
    BY <2>1, <1>1, <1>2, ForkStep, SameDaemon, RelayAlone, SameRelay, Zenon DEF SocketInv
<1>6. CASE relay(Relay!Next)
  <2>1. Relay!Next /\ UNCHANGED daemonVars /\ UNCHANGED forkVars
    BY <1>6, Zenon DEF relay
  <2> QED
    BY <2>1, <1>1, <1>2, <1>3, RelayAlone, SameRelay, SameDaemon, SameFork, Zenon DEF SocketInv
<1>7. CASE UNCHANGED socketVars
  <2>1. UNCHANGED daemonVars /\ UNCHANGED forkVars /\ UNCHANGED relayVars
    BY <1>7, Zenon DEF socketVars
  <2> QED
    BY <2>1, <1>1, <1>2, <1>3, SameDaemon, SameFork, RelayAlone, SameRelay, Zenon DEF SocketInv
<1> QED
  BY <1>4, <1>5, <1>6, <1>7, Zenon DEF SocketNext

LEMMA SocketStart == SocketInit => SocketInv
BY DaemonInit, ForkInit, RelayAlone, SameRelay, Zenon DEF SocketInit, SocketInv

LEMMA SocketInvariance == SocketSpec => []SocketInv
<1>1. SocketInv /\ [SocketNext]_socketVars => SocketInv'
  BY SocketStep, Zenon
<1> QED
  BY <1>1, SocketStart, PTL DEF SocketSpec

(* The socket programs lose nothing, for any clients, files, queues and    *)
(* sizes: 17/5 accounts for its descriptors and always listens, 17/3       *)
(* leaves nothing of a line whose request it wrote (17/3:40-47), and of    *)
(* another its own end, which later servers inherit, and 17/1 prints what  *)
(* was sent, once and in order (17/1:79-97).                               *)
THEOREM SocketsLoseNothing == SocketSpec => []NothingLost
<1>1. SocketInv => NothingLost
  <2> SUFFICES ASSUME SocketInv PROVE NothingLost
    BY Zenon
  <2>1. DaemonInv /\ ForkInv /\ RP!RelayInv
    BY Zenon DEF SocketInv
  <2>2. Daemon!TypeOK /\ Daemon!ListenerArmed /\ Fork!TypeOK
    BY <2>1, Zenon DEF DaemonInv, DaemonTypes, ForkInv, ForkTypes
  <2> QED
    BY <2>1, <2>2, DaemonFds, ForkClean, RelayAlone, SameRelay, Zenon DEF NothingLost, SocketTypeOK
<1> QED
  BY <1>1, SocketInvariance, PTL

(* 17/5: the server ends when it answers a client that has gone (17/5:79), *)
(* or when the wait for a completion fails (17/5:59); no other step of any *)
(* program ends it.                                                        *)
THEOREM ServerDiesOnlyAnswering == SocketSpec => DiesOnlyAnswering
<1>1. SocketInv /\ [SocketNext]_socketVars =>
        [server' # server =>
           \/ /\ server' = "dead"
              /\ Daemon!Completion("OP_READ") /\ Head(cq).res > 0
              /\ client[fds[Head(cq).fd]] = "killed"
           \/ server' = "exited" /\ failures' = failures + 1 /\ cq = <<>>]_Daemon!vars
  BY SocketStep, Zenon DEF ServerEnds
<1> QED
  BY <1>1, SocketInvariance, PTL DEF SocketSpec, DiesOnlyAnswering, Daemon!DiesOnlyAnswering

(* 17/3 and 17/5 implement the remote open: a request gets the file that   *)
(* the first word of its path names, or none, and one answer only. For a   *)
(* path without a blank that is the file which it names; the encoding at   *)
(* apue_unix_socket:253 and its parsing at 225 lose the rest of another.   *)
THEOREM SocketsOpenRight == SocketSpec => ImplementsOpen
<1>1. SocketInit => Daemon!R!AInit /\ Fork!R!AInit
  BY Zenon DEF SocketInit, Daemon!Init, Fork!Init
<1>2. SocketInv /\ [SocketNext]_socketVars =>
        [\E c \in Clients : Daemon!R!Ask(c) \/ Daemon!R!Answer(c)]_<<wants, got>>
  BY SocketStep, Zenon
<1>3. SocketInv /\ [SocketNext]_socketVars =>
        [\E c \in Fork!Lines : Fork!R!Ask(c) \/ Fork!R!Answer(c)]_<<lines, answers>>
  BY SocketStep, Zenon
<1>4. SocketSpec => Daemon!ImplementsOpen
  BY <1>1, <1>2, SocketInvariance, PTL DEF SocketSpec, Daemon!ImplementsOpen, Daemon!R!ASpec
<1>5. SocketSpec => Fork!ImplementsOpen
  BY <1>1, <1>3, SocketInvariance, PTL DEF SocketSpec, Fork!ImplementsOpen, Fork!R!ASpec
<1> QED
  BY <1>4, <1>5, PTL DEF ImplementsOpen
=============================================================================
