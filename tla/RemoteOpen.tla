----------------------------- MODULE RemoteOpen -----------------------------
(***************************************************************************)
(* What the programs that pass descriptors promise: a client is answered   *)
(* at most once, with a file or with none.  The file is the one that the   *)
(* client's path names if there is no blank in it; otherwise it is the one *)
(* that the path's first word names.                                       *)
(***************************************************************************)
EXTENDS Integers, Sequences

CONSTANTS Clients, Files, Paths

VARIABLES wants,   \* the path each client asks for, as a sequence of words, or <<>>
          got      \* "waiting", the file received, or "no_fd"

FirstWord(path) ==
  {path[j] : j \in {i \in DOMAIN path : path[i] # "" /\ \A l \in 1..i - 1 : path[l] = ""}}

AInit ==
  /\ wants = [c \in Clients |-> <<>>]
  /\ got = [c \in Clients |-> "waiting"]

Ask(c) ==
  /\ wants[c] = <<>>
  /\ \E path \in Paths : wants' = [wants EXCEPT ![c] = path]
  /\ UNCHANGED got

Answer(c) ==
  /\ wants[c] # <<>> /\ got[c] = "waiting"
  /\ \E g \in {"no_fd"} \cup (FirstWord(wants[c]) \cap Files) : got' = [got EXCEPT ![c] = g]
  /\ UNCHANGED wants

ASpec == AInit /\ [][\E c \in Clients : Ask(c) \/ Answer(c)]_<<wants, got>>
=============================================================================
