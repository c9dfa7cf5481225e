----------------------------- MODULE UnixSocket -----------------------------
(***************************************************************************)
(* lib/apue_unix_socket.cpp: the request to open a file and the answer     *)
(* that carries the descriptor.  A path is the sequence of what is between *)
(* its blanks, "" where two of them follow each other or where it begins   *)
(* or ends with one: the request puts a command before the path and a mode *)
(* behind it, with blanks, and the server takes it apart at the blanks.    *)
(* sendmsg puts a header, a message and possibly an open file in one       *)
(* message, which recv_fd takes with recvmsg and readn.                    *)
(***************************************************************************)
EXTENDS Integers, Sequences

CONSTANTS Files,      \* words that name a file which can be opened
          Others,     \* other words, and "" for nothing
          Numerals,   \* words that begin with a number
          MaxWords

Words == Files \cup Others
Paths == UNION {[1..n -> Words] : n \in 1..MaxWords}

NoFd == "no_fd"

(* OPEN is the only command, and O_RDONLY the mode of every client: 0.     *)
request(path) == <<"0">> \o path \o <<"0">>

StatusMsg(code, msg) == [code |-> code, msg |-> msg]
hasError(status) == status.code # 0 \/ status.msg # ""

(* Where >> finds a word of a request, from word i on: at one place, or at *)
(* none.                                                                   *)
extracted(s, i) == {j \in i..Len(s) : s[j] # "" /\ \A l \in i..j - 1 : s[l] = ""}

path_str_last(s) == {s[j] : j \in {i \in 2..Len(s) - 1 : s[i] # "" /\ s[i + 1] \in Numerals}}

(* The path that the server reads, if a number follows it: it stops at the *)
(* first blank of the path that was sent.                                  *)
path_str(s) ==
  {s[j] : j \in {i \in extracted(s, 2) : \E m \in extracted(s, i + 1) : s[m] \in Numerals}}

(* What the server may open for a request, and the status it then has. Any *)
(* open may fail: EIO stands for every errno.                              *)
EIO == 5
target(s) ==
  IF path_str(s) = {}
    THEN {[fd |-> NoFd, status |-> StatusMsg(0, "invalid_arguments")]}
    ELSE {[fd |-> NoFd, status |-> StatusMsg(EIO, "")]}
           \cup [fd : path_str(s) \cap Files, status : {StatusMsg(0, "")}]

(* The message of unix_socket_send_fd: an error travels without a file.    *)
send_fd(fd, status) ==
  [header |-> status, rights |-> IF hasError(status) THEN NoFd ELSE fd]

(* What unix_socket_recv_fd returns for a message; at the end of the       *)
(* stream it returns -1, as for an error.                                  *)
recv_fd(message) ==
  IF hasError(message.header) THEN NoFd ELSE message.rights
=============================================================================
