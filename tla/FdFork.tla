------------------------------- MODULE FdFork -------------------------------
(***************************************************************************)
(* 17/3_unix_socket_transmit_fd_fork.cpp: for each line it reads the       *)
(* program forks a server that opens the file and passes it back over a    *)
(* socket pair.  The server ends when it reads the end of the stream, which*)
(* comes only when nobody holds the parent's end any more.  A line whose   *)
(* request cannot be written leaves its end and its server behind, and the *)
(* servers of later lines inherit that end.                                *)
(***************************************************************************)
EXTENDS UnixSocket

CONSTANT MaxLines

VARIABLES line, wants, got,   \* the line at hand, the lines, the answers
          unsent,             \* the lines whose request was not written
          parent,             \* "fgets", "request", "recv_fd", "waitpid", "cat", "done",
                              \* "killed"
          child,              \* per line: "none", "close", "loop", "zombie", "reaped"
          held,               \* per line, held[l][e]: who holds end e of the pair
          up, down,           \* per line: the stream from the parent's end, and to it
          opened              \* the files that the parent has received and not closed

vars == <<line, wants, got, unsent, parent, child, held, up, down, opened>>

Lines == 1..MaxLines
Ends == {0, 1}
Parent == 0
Processes == {Parent} \cup Lines   \* a server has the number of its line

R == INSTANCE RemoteOpen WITH Clients <- Lines

Init ==
  /\ R!AInit
  /\ line = 0 /\ unsent = {}
  /\ parent = "fgets" /\ child = [l \in Lines |-> "none"]
  /\ held = [l \in Lines |-> [e \in Ends |-> {}]]
  /\ up = [l \in Lines |-> <<>>] /\ down = [l \in Lines |-> <<>>]
  /\ opened = {}

(* What is held when process p has exited.                                 *)
Without(p) == [l \in Lines |-> [e \in Ends |-> held[l][e] \ {p}]]

parent_exits(place) ==
  /\ parent' = place
  /\ held' = Without(Parent) /\ opened' = {}
  /\ UNCHANGED <<line, wants, unsent, child, up, down>>

(* main reads a line; unix_socket_client_open makes the pair, forks and    *)
(* closes the child's end. The child has every other end the parent has.   *)
client_open ==
  /\ parent = "fgets" /\ line < MaxLines
  /\ line' = line + 1
  /\ \E path \in Paths : wants' = [wants EXCEPT ![line + 1] = path]
  /\ held' = [l \in Lines |-> [e \in Ends |->
                IF l = line + 1 THEN IF e = 0 THEN {Parent, l} ELSE {l}
                ELSE IF Parent \in held[l][e] THEN held[l][e] \cup {line + 1} ELSE held[l][e]]]
  /\ child' = [child EXCEPT ![line + 1] = "close"]
  /\ parent' = "request"
  /\ UNCHANGED <<got, unsent, up, down, opened>>

send_request ==
  /\ parent = "request" /\ held[line][1] # {}
  /\ up' = [up EXCEPT ![line] = <<request(wants[line])>>]
  /\ parent' = "recv_fd"
  /\ UNCHANGED <<line, wants, got, unsent, child, held, down, opened>>

(* The server is gone, and nothing catches SIGPIPE.                        *)
send_request_killed ==
  /\ parent = "request" /\ held[line][1] = {}
  /\ parent_exits("killed")
  /\ UNCHANGED got

(* writen fails in another way: -1 is returned at once.                    *)
send_request_failed ==
  /\ parent = "request"
  /\ got' = [got EXCEPT ![line] = NoFd]
  /\ unsent' = unsent \cup {line}
  /\ parent' = "fgets"
  /\ UNCHANGED <<line, wants, child, held, up, down, opened>>

Received(fd) ==
  /\ got' = [got EXCEPT ![line] = fd]
  /\ opened' = opened \cup ({fd} \ {NoFd})

close_end ==
  /\ down' = [down EXCEPT ![line] = <<>>]
  /\ held' = [held EXCEPT ![line][0] = @ \ {Parent}]
  /\ parent' = "waitpid"
  /\ UNCHANGED <<line, wants, unsent, child, up>>

(* The message, or the end of the stream.                                  *)
recv_fd_then_close ==
  /\ parent = "recv_fd"
  /\ \/ down[line] # <<>> /\ Received(recv_fd(Head(down[line])))
     \/ down[line] = <<>> /\ held[line][1] = {} /\ Received(NoFd)
  /\ close_end

(* recv_fd fails before or with the message.                               *)
recv_fd_failed ==
  /\ parent = "recv_fd" /\ Received(NoFd)
  /\ close_end

waitpid_any ==
  /\ parent = "waitpid"
  /\ \E l \in Lines : child[l] = "zombie" /\ child' = [child EXCEPT ![l] = "reaped"]
  /\ parent' = "cat"
  /\ UNCHANGED <<line, wants, got, unsent, held, up, down, opened>>

waitpid ==
  /\ parent = "waitpid" /\ child[line] = "zombie"
  /\ child' = [child EXCEPT ![line] = "reaped"]
  /\ parent' = "cat"
  /\ UNCHANGED <<line, wants, got, unsent, held, up, down, opened>>

cat_file_forgets_close ==
  /\ parent = "cat"
  /\ parent' = "fgets"
  /\ UNCHANGED <<line, wants, got, unsent, child, held, up, down, opened>>

cat_file ==
  /\ parent = "cat"
  /\ opened' = {}
  /\ parent' = "fgets"
  /\ UNCHANGED <<line, wants, got, unsent, child, held, up, down>>

(* There is no other line, or err_sys: no pair, no process, no prompt.     *)
finish ==
  /\ parent = "fgets"
  /\ parent_exits("done")
  /\ UNCHANGED got

main == client_open \/ send_request \/ send_request_killed \/ recv_fd_then_close
        \/ waitpid \/ cat_file \/ finish
failed == send_request_failed \/ recv_fd_failed
-----------------------------------------------------------------------------
child_keeps_end(l) ==
  /\ child[l] = "close"
  /\ child' = [child EXCEPT ![l] = "loop"]
  /\ UNCHANGED <<line, wants, got, unsent, parent, held, up, down, opened>>

child_close(l) ==
  /\ child[l] = "close"
  /\ held' = [held EXCEPT ![l][0] = @ \ {l}]
  /\ child' = [child EXCEPT ![l] = "loop"]
  /\ UNCHANGED <<line, wants, got, unsent, parent, up, down, opened>>

(* The process is gone, with its ends and what nobody can read any more.   *)
child_exits(l) ==
  /\ child' = [child EXCEPT ![l] = "zombie"]
  /\ held' = Without(l)
  /\ up' = [up EXCEPT ![l] = <<>>]
  /\ UNCHANGED <<line, wants, got, unsent, parent, down, opened>>

(* The file is opened, sent and closed again.                              *)
process_request(l) ==
  /\ child[l] = "loop" /\ up[l] # <<>> /\ held[l][0] # {}
  /\ \E t \in target(Head(up[l])) : down' = [down EXCEPT ![l] = <<send_fd(t.fd, t.status)>>]
  /\ up' = [up EXCEPT ![l] = <<>>]
  /\ UNCHANGED <<line, wants, got, unsent, parent, child, held, opened>>

(* The parent has given up on the answer: SIGPIPE.                         *)
process_request_killed(l) ==
  /\ child[l] = "loop" /\ up[l] # <<>> /\ held[l][0] = {}
  /\ child_exits(l)

server_loop_end(l) ==
  /\ child[l] = "loop" /\ up[l] = <<>> /\ held[l][0] = {}
  /\ child_exits(l)

(* The child may be killed at any time, the parent's request unread; its   *)
(* read fails.                                                             *)
kill_child(l) ==
  /\ child[l] \in {"close", "loop"}
  /\ child_exits(l)

server(l) == child_close(l) \/ process_request(l) \/ process_request_killed(l)
             \/ server_loop_end(l)

Ended == parent \in {"done", "killed"} /\ \A l \in Lines : child[l] \notin {"close", "loop"}
Done == Ended /\ UNCHANGED vars

Next == main \/ failed \/ (\E l \in Lines : server(l) \/ kill_child(l)) \/ Done

(* Every process runs; no call has to fail.                                *)
Spec == Init /\ [][Next]_vars /\ WF_vars(main) /\ \A l \in Lines : WF_vars(server(l))
-----------------------------------------------------------------------------
(* The places of the parent and of its servers, and their ends of the      *)
(* socket pairs.                                                           *)
TypeOK ==
  /\ line \in 0..MaxLines
  /\ got \in [Lines -> Files \cup {"waiting", NoFd}]
  /\ unsent \subseteq Lines /\ opened \subseteq Files
  /\ parent \in {"fgets", "request", "recv_fd", "waitpid", "cat", "done", "killed"}
  /\ child \in [Lines -> {"none", "close", "loop", "zombie", "reaped"}]
  /\ held \in [Lines -> [Ends -> SUBSET Processes]]

(* Between two lines no file is open and no bytes are in a socket, and     *)
(* nothing is left of a line whose request was written, neither an end of  *)
(* its pair nor its process nor an end that its process inherited. Of one  *)
(* whose request was not written (17/3:40-42) the parent's end is left,    *)
(* and its server may hold what it held.                                   *)
NothingLeftOver ==
  parent = "fgets" =>
    /\ opened = {}
    /\ \A l \in Lines : up[l] = <<>> /\ down[l] = <<>>
    /\ \A l \in Lines \ unsent :
         /\ child[l] \in {"none", "reaped"}
         /\ \A e \in Ends : held[l][e] = {}
    /\ \A l \in unsent :
         /\ Parent \in held[l][0] /\ held[l][1] \subseteq {l}
         /\ held[l][0] \subseteq {Parent} \cup {k \in unsent : k >= l}

(* Each line gets the file it names, by its first word, or none.           *)
ImplementsOpen == R!ASpec

(* Neither process waits for the other forever, and every server ends:     *)
(* those of unsent lines when the parent is gone and those of later lines  *)
(* that have their end are.                                                *)
EveryLineAnswered == <>Ended
=============================================================================
