-------------------------- MODULE ProcessPrograms --------------------------
(***************************************************************************)
(* The programs of chapters 1, 8 and 15 that are made of processes and     *)
(* pipes:                                                                  *)
(*   shell         1/8      pr_exit_usage  8/3     zombie_prevention 8/5   *)
(*   exec_usage    8/8      system_usage   8/12    spawn_zombie      8/20  *)
(*   pipe_hello    15/1     pipe_more      15/2    popen_more        15/4  *)
(*   lower_case    15/6, 15/7              add_2             15/8, 15/9    *)
(*   epoll_close_events  15/13               io_uring_close_events  15/14  *)
(* A program is a function from its processes, and the programs they exec, *)
(* to the sequences of calls they make; a behaviour runs one of them.  A   *)
(* process is forked under the name of the calls it makes.                 *)
(*                                                                         *)
(* popen is a pipe, a fork of sh and an exec, and pclose a close and a     *)
(* waitpid.  What goes through pipes and to the terminal are lines: their  *)
(* kind and their number.                                                  *)
(***************************************************************************)
EXTENDS Integers, Sequences, FiniteSets, SequencesExt, Calls

CONSTANTS MaxLines,   \* lines of input
          PipeMax,    \* lines a pipe holds
          MaxFaults   \* forks that fail, processes killed, interrupts typed

VARIABLES program,
          input,    \* the kinds of the lines read: "ok", "bad", "nul" (no characters)
          next,     \* the number of the next line of it
          procs,    \* process -> calls, pc, status, exit code, parent, pipe ends, line
          pipes,    \* contents
          out,      \* what was printed
          faults    \* kinds of faults that have happened

vars == <<program, input, next, procs, pipes, out, faults>>

R(pipe) == <<pipe, "r">>
W(pipe) == <<pipe, "w">>
SIGINT == -2
SIGABRT == -6
SIGFPE == -8
SIGKILL == -9
SIGPIPE == -13

-----------------------------------------------------------------------------
shell ==
  [parent  |-> <<Jump("fgets", "none", 6), Jump("empty", "none", 1), Call("fork", "child"),
                 Call("waitpid", "child"), Loop(1), Call("exit", 0)>>,
   child   |-> <<Jump("exec", "command", 1)>>,
   command |-> <<Call("exit", 0)>>]

pr_exit_usage ==
  [parent |-> <<Call("fork", "c1"), Call("wait", "c1"), Do("pr_exit"),
                Call("fork", "c2"), Call("wait", "c2"), Do("pr_exit"),
                Call("fork", "c3"), Call("wait", "c3"), Do("pr_exit"), Call("exit", 0)>>,
   c1     |-> <<Call("exit", 7)>>,
   c2     |-> <<Call("exit", SIGABRT)>>,
   c3     |-> <<Do("divide"), Call("wait", "none")>>]

zombie_prevention ==
  [parent |-> <<Call("fork", "first"), Call("waitpid", "first"), Call("exit", 0)>>,
   first  |-> <<Call("fork", "second"), Call("exit", 0)>>,
   second |-> <<Do("sleep"), Do("getppid"), Call("exit", 0)>>]

exec_usage ==
  [parent  |-> <<Call("fork", "c1"), Call("waitpid", "c1"), Call("fork", "c2"), Call("exit", 0)>>,
   c1      |-> <<Jump("exec", "echoall", 1)>>,
   c2      |-> <<Jump("exec", "echoall", 1)>>,
   echoall |-> <<Call("exit", 0)>>]

system_any_child(sh) == <<Call("fork", sh), Call("wait", sh)>>

system(sh) == <<Call("fork", sh), Call("waitpid", sh)>>

(* The shell that system starts: _exit(127) when it cannot be executed.    *)
execl(cmd) == <<Jump("exec", cmd, 127)>>

system_usage ==
  [parent  |-> system("s1") \o <<Do("pr_exit")>> \o system("s2") \o <<Do("pr_exit")>>
               \o system("s3") \o <<Do("pr_exit"), Call("exit", 0)>>,
   s1 |-> execl("date"), s2 |-> execl("nosuchcommand"), s3 |-> execl("who_exit"),
   date |-> <<Call("exit", 0)>>, nosuchcommand |-> <<Call("exit", 127)>>,
   who_exit |-> <<Call("exit", 44)>>]

spawn_zombie ==
  [parent |-> <<Call("fork", "child"), Do("sleep")>> \o system("sh") \o <<Call("exit", 0)>>,
   child  |-> <<Call("exit", 0)>>,
   sh     |-> execl("ps"),
   ps     |-> <<Do("ps"), Call("exit", 0)>>]

pipe_hello ==
  [parent |-> <<Call("pipe", "p"), Call("fork", "child"), Call("close", R("p")),
                Do("hello"), Call("write", "p"), Call("exit", 0)>>,
   child  |-> <<Call("close", W("p")), Jump("read", "p", 4), Do("print"), Call("exit", 0)>>]

pager == <<Jump("fgetp", "p", 4), Do("print"), Loop(1), Call("exit", 0)>>

pipe_more ==
  [parent |-> <<Call("pipe", "p"), Call("fork", "child"), Call("close", R("p")),
                Jump("fgets", "none", 7), Call("write", "p"), Loop(4),
                Call("close", W("p")), Call("waitpid", "child"), Call("exit", 0)>>,
   child  |-> <<Call("close", W("p")), Jump("exec", "pager", 1)>>,
   pager  |-> pager]

popen_more ==
  [parent |-> <<Call("pipe", "p"), Call("fork", "sh"), Call("close", R("p")),
                Jump("fgets", "none", 7), Call("write", "p"), Loop(4),
                Call("close", W("p")), Call("waitpid", "sh"), Call("exit", 0)>>,
   sh     |-> <<Call("close", W("p")), Jump("exec", "pager", 127)>>,
   pager  |-> pager]

filter_lower_case == <<Jump("fgets", "none", 4), Call("write", "p"), Loop(1), Call("exit", 0)>>

lower_case ==
  [parent |-> <<Call("pipe", "p"), Call("fork", "sh"), Call("close", W("p")),
                Do("prompt"), Jump("fgetp", "p", 8), Do("print"), Loop(4),
                Call("close", R("p")), Call("waitpid", "sh"), Call("exit", 0)>>,
   sh     |-> <<Call("close", R("p")), Jump("exec", "filter_lower_case", 127)>>,
   filter_lower_case |-> filter_lower_case]

filter_add_2 == <<Jump("read", "p", 4), Call("answer", "q"), Loop(1), Call("exit", 0)>>

add_2_keeps_end ==
  [parent |-> <<Call("pipe", "p"), Call("pipe", "q"), Call("fork", "child"),
                Call("close", R("p")), Call("close", W("q")),
                Jump("fgets", "none", 11), Call("write", "p"), Jump("read", "q", 11),
                Do("print"), Loop(6), Call("exit", 0)>>,
   child  |-> <<Call("close", R("q")), Jump("exec", "filter_add_2", 1)>>,
   filter_add_2 |-> filter_add_2]

add_2_pipelined ==
  [parent |-> <<Call("pipe", "p"), Call("pipe", "q"), Call("fork", "child"),
                Call("close", R("p")), Call("close", W("q")),
                Jump("fgets", "none", 9), Call("write", "p"), Loop(6),
                Jump("read", "q", 11), Do("print"), Call("exit", 0)>>,
   child  |-> <<Call("close", W("p")), Call("close", R("q")), Jump("exec", "filter_add_2", 1)>>,
   filter_add_2 |-> filter_add_2]

add_2 ==
  [parent |-> <<Call("pipe", "p"), Call("pipe", "q"), Call("fork", "child"),
                Call("close", R("p")), Call("close", W("q")),
                Jump("fgets", "none", 11), Call("write", "p"), Jump("read", "q", 11),
                Do("print"), Loop(6), Call("exit", 0)>>,
   child  |-> <<Call("close", W("p")), Call("close", R("q")), Jump("exec", "filter_add_2", 1)>>,
   filter_add_2 |-> filter_add_2]

epoll_close_events ==
  [parent |-> <<Call("pipe", "p"), Jump("fork", "writer", 3), Call("close", W("p")),
                Call("poll", R("p")), Call("close", R("p")),
                Call("pipe", "q"), Jump("fork", "reader", 8), Call("close", R("q")),
                Do("sleep"), Call("poll", W("q")), Call("close", W("q")), Call("exit", 0)>>,
   writer |-> <<Call("close", R("p")), Do("sleep"), Call("close", W("p")), Call("exit", 0)>>,
   reader |-> <<Call("close", W("q")), Do("sleep"), Call("close", R("q")), Call("exit", 0)>>]

(* The same calls, with poll requests to a ring in place of epoll.         *)
io_uring_close_events == epoll_close_events

Programs ==
  [shell |-> shell, pr_exit_usage |-> pr_exit_usage, zombie_prevention |-> zombie_prevention,
   exec_usage |-> exec_usage, system_usage |-> system_usage, spawn_zombie |-> spawn_zombie,
   pipe_hello |-> pipe_hello, pipe_more |-> pipe_more, popen_more |-> popen_more,
   lower_case |-> lower_case, add_2 |-> add_2, epoll_close_events |-> epoll_close_events,
   io_uring_close_events |-> io_uring_close_events]

Readers == {"shell", "pipe_more", "popen_more", "lower_case", "add_2"}
Waiters == {"shell", "pr_exit_usage", "zombie_prevention", "system_usage", "spawn_zombie",
            "pipe_more", "popen_more", "lower_case"}
-----------------------------------------------------------------------------
Ids == DOMAIN Programs[program]
AllIds == UNION {DOMAIN Programs[name] : name \in DOMAIN Programs}
Unborn(fn) == [fn |-> fn, pc |-> 1, status |-> "unborn", code |-> 0, ppid |-> "init",
               fds |-> {}, line |-> <<>>, res |-> 0]

Init ==
  /\ program \in DOMAIN Programs
  /\ \E k \in 0..MaxLines : input \in [1..k -> {"ok", "bad", "nul"}]
  /\ program \notin Readers => input = <<>>
  /\ program = "add_2" \/ \A k \in DOMAIN input :
       input[k] = "ok" \/ (program = "shell" /\ input[k] = "nul")
  /\ next = 1
  /\ procs = [p \in Ids |-> [Unborn(p) EXCEPT !.status = IF p = "parent" THEN "running" ELSE @]]
  /\ pipes = [p |-> <<>>, q |-> <<>>]
  /\ out = <<>> /\ faults = <<>>

-----------------------------------------------------------------------------
(* Helpers: the current call of p, and p moved on after it.                *)
Op(p) == Programs[program][procs[p].fn][procs[p].pc]
Runs(p, op) == procs[p].status = "running" /\ Op(p).op = op
At(p, pc) == [procs EXCEPT ![p].pc = pc]
Advance(p) == At(p, procs[p].pc + 1)
Rest == UNCHANGED <<program, input>>
Fault(kind) == Len(faults) < MaxFaults /\ faults' = Append(faults, kind)

Open(end) == \E p \in Ids : procs[p].status = "running" /\ end \in procs[p].fds

(* p exits: its pipe ends are closed, init adopts its children, and reaps  *)
(* those that are zombies and p itself if it is one of its children.       *)
Exited(P, p, c) ==
  [q \in Ids |->
     IF q = p THEN [P[q] EXCEPT !.code = c, !.fds = {},
                                !.status = IF P[q].ppid = "init" THEN "reaped" ELSE "zombie"]
     ELSE IF P[q].ppid = p
          THEN [P[q] EXCEPT !.ppid = "init", !.status = IF @ = "zombie" THEN "reaped" ELSE @]
          ELSE P[q]]

exit(p) ==
  /\ Runs(p, "exit")
  /\ procs' = Exited(procs, p, Op(p).arg)
  /\ Rest /\ UNCHANGED <<next, pipes, out, faults>>

(* 8/3: a division by zero is undefined; on most machines it is a SIGFPE.  *)
divide(p) ==
  /\ Runs(p, "divide")
  /\ procs' = Exited(procs, p, SIGFPE) \/ procs' = Advance(p)
  /\ Rest /\ UNCHANGED <<next, pipes, out, faults>>

(* A fork that fails ends the program, but for 15/13 and 15/14.            *)
fork(p) ==
  /\ Runs(p, "fork")
  /\ LET c == Op(p).arg
     IN \/ /\ procs' = [Advance(p) EXCEPT ![c] = [Unborn(c) EXCEPT !.status = "running", !.ppid = p,
                                                                   !.fds = procs[p].fds]]
           /\ UNCHANGED faults
        \/ /\ Fault("fork")
           /\ procs' = IF Op(p).to = 0 THEN Exited(procs, p, 1) ELSE At(p, Op(p).to)
  /\ Rest /\ UNCHANGED <<next, pipes, out>>

exec(p) ==
  /\ Runs(p, "exec")
  /\ \/ procs' = [procs EXCEPT ![p].fn = Op(p).arg, ![p].pc = 1] /\ UNCHANGED faults
     \/ procs' = Exited(procs, p, Op(p).to) /\ Fault("exec")
  /\ Rest /\ UNCHANGED <<next, pipes, out>>

(* waitpid waits for one child, wait for any, and the program gives up if  *)
(* that is not the one it has just forked, or if it has none.              *)
Children(p) == {c \in Ids : procs[c].ppid = p /\ procs[c].status \in {"running", "zombie"}}

waits(p) ==
  /\ Runs(p, "wait") \/ Runs(p, "waitpid")
  /\ LET c == Op(p).arg
         awaited == IF Op(p).op = "wait" THEN Children(p) ELSE Children(p) \cap {c}
     IN \/ awaited = {} /\ procs' = Exited(procs, p, 1)
        \/ \E z \in awaited :
             /\ procs[z].status = "zombie"
             /\ LET reaped == [Advance(p) EXCEPT ![z].status = "reaped", ![p].res = procs[z].code]
                IN procs' = IF z = c THEN reaped ELSE Exited(reaped, p, 1)
  /\ Rest /\ UNCHANGED <<next, pipes, out, faults>>

sleep(p) ==
  /\ Runs(p, "sleep") \/ Runs(p, "hello")
  /\ procs' = [Advance(p) EXCEPT ![p].line = IF Op(p).op = "hello" THEN <<<<"line", 0>>>> ELSE @]
  /\ Rest /\ UNCHANGED <<next, pipes, out, faults>>

goto(p) ==
  /\ \/ Runs(p, "goto") /\ procs' = At(p, Op(p).to)
     \/ /\ Runs(p, "empty")
        /\ procs' = IF procs[p].line[1][1] = "nul" THEN At(p, Op(p).to) ELSE Advance(p)
  /\ Rest /\ UNCHANGED <<next, pipes, out, faults>>

(* What a process prints: a line, a prompt, the status of a child, its     *)
(* parent, or (ps) the state of the child nobody waits for.                *)
Shown(p) ==
  CASE Op(p).op = "print" -> procs[p].line
    [] Op(p).op = "prompt" -> <<<<"prompt", 0>>>>
    [] Op(p).op = "pr_exit" -> <<<<"exit", procs[p].res>>>>
    [] Op(p).op = "getppid" -> <<<<procs[p].ppid, 0>>>>
    [] Op(p).op = "ps" -> <<<<procs["child"].status, 0>>>>

prints(p) ==
  /\ \E op \in {"print", "prompt", "pr_exit", "getppid", "ps"} : Runs(p, op)
  /\ out' = out \o Shown(p)
  /\ procs' = Advance(p)
  /\ Rest /\ UNCHANGED <<next, pipes, faults>>

-----------------------------------------------------------------------------
(* A line of the file or the terminal; the loop ends with the input.       *)
fgets(p) ==
  /\ Runs(p, "fgets")
  /\ \/ /\ next <= Len(input)
        /\ procs' = [Advance(p) EXCEPT ![p].line = <<<<input[next], next>>>>]
        /\ next' = next + 1
     \/ /\ next > Len(input)
        /\ procs' = At(p, Op(p).to)
        /\ UNCHANGED next
  /\ Rest /\ UNCHANGED <<pipes, out, faults>>

pipe_close(p) ==
  /\ \/ Runs(p, "pipe") /\ procs' = [Advance(p) EXCEPT ![p].fds = @ \cup {R(Op(p).arg), W(Op(p).arg)}]
     \/ Runs(p, "close") /\ procs' = [Advance(p) EXCEPT ![p].fds = @ \ {Op(p).arg}]
  /\ Rest /\ UNCHANGED <<next, pipes, out, faults>>

(* writen: nothing of a line that begins with a NUL, whose strlen is 0; a  *)
(* pipe nobody reads is a SIGPIPE, on which 15/9 exits with 1.  The filter *)
(* answers the first line it has read.                                     *)
Written(p) ==
  IF Op(p).op = "answer"
  THEN <<<<IF procs[p].line[1][1] = "ok" THEN "sum" ELSE "invalid", procs[p].line[1][2]>>>>
  ELSE SelectSeq(procs[p].line, LAMBDA l : l[1] # "nul")

write(p) ==
  /\ Runs(p, "write") \/ Runs(p, "answer")
  /\ LET pipe == Op(p).arg
         broken == Written(p) # <<>> /\ ~Open(R(pipe))
     IN \/ broken /\ procs' = Exited(procs, p, IF program = "add_2" /\ p = "parent" THEN 1 ELSE SIGPIPE)
                  /\ UNCHANGED pipes
        \/ /\ ~broken /\ Len(pipes[pipe]) + Len(Written(p)) <= PipeMax
           /\ pipes' = [pipes EXCEPT ![pipe] = @ \o Written(p)]
           /\ procs' = Advance(p)
  /\ Rest /\ UNCHANGED <<next, out, faults>>

(* read takes what the pipe holds, fgets on a stream one line; both wait   *)
(* while it is empty and somebody may write, and then see the end.         *)
read(p) ==
  /\ Runs(p, "read") \/ Runs(p, "fgetp")
  /\ LET pipe == Op(p).arg
         n == IF Op(p).op = "read" THEN Len(pipes[pipe]) ELSE 1
     IN \/ /\ pipes[pipe] # <<>>
           /\ procs' = [Advance(p) EXCEPT ![p].line = SubSeq(pipes[pipe], 1, n)]
           /\ pipes' = [pipes EXCEPT ![pipe] = SubSeq(@, n + 1, Len(@))]
        \/ /\ pipes[pipe] = <<>> /\ ~Open(W(pipe))
           /\ procs' = At(p, Op(p).to)
           /\ UNCHANGED pipes
  /\ Rest /\ UNCHANGED <<next, out, faults>>

(* epoll_wait, and io_uring_submit_and_wait for a poll request: a reader   *)
(* waits for EPOLLHUP, a writer gets EPOLLOUT, with EPOLLERR if nobody     *)
(* reads.                                                                  *)
poll(p) ==
  /\ Runs(p, "poll")
  /\ LET end == Op(p).arg
     IN \/ end[2] = "r" /\ ~Open(W(end[1])) /\ out' = Append(out, <<"HUP", 0>>)
        \/ end[2] = "w" /\ out' = Append(out, <<IF Open(R(end[1])) THEN "OUT" ELSE "ERR", 0>>)
  /\ procs' = Advance(p)
  /\ Rest /\ UNCHANGED <<next, pipes, faults>>

-----------------------------------------------------------------------------
(* The user leaves the pager or kills the filter; the user types the       *)
(* interrupt character, which the shell and a child before its exec catch. *)
Killed ==
  \E p \in Ids :
    /\ procs[p].status = "running"
    /\ \/ procs[p].fn \in {"pager", "filter_add_2", "filter_lower_case"} /\ Fault("kill")
          /\ procs' = Exited(procs, p, SIGKILL)
       \/ program = "shell" /\ procs[p].fn = "command" /\ Fault("int")
          /\ procs' = Exited(procs, p, SIGINT)
    /\ Rest /\ UNCHANGED <<next, pipes, out>>

Step(p) == \/ exit(p) \/ divide(p) \/ fork(p) \/ exec(p) \/ waits(p) \/ sleep(p) \/ goto(p)
           \/ prints(p) \/ fgets(p) \/ pipe_close(p) \/ write(p) \/ read(p) \/ poll(p)

Next == (\E p \in Ids : Step(p)) \/ Killed

(* Every process that can run runs.                                        *)
Spec == Init /\ [][Next]_vars /\ \A p \in AllIds : WF_vars(p \in Ids /\ Step(p))

-----------------------------------------------------------------------------
Lines(s) == SelectSeq(s, LAMBDA l : l[1] # "prompt")
Answer(k) == <<IF input[k] = "ok" THEN "sum" ELSE "invalid", k>>
Finished == procs["parent"].status = "reaped" /\ procs["parent"].code = 0 /\ faults = <<>>

(* What goes through the pipes arrives once, in order and whole, and all   *)
(* of it by the time the parent exits with 0.  Each line for the filter of *)
(* 15/9 gets its own answer, and because the two go in step a read of the  *)
(* filter never returns two lines, so that line[n] = 0 stays in the buffer.*)
(* 15/7 prompts once before every line.                                    *)
PipesKeepData ==
  /\ program = "add_2" =>
       /\ \A k \in DOMAIN out : out[k] = Answer(k)
       /\ \A p \in Ids : Len(procs[p].line) <= 1
       /\ Finished => Len(out) = Len(input)
  /\ program \in {"pipe_more", "popen_more", "lower_case"} =>
       /\ \A k \in DOMAIN Lines(out) : Lines(out)[k] = <<"ok", k>>
       /\ program = "lower_case" =>
            \A k \in DOMAIN out : out[k][1] = "prompt" <=> k % 2 = 1
       /\ Finished => Len(Lines(out)) = Len(input)

Statuses ==
  [pr_exit_usage |-> <<{7}, {SIGABRT}, {SIGFPE, 1}>>,
   system_usage  |-> <<{0, 127}, {127}, {44, 127}>>]

(* Every wait gets the child it is meant for and its status, also when     *)
(* another child is a zombie (8/20), no child is forked while the one      *)
(* before it is there, and a program that waits for its children leaves    *)
(* none behind; the grandchild of 8/5 never becomes a child of the parent. *)
ChildrenReaped ==
  /\ \A p \in Ids :
       Runs(p, "fork") => procs[Op(p).arg].status \in {"unborn", "reaped"}
  /\ Runs("parent", "exit") /\ program \in Waiters =>
       Children("parent") \subseteq (IF program = "spawn_zombie" THEN {"child"} ELSE {})
  /\ program \in DOMAIN Statuses =>
       \A k \in DOMAIN out : out[k][2] \in Statuses[program][k]
  /\ program = "spawn_zombie" /\ procs["parent"].status = "running" =>
       procs["child"].status # "reaped"
  /\ procs["parent"].status = "reaped" /\ faults = <<>> => procs["parent"].code = 0
  /\ program = "zombie_prevention" => procs["second"].ppid # "parent"

(* Every process ends and is reaped: whoever reads sees the end of the     *)
(* pipe, whoever writes finds a reader or is told that there is none, and  *)
(* every wait returns.  Only a line that begins with a NUL leaves 15/9     *)
(* waiting for an answer to what it has not written.                       *)
ProcessesEnd ==
  program # "add_2" \/ (\A k \in DOMAIN input : input[k] # "nul") =>
    <>[](\A p \in Ids : procs[p].status \in {"unborn", "reaped"})
=============================================================================
