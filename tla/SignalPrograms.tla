--------------------------- MODULE SignalPrograms ---------------------------
(***************************************************************************)
(* The programs of chapter 10 in which one process meets signals:          *)
(*   handle_sigusr     10/1      handle_sigcld    10/3                     *)
(*   sleep1            10/4      sleep2           10/5                     *)
(*   read_timeout      10/7      print_sigpending 10/11                    *)
(*   sigsetjmp_usage   10/14     sigsuspend_usage 10/15                    *)
(*   sigsuspend_flag   10/16     handle_sigtstp   10/22                    *)
(* A program is a function from its functions to the sequences of calls    *)
(* they make; a behaviour runs one of them.  The process has a stack of    *)
(* frames, and a handler is a frame on top of the code it interrupts.      *)
(*                                                                         *)
(* signal() is glibc's and apue_signal() the library's: both keep the      *)
(* handler installed, block the signal while it runs, and restart read.    *)
(* A signal that can be delivered is delivered before the next call; one   *)
(* that arrives a little later is one that is raised later.                *)
(***************************************************************************)
EXTENDS Integers, Sequences, FiniteSets, SequencesExt, Calls

CONSTANTS MaxRaised,  \* signals other processes send
          MaxTyped    \* chunks typed on the terminal

VARIABLES program,
          proc,     \* the process, see Init
          term,     \* the terminal: number of chunks typed, those not yet read, those shown
          kid,      \* the child of 10/3: "none", "running", "zombie"
          raised    \* number of signals other processes have sent

vars == <<program, proc, term, kid, raised>>

Signal(s, fn) == Call("signal", <<s, fn>>)

-----------------------------------------------------------------------------
handle_sigusr ==
  [main    |-> <<Signal("SIGUSR1", "sig_usr"), Signal("SIGUSR2", "sig_usr"),
                 Do("pause"), Loop(3)>>,
   sig_usr |-> <<Do("return")>>]

handle_sigcld ==
  [main    |-> <<Signal("SIGCLD", "sig_cld"), Do("fork"), Do("pause"), Call("exit", 0)>>,
   sig_cld |-> <<Signal("SIGCLD", "sig_cld"), Do("wait"), Do("return")>>]

sleep1 ==
  [main     |-> <<Call("call", "sleep1"), Call("exit", 0)>>,
   sleep1   |-> <<Signal("SIGALRM", "sig_alrm"), Call("alarm", TRUE), Do("pause"),
                  Call("alarm", FALSE), Do("return")>>,
   sig_alrm |-> <<Do("return")>>]

sleep2_alarm_first ==
  [main     |-> <<Signal("SIGINT", "sig_int"), Call("call", "sleep2"), Call("exit", 0)>>,
   sig_int  |-> <<Do("spin"), Do("return")>>,
   sig_alrm |-> <<Do("longjmp")>>,
   sleep2   |-> <<Signal("SIGALRM", "sig_alrm"), Call("alarm", TRUE),
                  Jump("setjmp", FALSE, 5), Do("pause"),
                  Call("alarm", FALSE), Do("return")>>]

sleep2 ==
  [main     |-> <<Signal("SIGINT", "sig_int"), Call("call", "sleep2"), Call("exit", 0)>>,
   sig_int  |-> <<Do("spin"), Do("return")>>,
   sig_alrm |-> <<Do("longjmp")>>,
   sleep2   |-> <<Signal("SIGALRM", "sig_alrm"), Jump("setjmp", FALSE, 5),
                  Call("alarm", TRUE), Do("pause"),
                  Call("alarm", FALSE), Do("return")>>]

read_timeout ==
  [main     |-> <<Signal("SIGALRM", "sig_alrm"), Jump("setjmp", FALSE, 8),
                  Call("alarm", TRUE), Jump("read", "none", 5), Call("alarm", FALSE),
                  Do("writen"), Call("exit", 0), Call("exit", 1)>>,
   sig_alrm |-> <<Do("longjmp")>>]

print_sigpending ==
  [main     |-> <<Signal("SIGQUIT", "sig_quit"), Call("block", {"SIGQUIT"}), Do("sleep"),
                  Do("setmask"), Do("sleep"), Call("exit", 0)>>,
   sig_quit |-> <<Signal("SIGQUIT", "SIG_DFL"), Do("return")>>]

sigsetjmp_usage ==
  [main     |-> <<Signal("SIGUSR1", "sig_usr1"), Signal("SIGALRM", "sig_alrm"),
                  Jump("setjmp", TRUE, 7), Call("flag", 1), Do("pause"), Loop(5),
                  Call("exit", 0)>>,
   sig_usr1 |-> <<Jump("if", 1, 6), Call("alarm", TRUE), Do("spin"), Call("flag", 0),
                  Do("longjmp"), Do("return")>>,
   sig_alrm |-> <<Do("return")>>]

sigsuspend_usage ==
  [main    |-> <<Signal("SIGINT", "sig_int"), Call("block", {"SIGINT"}),
                 Call("sigsuspend", {"SIGUSR1"}), Do("setmask"), Call("exit", 0)>>,
   sig_int |-> <<Do("return")>>]

sigsuspend_flag_unblocked ==
  [main    |-> <<Signal("SIGINT", "sig_int"), Signal("SIGQUIT", "sig_int"),
                 Jump("if", 0, 6), Call("sigsuspend", {}), Loop(3),
                 Call("flag", 0), Do("setmask"), Call("exit", 0)>>,
   sig_int |-> <<Do("quitflag"), Do("return")>>]

sigsuspend_flag ==
  [main    |-> <<Signal("SIGINT", "sig_int"), Signal("SIGQUIT", "sig_int"),
                 Call("block", {"SIGQUIT"}), Jump("if", 0, 7), Call("sigsuspend", {}),
                 Loop(4), Call("flag", 0), Do("setmask"), Call("exit", 0)>>,
   sig_int |-> <<Do("quitflag"), Do("return")>>]

handle_sigtstp_no_reset ==
  [main     |-> <<Jump("ignore", "SIGTSTP", 3), Signal("SIGTSTP", "sig_tstp"),
                  Jump("read", "none", 6), Do("writen"), Loop(3), Call("exit", 0)>>,
   sig_tstp |-> <<Call("unblock", {"SIGTSTP"}), Signal("SIGTSTP", "SIG_DFL"),
                  Call("kill", "SIGTSTP"), Do("return")>>]

handle_sigtstp ==
  [main     |-> <<Jump("ignore", "SIGTSTP", 3), Signal("SIGTSTP", "sig_tstp"),
                  Jump("read", "none", 6), Do("writen"), Loop(3), Call("exit", 0)>>,
   sig_tstp |-> <<Call("unblock", {"SIGTSTP"}), Signal("SIGTSTP", "SIG_DFL"),
                  Call("kill", "SIGTSTP"), Signal("SIGTSTP", "sig_tstp"), Do("return")>>]

Programs ==
  [handle_sigusr |-> handle_sigusr, handle_sigcld |-> handle_sigcld, sleep1 |-> sleep1,
   sleep2 |-> sleep2, read_timeout |-> read_timeout, print_sigpending |-> print_sigpending,
   sigsetjmp_usage |-> sigsetjmp_usage, sigsuspend_usage |-> sigsuspend_usage,
   sigsuspend_flag |-> sigsuspend_flag, handle_sigtstp |-> handle_sigtstp]

(* The signals a user or another program sends it.                         *)
Sent ==
  [handle_sigusr |-> {"SIGUSR1", "SIGUSR2"}, handle_sigcld |-> {}, sleep1 |-> {},
   sleep2 |-> {"SIGINT"}, read_timeout |-> {}, print_sigpending |-> {"SIGQUIT"},
   sigsetjmp_usage |-> {"SIGUSR1"}, sigsuspend_usage |-> {"SIGINT", "SIGUSR1"},
   sigsuspend_flag |-> {"SIGINT", "SIGQUIT"}, handle_sigtstp |-> {"SIGTSTP"}]

Signals == {"SIGUSR1", "SIGUSR2", "SIGCLD", "SIGALRM", "SIGINT", "SIGQUIT", "SIGTSTP"}
-----------------------------------------------------------------------------
Frame(fn, s, m) == [fn |-> fn, pc |-> 1, asleep |-> FALSE, sig |-> s, saved |-> m]
Depth == Len(proc.stack)
Top == proc.stack[Depth]
Op == Programs[program][Top.fn][Top.pc]

(* main begins; a shell may have SIGTSTP ignored in the program it starts. *)
Init ==
  /\ program \in DOMAIN Programs
  /\ \E tstp \in {"SIG_DFL", "SIG_IGN"} :
       /\ tstp = "SIG_IGN" => program = "handle_sigtstp"
       /\ proc = [stack |-> <<Frame("main", "none", {})>>,
                  mask |-> {}, pending |-> {}, oldmask |-> {},
                  disp |-> [s \in Signals |-> IF s = "SIGTSTP" THEN tstp ELSE "SIG_DFL"],
                  alarm |-> FALSE,    \* an alarm is to come
                  env |-> [depth |-> 0, pc |-> 0, fn |-> "none", saves |-> FALSE, mask |-> {}],
                  flag |-> 0,         \* canjump, quitflag
                  n |-> 0,            \* the chunk in the buffer
                  status |-> "running",
                  asked |-> {},       \* the mask main has asked for
                  stuck |-> {},       \* signals whose handlers longjmp has left
                  mishaps |-> {}]     \* "early": a signal found no call to wake up
  /\ term = [typed |-> 0, eof |-> FALSE, unread |-> <<>>, out |-> <<>>]
  /\ kid = "none" /\ raised = 0

-----------------------------------------------------------------------------
(* The calls.                                                              *)
Deliverable == proc.pending \ proc.mask
Runs(op) == proc.status = "running" /\ Deliverable = {} /\ ~Top.asleep /\ Op.op = op
Asleep(op) == proc.status = "running" /\ Deliverable = {} /\ Top.asleep /\ Op.op = op

At(pc) == [proc EXCEPT !.stack[Depth].pc = pc, !.stack[Depth].asleep = FALSE]
Advance == At(Top.pc + 1)
Outside == UNCHANGED <<program, term, kid, raised>>

signal ==
  /\ \/ /\ Runs("signal")
        /\ proc' = [Advance EXCEPT !.disp[Op.arg[1]] = Op.arg[2]]
     \/ /\ Runs("ignore")
        /\ proc' = [At(IF proc.disp[Op.arg] = "SIG_DFL" THEN Top.pc + 1 ELSE Op.to)
                      EXCEPT !.disp[Op.arg] = "SIG_IGN", !.pending = @ \ {Op.arg}]
  /\ Outside

sigprocmask ==
  /\ \/ /\ Runs("block")
        /\ proc' = [Advance EXCEPT !.mask = @ \cup Op.arg, !.oldmask = proc.mask,
                                   !.asked = Op.arg]
     \/ /\ Runs("unblock")
        /\ proc' = [Advance EXCEPT !.mask = @ \ Op.arg]
     \/ /\ Runs("setmask")
        /\ proc' = [Advance EXCEPT !.mask = proc.oldmask, !.asked = {}]
  /\ Outside

(* pause, sleep and read sleep with the mask there is; sigsuspend installs *)
(* its own and sleeps in one step.                                         *)
Sleep ==
  /\ \/ /\ Runs("pause") \/ Runs("sleep") \/ Runs("read")
        /\ proc' = [proc EXCEPT !.stack[Depth].asleep = TRUE,
                                !.stack[Depth].saved = proc.mask]
     \/ /\ Runs("sigsuspend")
        /\ proc' = [proc EXCEPT !.stack[Depth].asleep = TRUE,
                                !.stack[Depth].saved = proc.mask, !.mask = Op.arg]
  /\ Outside

sleep_over == Asleep("sleep") /\ proc' = Advance /\ Outside

(* read returns a chunk, or 0 at the end of the file: main leaves its loop.*)
read ==
  /\ Asleep("read")
  /\ term.unread # <<>>
  /\ LET chunk == Head(term.unread)
     IN proc' = [At(IF chunk = 0 THEN Op.to ELSE Top.pc + 1) EXCEPT !.n = chunk]
  /\ term' = [term EXCEPT !.unread = Tail(@)]
  /\ UNCHANGED <<program, kid, raised>>

(* writen writes the chunk, or fails and main leaves with exit(1).         *)
writen ==
  /\ Runs("writen")
  /\ \/ proc' = Advance /\ term' = [term EXCEPT !.out = IF proc.n = 0 THEN @ ELSE Append(@, proc.n)]
     \/ /\ proc.n # 0
        /\ proc' = [proc EXCEPT !.status = "exited", !.mishaps = @ \cup {"writen"}]
        /\ UNCHANGED term
  /\ UNCHANGED <<program, kid, raised>>

set_alarm == Runs("alarm") /\ proc' = [Advance EXCEPT !.alarm = Op.arg] /\ Outside

(* setjmp and sigsetjmp; their second return goes to Op.to.                *)
setjmp ==
  /\ Runs("setjmp")
  /\ proc' = [Advance EXCEPT !.env = [depth |-> Depth, pc |-> Op.to, fn |-> Top.fn,
                                      saves |-> Op.arg, mask |-> proc.mask]]
  /\ Outside

(* longjmp cuts the stack; the handlers it leaves keep their signals       *)
(* blocked, unless sigsetjmp has saved the mask.                           *)
Cut(env) == [SubSeq(proc.stack, 1, env.depth) EXCEPT ![env.depth].pc = env.pc,
                                                     ![env.depth].asleep = FALSE]

longjmp_keeps_mask ==
  Runs("longjmp") /\ proc' = [proc EXCEPT !.stack = Cut(proc.env)] /\ Outside

longjmp ==
  /\ Runs("longjmp")
  /\ LET left == {proc.stack[i].sig : i \in (proc.env.depth + 1)..Depth} \ {"none"}
     IN proc' = IF proc.env.saves
                THEN [proc EXCEPT !.stack = Cut(proc.env), !.mask = proc.env.mask]
                ELSE [proc EXCEPT !.stack = Cut(proc.env), !.stuck = @ \cup left]
  /\ Outside

(* A call of a function, its return, and the return of a handler, which    *)
(* restores the mask.                                                      *)
call_return ==
  /\ \/ /\ Runs("call")
        /\ proc' = [Advance EXCEPT !.stack = Append(@, Frame(Op.arg, "none", {}))]
     \/ /\ Runs("return")
        /\ proc' = [proc EXCEPT !.stack = Front(@),
                                !.mask = IF Top.sig = "none" THEN @ ELSE Top.saved]
  /\ Outside

(* Loops and conditions; spin is the busy loop of a handler, which lasts   *)
(* longer than an alarm set before it.                                     *)
flow ==
  /\ \/ Runs("goto") /\ proc' = At(Op.to)
     \/ Runs("if") /\ proc' = At(IF proc.flag = Op.arg THEN Top.pc + 1 ELSE Op.to)
     \/ Runs("flag") /\ proc' = [Advance EXCEPT !.flag = Op.arg]
     \/ Runs("quitflag") /\ proc' = [Advance EXCEPT !.flag = IF Top.sig = "SIGQUIT" THEN 1 ELSE @]
     \/ Runs("spin") /\ ~proc.alarm /\ proc' = Advance
  /\ Outside

(* 10/3: a fork that fails is reported, and main goes on to pause.         *)
fork ==
  /\ Runs("fork")
  /\ \/ kid' = "running" /\ proc' = Advance
     \/ proc' = [Advance EXCEPT !.mishaps = @ \cup {"fork"}] /\ UNCHANGED kid
  /\ UNCHANGED <<program, term, raised>>

wait ==
  /\ Runs("wait") /\ kid # "running"
  /\ kid' = "none" /\ proc' = Advance
  /\ UNCHANGED <<program, term, raised>>

kill == Runs("kill") /\ proc' = [Advance EXCEPT !.pending = @ \cup {Op.arg}] /\ Outside

exit == Runs("exit") /\ proc' = [proc EXCEPT !.status = "exited"] /\ Outside

-----------------------------------------------------------------------------
(* A signal reaches the process: its handler becomes the top of the stack. *)
(* It interrupts pause, sleep and sigsuspend, which restores the mask it   *)
(* found; read is restarted.                                               *)
Interrupted ==
  IF Top.asleep /\ Op.op # "read" THEN Advance.stack ELSE At(Top.pc).stack

Deliver(s) ==
  /\ proc.status = "running" /\ s \in Deliverable
  /\ LET gone == [proc EXCEPT !.pending = @ \ {s}]
     IN proc' = CASE proc.disp[s] = "SIG_IGN" \/ (proc.disp[s] = "SIG_DFL" /\ s = "SIGCLD") -> gone
                  [] proc.disp[s] = "SIG_DFL" /\ s = "SIGTSTP" -> [gone EXCEPT !.status = "stopped"]
                  [] proc.disp[s] = "SIG_DFL" -> [gone EXCEPT !.status = "killed"]
                  [] OTHER ->
                       [gone EXCEPT
                          !.stack = Append(Interrupted, Frame(proc.disp[s], s,
                                      IF Top.asleep THEN Top.saved ELSE proc.mask)),
                          !.mask = @ \cup {s},
                          !.mishaps = IF s \in {"SIGALRM", "SIGCLD"} /\ ~Top.asleep
                                      THEN @ \cup {"early"} ELSE @]
  /\ Outside

(* The clock, the child, the user at the terminal and at the keyboard.     *)
Strike ==
  /\ proc.alarm /\ proc.status = "running"
  /\ proc' = [proc EXCEPT !.alarm = FALSE, !.pending = @ \cup {"SIGALRM"}]
  /\ Outside

ChildExits ==
  /\ kid = "running"
  /\ kid' = "zombie"
  /\ proc' = [proc EXCEPT !.pending = @ \cup {"SIGCLD"}]
  /\ UNCHANGED <<program, term, raised>>

Raise(s) ==
  /\ proc.status \in {"running", "stopped"}
  /\ s \in Sent[program] /\ raised < MaxRaised
  /\ raised' = raised + 1
  /\ proc' = IF proc.status = "stopped" \/ proc.disp[s] = "SIG_IGN" THEN proc
             ELSE [proc EXCEPT !.pending = @ \cup {s}]
  /\ UNCHANGED <<program, term, kid>>

Continue ==
  /\ proc.status = "stopped"
  /\ proc' = [proc EXCEPT !.status = "running"]
  /\ Outside

Type ==
  /\ program \in {"read_timeout", "handle_sigtstp"} /\ ~term.eof
  /\ \/ /\ term.typed < MaxTyped
        /\ term' = [term EXCEPT !.typed = @ + 1, !.unread = Append(@, term.typed + 1)]
     \/ term' = [term EXCEPT !.eof = TRUE, !.unread = Append(@, 0)]
  /\ UNCHANGED <<program, proc, kid, raised>>

Step == \/ signal \/ sigprocmask \/ Sleep \/ sleep_over \/ read \/ writen \/ set_alarm \/ setjmp
        \/ longjmp \/ call_return \/ flow \/ fork \/ wait \/ kill \/ exit
        \/ \E s \in Signals : Deliver(s)

Next == Step \/ Strike \/ ChildExits \/ Continue \/ Type \/ \E s \in Signals : Raise(s)

(* The process runs, the clock strikes and the child exits; nobody has to  *)
(* type, to send a signal or to continue a stopped process.                *)
Spec == Init /\ [][Next]_vars /\ WF_vars(Step) /\ WF_vars(Strike) /\ WF_vars(ChildExits)

-----------------------------------------------------------------------------
(* longjmp jumps only into a function that has called setjmp and has not   *)
(* returned: sleep2 cancels its alarm before it returns, 10/7 sets its     *)
(* alarm after setjmp, and 10/14 jumps only once canjump says it may.      *)
JumpTargetLive ==
  proc.status = "running" /\ Op.op = "longjmp" =>
    /\ proc.env.depth \in 1..(Depth - 1)
    /\ proc.stack[proc.env.depth].fn = proc.env.fn

(* Whenever main runs, however handlers were nested, interrupted or left,  *)
(* the mask is the one main has asked for; only the signals of handlers    *)
(* left by longjmp (10/5, 10/7) stay blocked in addition.                  *)
MainMask ==
  Depth = 1 /\ ~Top.asleep => proc.mask = proc.asked \cup proc.stuck

(* What a handler changes is restored or kept as main relies on: whenever  *)
(* main of 10/22 copies, SIGTSTP is caught unless it was ignored at the    *)
(* start, and nothing typed is lost or doubled across a stop; sig_cld      *)
(* finds a zombie to wait for; only a second SIGQUIT kills 10/11; the line *)
(* 10/7 has read is echoed unless the alarm struck before alarm(0).        *)
HandlersKeepState ==
  /\ program = "handle_sigtstp" =>
       /\ Depth = 1 /\ Top.pc >= 3 => proc.disp["SIGTSTP"] \in {"sig_tstp", "SIG_IGN"}
       /\ \A i \in DOMAIN term.out : term.out[i] = i
       /\ proc.status = "exited" /\ proc.mishaps = {} => Len(term.out) = term.typed
  /\ proc.status = "running" /\ Op.op = "wait" => kid = "zombie"
  /\ program = "print_sigpending" /\ proc.status = "killed" /\ Top.pc > 1 => raised >= 2
  /\ program = "read_timeout" /\ proc.status = "exited" /\ proc.n # 0 =>
       proc.mishaps # {} \/ term.out = <<proc.n>>

Gone == proc.status # "running"

(* No wait is missed.  sleep1 and 10/3 hang only when the signal came      *)
(* before pause slept, and sleep2, 10/7 and 10/11 always end.  A signal    *)
(* that main blocks before it waits for it (10/15, 10/16) ends the wait    *)
(* whenever it comes, a SIGUSR1 taken by 10/14 ends it, and 10/22 copies   *)
(* to the end of its input.  No signal stays pending but those longjmp has *)
(* left blocked and those the mask of sigsuspend blocks.                   *)
WaitsEnd ==
  /\ program \in {"sleep1", "handle_sigcld"} => <>(Gone \/ proc.mishaps # {})
  /\ program \in {"sleep2", "read_timeout", "print_sigpending"} => <>Gone
  /\ program = "sigsuspend_usage" => (proc.pending \cap proc.asked # {} ~> Gone)
  /\ program = "sigsuspend_flag" => ("SIGQUIT" \in proc.pending ~> Gone)
  /\ program = "sigsetjmp_usage" => (Top.fn = "sig_usr1" /\ proc.flag = 1 ~> Gone)
  /\ program = "handle_sigtstp" => (term.eof ~> Gone)
  /\ \A s \in Signals : s \in proc.pending ~>
       Gone \/ s \notin proc.pending \/ s \in proc.stuck \/ (Top.asleep /\ s \in proc.mask)
=============================================================================
