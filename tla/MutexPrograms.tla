--------------------------- MODULE MutexPrograms ---------------------------
(***************************************************************************)
(* The smaller programs of chapters 11 and 12, written down as the calls   *)
(* of their threads:                                                       *)
(*   exit_thread  11/2    cleanup    11/4     mutex     11/5               *)
(*   timedlock    11/8    detach     12/1     recursive 12/2               *)
(*   getenv_r     12/3    atfork     12/7                                  *)
(* The child process of 12/7 is its thread "child", with mutexes of its    *)
(* own.  getenv_r is made to be called by several threads; here two call   *)
(* it besides main.                                                        *)
(***************************************************************************)
EXTENDS Integers, Sequences, FiniteSets, Calls

VARIABLES script,   \* which of the programs
          th,       \* thread -> pc, status, value at hand, pushed handlers, container
          mtx,      \* mutex -> owner and depth
          out,      \* what was printed: <<thread, value>>
          sh        \* what the threads share

mutexVars == <<script, th, mtx, out, sh>>

P(m) == <<"parent", m>>
C(m) == <<"child", m>>
ETIMEDOUT == 110

-----------------------------------------------------------------------------
exit_thread ==
  [main |-> <<Call("create", "t1"), Call("create", "t2"),
              Call("join", "t1"), Do("print"), Call("join", "t2"), Do("print"), Do("exit")>>,
   t1   |-> <<Call("return", 1)>>,
   t2   |-> <<Call("return", 2)>>]

pushes(code) == <<Do("push"), Do("push"), Call("pop", 0), Call("pop", 0), Call("return", code)>>

cleanup ==
  [main |-> <<Call("create", "t1"), Call("join", "t1"), Do("print"),
              Call("create", "t2"), Call("join", "t2"), Do("print"), Do("exit")>>,
   t1   |-> pushes(1),
   t2   |-> pushes(2)]

mutex == [main |-> <<Do("hold"), Do("rele"), Do("rele"), Do("rele"), Do("exit")>>]

timedlock == [main |-> <<Call("lock", P("lock")), Call("timedlock", P("lock")), Do("print"), Do("exit")>>]

detach ==
  [main |-> <<Call("makethread", "t1"), Do("sleep"), Do("leave"), Do("exit")>>,
   t1   |-> <<Do("thread_arg"), Do("print"), Call("return", 0)>>]

retry == <<Call("lock", P("mutex")), Do("retried"), Do("print"), Call("unlock", P("mutex"))>>

timeout_helper == <<Do("sleep")>> \o retry \o <<Do("delete"), Call("return", 0)>>

(* main of 12/2, with timeout: retry is called by main itself if the       *)
(* thread cannot be made.                                                  *)
recursive ==
  [main |-> <<Call("lock", P("mutex")), Do("new"), Jump("makethread", "t1", 5), Loop(10), Do("delete")>>
            \o retry \o <<Call("unlock", P("mutex")), Call("return", 0)>>,
   t1   |-> timeout_helper]

getenv_r ==
  <<Do("pthread_once"), Do("getspecific"), Call("lock", P("env_mutex")),
    Do("getenv"), Do("make_shared"), Call("unlock", P("env_mutex")), Do("print")>>

getenvs ==
  [main |-> <<Call("create", "t1"), Call("create", "t2")>> \o getenv_r
            \o <<Call("join", "t1"), Call("join", "t2"), Do("exit")>>,
   t1   |-> getenv_r \o <<Call("return", 0)>>,
   t2   |-> getenv_r \o <<Call("return", 0)>>]

atfork_parent_only ==
  [main  |-> <<Call("create", "t1"), Do("sleep"), Call("lock", P("lock1")), Call("lock", P("lock2")),
               Call("fork", "child"), Call("unlock", P("lock1")), Call("unlock", P("lock2")),
               Do("print"), Do("exit")>>,
   t1    |-> <<Do("pause")>>,
   child |-> <<Do("print"), Do("exit")>>]

(* fork calls prepare before, and parent or child after it.                *)
atfork ==
  [main  |-> <<Call("create", "t1"), Do("sleep"), Call("lock", P("lock1")), Call("lock", P("lock2")),
               Call("fork", "child"), Call("unlock", P("lock1")), Call("unlock", P("lock2")),
               Do("print"), Do("exit")>>,
   t1    |-> <<Do("pause")>>,
   child |-> <<Call("unlock", C("lock1")), Call("unlock", C("lock2")), Do("print"), Do("exit")>>]

Scripts ==
  [exit_thread |-> exit_thread, cleanup |-> cleanup, mutex |-> mutex, timedlock |-> timedlock,
   detach |-> detach, recursive |-> recursive, getenv_r |-> getenvs, atfork |-> atfork]

Threads == DOMAIN Scripts[script]
Mutexes == {P("lock"), P("mutex"), P("env_mutex")} \cup
           {<<proc, m>> : proc \in {"parent", "child"}, m \in {"lock1", "lock2"}}
Free == [owner |-> "none", depth |-> 0]

Init ==
  /\ script \in DOMAIN Scripts
  /\ th = [t \in Threads |-> [pc |-> 1, status |-> IF t = "main" THEN "running" ELSE "unborn",
                              val |-> 0, pushed |-> 0, container |-> FALSE]]
  /\ mtx = [m \in Mutexes |-> Free]
  /\ out = <<>>
  /\ \E env \in IF script = "getenv_r" THEN BOOLEAN ELSE {TRUE} :
       sh = [count |-> 1, foo |-> "live", keys |-> 0, tip |-> "none", frame |-> TRUE, env |-> env,
             errors |-> {}, ended |-> "no", ran |-> 0]

-----------------------------------------------------------------------------
(* Helpers: the current call of t, and t moved on after it.                *)
Op(t) == Scripts[script][t][th[t].pc]
Calls(t, op) == t \in Threads /\ th[t].status = "running" /\ Op(t).op = op
Moved(t) == [th EXCEPT ![t].pc = @ + 1]
Gets(t, x) == [th EXCEPT ![t].pc = @ + 1, ![t].val = x]
Error(e) == [sh EXCEPT !.errors = @ \cup {e}]

(* The threads of the process of t.                                        *)
Together(t) == IF t = "child" THEN {"child"} ELSE Threads \ {"child"}
Ends(T, t) == [u \in Threads |-> IF u \in Together(t) THEN [T[u] EXCEPT !.status = "gone"] ELSE T[u]]

exit(t) ==
  /\ Calls(t, "exit")
  /\ th' = Ends(th, t)
  /\ sh' = IF t = "child" THEN sh ELSE [sh EXCEPT !.ended = "exit"]
  /\ UNCHANGED <<script, mtx, out>>

(* err_exit if the thread cannot be made; timeout goes on without it, and  *)
(* 12/1 quits.                                                             *)
create(t) ==
  /\ Calls(t, "create") \/ Calls(t, "makethread")
  /\ \/ th' = [Moved(t) EXCEPT ![Op(t).arg].status = "running"] /\ UNCHANGED sh
     \/ /\ Op(t).to = 0
        /\ th' = Ends(th, t) /\ sh' = [sh EXCEPT !.ended = "err_exit"]
     \/ /\ Op(t).to # 0
        /\ th' = [th EXCEPT ![t].pc = Op(t).to] /\ UNCHANGED sh
  /\ UNCHANGED <<script, mtx, out>>

join(t) ==
  /\ Calls(t, "join") /\ th[Op(t).arg].status = "returned"
  /\ th' = [Gets(t, th[Op(t).arg].val) EXCEPT ![Op(t).arg].status = "joined"]
  /\ UNCHANGED <<script, mtx, out, sh>>

(* return, and pthread_exit, which runs the handlers still pushed; the     *)
(* process goes with its last thread.                                      *)
return(t) ==
  /\ Calls(t, "return")
  /\ th' = [th EXCEPT ![t].status = "returned", ![t].val = Op(t).arg, ![t].container = FALSE]
  /\ sh' = [sh EXCEPT !.ran = @ + th[t].pushed,
                      !.ended = IF \A u \in Threads \ {t} : th[u].status \in {"unborn", "returned"}
                                THEN "exit" ELSE @]
  /\ UNCHANGED <<script, mtx, out>>

print(t) ==
  /\ Calls(t, "print")
  /\ out' = Append(out, <<t, th[t].val>>)
  /\ th' = Moved(t)
  /\ UNCHANGED <<script, mtx, sh>>

goto(t) ==
  /\ Calls(t, "sleep") \/ Calls(t, "goto")
  /\ th' = IF Op(t).op = "goto" THEN [th EXCEPT ![t].pc = Op(t).to] ELSE Moved(t)
  /\ UNCHANGED <<script, mtx, out, sh>>

(* pthread_cleanup_push and pthread_cleanup_pop(0).                        *)
push_pop(t) ==
  /\ Calls(t, "push") \/ Calls(t, "pop")
  /\ th' = [Moved(t) EXCEPT ![t].pushed = IF Op(t).op = "push" THEN @ + 1 ELSE @ - 1]
  /\ UNCHANGED <<script, mtx, out, sh>>

-----------------------------------------------------------------------------
(* pthread_mutex_lock: PTHREAD_MUTEX_RECURSIVE is asked for by 12/2 only.  *)
lock(t) ==
  /\ Calls(t, "lock")
  /\ LET m == Op(t).arg
     IN /\ mtx[m].owner = "none" \/ (mtx[m].owner = t /\ m = P("mutex"))
        /\ mtx' = [mtx EXCEPT ![m] = [owner |-> t, depth |-> @.depth + 1]]
  /\ th' = Moved(t)
  /\ UNCHANGED <<script, out, sh>>

unlock(t) ==
  /\ Calls(t, "unlock")
  /\ LET m == Op(t).arg
     IN /\ mtx' = [mtx EXCEPT ![m] = IF @.owner # t THEN @
                                     ELSE IF @.depth = 1 THEN Free ELSE [@ EXCEPT !.depth = @ - 1]]
        /\ sh' = IF mtx[m].owner # t THEN Error("unlock") ELSE sh
  /\ th' = Moved(t)
  /\ UNCHANGED <<script, out>>

(* 11/8 has the mutex itself: the deadline passes.                         *)
timed_lock(t) ==
  /\ Calls(t, "timedlock") /\ mtx[Op(t).arg].owner # "none"
  /\ th' = Gets(t, ETIMEDOUT)
  /\ UNCHANGED <<script, mtx, out, sh>>

(* Foo::hold and Foo::rele of 11/5: a count of 0 is an exception, which    *)
(* nobody catches; the last rele destroys the mutex.                       *)
foo(t) ==
  /\ Calls(t, "hold") \/ Calls(t, "rele")
  /\ IF sh.count = 0
     THEN th' = Ends(th, t) /\ sh' = [sh EXCEPT !.ended = "terminate"] /\ UNCHANGED out
     ELSE LET count == IF Op(t).op = "hold" THEN sh.count + 1 ELSE sh.count - 1
          IN /\ sh' = [sh EXCEPT !.count = count, !.foo = IF count = 0 THEN "destroyed" ELSE @,
                                 !.errors = IF sh.foo = "destroyed" THEN @ \cup {"lock"} ELSE @]
             /\ out' = Append(out, <<t, count>>)
             /\ th' = Moved(t)
  /\ UNCHANGED <<script, mtx>>

(* 12/1: the frame of main goes when main returns; what the thread then    *)
(* finds there is undefined.                                               *)
frame(t) ==
  /\ \/ Calls(t, "leave") /\ sh' = [sh EXCEPT !.frame = FALSE] /\ th' = Moved(t)
     \/ Calls(t, "thread_arg") /\ (\E x \in {42, 0} : (sh.frame => x = 42) /\ th' = Gets(t, x))
        /\ UNCHANGED sh
  /\ UNCHANGED <<script, mtx, out>>

(* 12/2: the to_info of timeout, and the call of retry.                    *)
to_info(t) ==
  /\ \/ Calls(t, "new") /\ sh' = [sh EXCEPT !.tip = "live"] /\ th' = Moved(t)
     \/ Calls(t, "delete") /\ th' = Moved(t)
        /\ sh' = IF sh.tip = "live" THEN [sh EXCEPT !.tip = "deleted"] ELSE Error("delete")
     \/ Calls(t, "retried") /\ th' = Gets(t, 1) /\ UNCHANGED sh
  /\ UNCHANGED <<script, mtx, out>>

(* 12/3: the key is made once; a thread makes its container once; the      *)
(* value is copied with the mutex held.                                    *)
thread_init_each(t) ==
  /\ \/ Calls(t, "pthread_once") /\ sh' = [sh EXCEPT !.keys = @ + 1] /\ th' = Moved(t)
     \/ Calls(t, "getspecific") /\ th' = [Moved(t) EXCEPT ![t].container = TRUE] /\ UNCHANGED sh
     \/ Calls(t, "getenv") /\ UNCHANGED sh
        /\ th' = IF sh.env THEN Moved(t) ELSE [th EXCEPT ![t].pc = @ + 2, ![t].val = -1]
     \/ Calls(t, "make_shared") /\ th' = Gets(t, 7) /\ UNCHANGED sh
  /\ UNCHANGED <<script, mtx, out>>

environment(t) ==
  /\ \/ Calls(t, "pthread_once") /\ th' = Moved(t)
        /\ sh' = [sh EXCEPT !.keys = IF @ = 0 THEN 1 ELSE @]
     \/ Calls(t, "getspecific") /\ th' = [Moved(t) EXCEPT ![t].container = TRUE] /\ UNCHANGED sh
     \/ Calls(t, "getenv") /\ UNCHANGED sh
        /\ th' = IF sh.env THEN Moved(t) ELSE [th EXCEPT ![t].pc = @ + 2, ![t].val = -1]
     \/ Calls(t, "make_shared") /\ th' = Gets(t, 7) /\ UNCHANGED sh
  /\ UNCHANGED <<script, mtx, out>>

(* The child has the calling thread only, and copies of the mutexes; if it *)
(* cannot be made, the parent runs its handler and quits.                  *)
fork(t) ==
  /\ Calls(t, "fork")
  /\ \/ /\ th' = [Moved(t) EXCEPT !["child"].status = "running"]
        /\ mtx' = [m \in Mutexes |->
                     IF m[1] # "child" THEN mtx[m]
                     ELSE [mtx[P(m[2])] EXCEPT !.owner = IF @ = t THEN "child" ELSE @]]
        /\ UNCHANGED sh
     \/ /\ th' = Ends(th, t) /\ sh' = [sh EXCEPT !.ended = "err_quit"]
        /\ UNCHANGED mtx
  /\ UNCHANGED <<script, out>>

Step(t) == \/ exit(t) \/ create(t) \/ join(t) \/ return(t) \/ print(t) \/ goto(t) \/ push_pop(t)
           \/ lock(t) \/ unlock(t) \/ timed_lock(t) \/ foo(t) \/ frame(t) \/ to_info(t)
           \/ environment(t) \/ fork(t)

(* The program, and the child of 12/7, have ended.                         *)
Over == sh.ended # "no" /\ \A t \in Threads : t = "child" => th[t].status # "running"

(* After the end nothing happens any more.                                 *)
Idle == Over /\ UNCHANGED mutexVars
Next == (\E t \in Threads : Step(t)) \/ Idle

-----------------------------------------------------------------------------
Said(t) == SelectSeq(out, LAMBDA o : o[1] = t)
After(t, op) == \E k \in 1..(th[t].pc - 1) : Scripts[script][t][k].op = op

(* What each program relies on, whatever order its threads run in.  No     *)
(* thread unlocks what it does not own or locks what is destroyed, and the *)
(* to_info is deleted once.  join gives each thread's own value, and pop(0)*)
(* leaves no handler to run.  retry runs once, by the thread or, if it     *)
(* cannot be made, by main, with the mutex main has locked already.  The   *)
(* key of getenv_r is there before any thread uses it, and made once.      *)
(* After fork both mutexes are free in the parent and in the child.  The   *)
(* third rele of 11/5 throws, and does not touch the mutex; the thread of  *)
(* 12/1 finds its argument as long as main has not returned.               *)
ThreadsSafe ==
  /\ sh.errors = {}
  /\ script \in {"exit_thread", "cleanup"} =>
       /\ sh.ran = 0
       /\ \A k \in DOMAIN Said("main") : Said("main")[k][2] = k
  /\ script = "mutex" /\ sh.ended # "no" => sh.ended = "terminate" /\ Len(out) = 3
  /\ script = "timedlock" => \A k \in DOMAIN out : out[k][2] = ETIMEDOUT
  /\ script = "detach" => \A k \in DOMAIN out : out[k][2] = 42 \/ ~sh.frame
  /\ script = "recursive" =>
       /\ Len(out) <= 1
       /\ Over => Len(out) = 1 /\ sh.tip = "deleted"
  /\ script = "getenv_r" =>
       /\ \A t \in Threads : After(t, "pthread_once") => sh.keys = 1
       /\ \A k \in DOMAIN out : out[k][2] = IF sh.env THEN 7 ELSE -1
  /\ script = "atfork" =>
       /\ Calls("main", "exit") => mtx[P("lock1")] = Free /\ mtx[P("lock2")] = Free
       /\ Calls("child", "exit") => mtx[C("lock1")] = Free /\ mtx[C("lock2")] = Free
=============================================================================
