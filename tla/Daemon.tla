------------------------------- MODULE Daemon -------------------------------
(***************************************************************************)
(* lib/apue_daemon.cpp and the daemons of chapter 13: several of them are  *)
(* started at once, any may be killed at any time, and signals reach them  *)
(* while they start.  Kind says which program an instance runs:            *)
(*   "handler"    13/4: handlers for SIGHUP and SIGTERM                    *)
(*   "thread"     13/3: all signals blocked, a thread in sigwait           *)
(*   "singleton"  13/2: already_running only                               *)
(* An instance is a new process after each fork, known by its generation.  *)
(***************************************************************************)
EXTENDS Naturals, FiniteSets

CONSTANTS Daemons, Kind, MaxHups,
          Inherited,   \* descriptors open when the programs are started
          RlimMax      \* the limit on descriptors

ASSUME DaemonAssumption ==
  /\ Kind \in [Daemons -> {"handler", "thread", "singleton"}]
  /\ "none" \notin Daemons
  /\ MaxHups \in Nat
  /\ RlimMax \in Nat /\ RlimMax > 3   \* a daemon has four descriptors
  /\ Inherited \subseteq 0..(RlimMax - 1) /\ Inherited # 0..(RlimMax - 1)

VARIABLES pc, pid,     \* pid: the generation of the process
          leader,      \* whether it leads its session
          terminal,    \* whether its session has a terminal
          fds,         \* its open descriptors
          hup,         \* disposition of SIGHUP: "SIG_DFL", "SIG_IGN", "sighup"
          blocked,     \* all signals are blocked
          pending,     \* signals that wait
          unread,      \* a SIGHUP told the daemon to reread its configuration
          lock,        \* who has LOCKFILE locked
          pidfile,     \* what is in it
          hups         \* SIGHUPs sent

process == <<leader, terminal, fds, hup, blocked>>
daemonVars == <<pc, pid, process, pending, unread, lock, pidfile, hups>>

None == "none"
Dead == "dead"
Pid(d) == <<d, pid[d]>>
Alive(d) == pc[d] \notin {"start", Dead}

DaemonInit ==
  /\ pc = [d \in Daemons |-> "start"]
  /\ pid = [d \in Daemons |-> 0]
  /\ leader = [d \in Daemons |-> TRUE]      \* of the shell's job, at worst
  /\ terminal = [d \in Daemons |-> TRUE]
  /\ fds = [d \in Daemons |-> Inherited]
  /\ hup = [d \in Daemons |-> "SIG_DFL"]
  /\ blocked = [d \in Daemons |-> FALSE]
  /\ pending = [d \in Daemons |-> {}]
  /\ unread = [d \in Daemons |-> FALSE]
  /\ lock = None /\ pidfile = <<>> /\ hups = 0

Go(d, to) == pc' = [pc EXCEPT ![d] = to]

(* The end of a process: the kernel drops its locks, the file stays.       *)
Exits(d) ==
  /\ Go(d, Dead)
  /\ lock' = IF lock = d THEN None ELSE lock
  /\ pending' = [pending EXCEPT ![d] = {}]

-----------------------------------------------------------------------------
(* daemonize, with the parent gone after each fork.                        *)
run(d) ==
  /\ pc[d] = "start"
  /\ Go(d, IF Kind[d] = "singleton" THEN "open" ELSE "fork")
  /\ UNCHANGED <<pid, process, pending, unread, lock, pidfile, hups>>

fork_first(d) ==
  /\ pc[d] = "fork"
  /\ pid' = [pid EXCEPT ![d] = @ + 1]
  /\ leader' = [leader EXCEPT ![d] = FALSE]
  /\ Go(d, "setsid")
  /\ UNCHANGED <<terminal, fds, hup, blocked, pending, unread, lock, pidfile, hups>>

setsid(d) ==
  /\ pc[d] = "setsid"
  /\ IF leader[d] THEN UNCHANGED <<leader, terminal>>   \* refused, unnoticed
     ELSE /\ leader' = [leader EXCEPT ![d] = TRUE]
          /\ terminal' = [terminal EXCEPT ![d] = FALSE]
  /\ Go(d, "sigaction")
  /\ UNCHANGED <<pid, fds, hup, blocked, pending, unread, lock, pidfile, hups>>

ignore_hup(d) ==
  /\ pc[d] = "sigaction"
  /\ hup' = [hup EXCEPT ![d] = "SIG_IGN"]
  /\ Go(d, "fork2")
  /\ UNCHANGED <<pid, leader, terminal, fds, blocked, pending, unread, lock, pidfile, hups>>

fork_second_missing(d) ==
  /\ pc[d] = "fork2"
  /\ Go(d, "close")
  /\ UNCHANGED <<pid, process, pending, unread, lock, pidfile, hups>>

fork_second(d) ==
  /\ pc[d] = "fork2"
  /\ pid' = [pid EXCEPT ![d] = @ + 1]
  /\ leader' = [leader EXCEPT ![d] = FALSE]
  /\ Go(d, "close")
  /\ UNCHANGED <<terminal, fds, hup, blocked, pending, unread, lock, pidfile, hups>>

(* Close everything; /dev/null must come out as 0, 1 and 2. The limit is a *)
(* number: under RLIM_INFINITY the first 1024 would be closed and others   *)
(* stay open. The descriptor that syslog may open is not counted.          *)
close_all(d) ==
  /\ pc[d] = "close"
  /\ LET left == fds[d] \ (0..(RlimMax - 1)) IN
     IF left \cap (0..2) = {}
     THEN /\ fds' = [fds EXCEPT ![d] = left \cup (0..2)]
          /\ Go(d, "open")
          /\ UNCHANGED <<pending, lock>>
     ELSE Exits(d) /\ UNCHANGED fds
  /\ UNCHANGED <<pid, leader, terminal, hup, blocked, unread, pidfile, hups>>

daemonize(d) ==
  fork_first(d) \/ setsid(d) \/ ignore_hup(d) \/ fork_second(d) \/ close_all(d)

-----------------------------------------------------------------------------
(* already_running.  open returns the lowest descriptor that is free.      *)
lowest(S) == CHOOSE n \in 0..(RlimMax - 1) : n \notin S /\ \A m \in 0..(n - 1) : m \in S

open_truncating(d) ==
  /\ pc[d] = "open"
  /\ fds' = [fds EXCEPT ![d] = @ \cup {lowest(@)}]
  /\ pidfile' = <<>>
  /\ Go(d, "lock")
  /\ UNCHANGED <<pid, leader, terminal, hup, blocked, pending, unread, lock, hups>>

open(d) ==
  /\ pc[d] = "open"
  /\ fds' = [fds EXCEPT ![d] = @ \cup {lowest(@)}]
  /\ Go(d, "lock")
  /\ UNCHANGED <<pid, leader, terminal, hup, blocked, pending, unread, lock, pidfile, hups>>

lockfile_ignored(d) ==
  /\ pc[d] = "lock"
  /\ lock' = d /\ Go(d, "ftruncate")
  /\ UNCHANGED <<pid, process, pending, unread, pidfile, hups>>

(* Locked by another: the caller exits.                                    *)
lockfile(d) ==
  /\ pc[d] = "lock"
  /\ IF lock = None
     THEN lock' = d /\ Go(d, "ftruncate") /\ UNCHANGED pending
     ELSE Exits(d)
  /\ UNCHANGED <<pid, process, unread, pidfile, hups>>

ftruncate(d) ==
  /\ pc[d] = "ftruncate"
  /\ pidfile' = <<>>
  /\ Go(d, "write")
  /\ UNCHANGED <<pid, process, pending, unread, lock, hups>>

write(d) ==
  /\ pc[d] = "write"
  /\ pidfile' = Pid(d)
  /\ Go(d, CASE Kind[d] = "handler" -> "sigterm"
             [] Kind[d] = "thread" -> "sig_dfl"
             [] OTHER -> "running")
  /\ UNCHANGED <<pid, process, pending, unread, lock, hups>>

already_running(d) == open(d) \/ lockfile(d) \/ ftruncate(d) \/ write(d)

(* The rest of main: 13/4 installs its handlers, 13/3 gives SIGHUP its     *)
(* default action, blocks all signals and creates the thread.              *)
Step(d, from, to) ==
  /\ pc[d] = from
  /\ Go(d, to)
  /\ UNCHANGED <<pid, leader, terminal, fds, pending, unread, lock, pidfile, hups>>

sigaction_term(d) == Step(d, "sigterm", "sighup") /\ UNCHANGED <<hup, blocked>>

sigaction_hup_default(d) ==
  Step(d, "sighup", "running") /\ hup' = [hup EXCEPT ![d] = "SIG_DFL"] /\ UNCHANGED blocked

sigaction_hup(d) ==
  Step(d, "sighup", "running") /\ hup' = [hup EXCEPT ![d] = "sighup"] /\ UNCHANGED blocked

sigaction_dfl(d) ==
  Step(d, "sig_dfl", "mask") /\ hup' = [hup EXCEPT ![d] = "SIG_DFL"] /\ UNCHANGED blocked

pthread_sigmask(d) ==
  Step(d, "mask", "pthread_create") /\ blocked' = [blocked EXCEPT ![d] = TRUE] /\ UNCHANGED hup

pthread_create(d) == Step(d, "pthread_create", "running") /\ UNCHANGED <<hup, blocked>>

sighup_empty(d) ==
  /\ hup[d] = "sighup" /\ unread[d] /\ Alive(d)
  /\ UNCHANGED <<pc, pid, process, pending, unread, lock, pidfile, hups>>

sighup(d) ==
  /\ hup[d] = "sighup" /\ unread[d] /\ Alive(d)
  /\ unread' = [unread EXCEPT ![d] = FALSE]
  /\ UNCHANGED <<pc, pid, process, pending, lock, pidfile, hups>>

thr_fn(d) ==
  /\ Kind[d] = "thread" /\ pc[d] = "running"
  /\ \E signo \in pending[d] :
       IF signo = "SIGHUP"
       THEN /\ pending' = [pending EXCEPT ![d] = @ \ {signo}]
            /\ unread' = [unread EXCEPT ![d] = FALSE]
            /\ UNCHANGED <<pc, lock>>
       ELSE Exits(d) /\ UNCHANGED unread
  /\ UNCHANGED <<pid, process, pidfile, hups>>

main(d) ==
  \/ run(d) \/ daemonize(d) \/ already_running(d)
  \/ sigaction_term(d) \/ sigaction_hup(d)
  \/ sigaction_dfl(d) \/ pthread_sigmask(d) \/ pthread_create(d)
  \/ sighup(d) \/ thr_fn(d)

-----------------------------------------------------------------------------
(* Signals from outside.  SIGTERM ends the process, by its default action  *)
(* or its handler, unless it is blocked; so does SIGKILL, always.          *)
send_hup(d) ==
  /\ Alive(d) /\ hups < MaxHups
  /\ hups' = hups + 1
  /\ IF blocked[d]
     THEN /\ pending' = [pending EXCEPT ![d] = @ \cup {"SIGHUP"}]
          /\ unread' = [unread EXCEPT ![d] = TRUE]
          /\ UNCHANGED <<pc, lock>>
     ELSE CASE hup[d] = "SIG_DFL" -> Exits(d) /\ UNCHANGED unread
            [] hup[d] = "SIG_IGN" -> UNCHANGED <<pc, pending, lock, unread>>
            [] hup[d] = "sighup"  -> /\ unread' = [unread EXCEPT ![d] = TRUE]
                                     /\ UNCHANGED <<pc, pending, lock>>
  /\ UNCHANGED <<pid, process, pidfile>>

send_term(d) ==
  /\ Alive(d)
  /\ IF blocked[d]
     THEN pending' = [pending EXCEPT ![d] = @ \cup {"SIGTERM"}] /\ UNCHANGED <<pc, lock>>
     ELSE Exits(d)
  /\ UNCHANGED <<pid, process, unread, pidfile, hups>>

send_kill(d) ==
  /\ Alive(d)
  /\ Exits(d)
  /\ UNCHANGED <<pid, process, unread, pidfile, hups>>

DaemonNext == \E d \in Daemons : main(d) \/ send_hup(d) \/ send_term(d) \/ send_kill(d)

(* Every process runs.                                                     *)
DaemonSpec == DaemonInit /\ [][DaemonNext]_daemonVars /\ \A d \in Daemons : WF_daemonVars(main(d))

-----------------------------------------------------------------------------
(* The places of the daemons, what LOCKFILE holds and what each can know.  *)
DaemonTypeOK ==
  /\ pid \in [Daemons -> 0..2]
  /\ leader \in [Daemons -> BOOLEAN] /\ terminal \in [Daemons -> BOOLEAN]
  /\ fds \in [Daemons -> SUBSET Nat]
  /\ hup \in [Daemons -> {"SIG_DFL", "SIG_IGN", "sighup"}]
  /\ pending \in [Daemons -> SUBSET {"SIGHUP", "SIGTERM"}]
  /\ lock \in Daemons \cup {None}
  /\ pidfile \in (Daemons \X (0..2)) \cup {<<>>}

Installed(d) == pc[d] \in {"sigterm", "sighup", "sig_dfl", "mask", "pthread_create", "running"}

(* Of all daemons that are started, one at most gets past already_running, *)
(* and LOCKFILE names it, whatever other instances, dead or still          *)
(* starting, have done to the file. It has no terminal and cannot get one, *)
(* and its descriptors are /dev/null three times and LOCKFILE.             *)
SingleDaemon ==
  /\ DaemonTypeOK
  /\ \A d \in Daemons : Installed(d) =>
       /\ \A e \in Daemons : Installed(e) => d = e
       /\ pidfile = Pid(d)
       /\ Kind[d] # "singleton" => ~leader[d] /\ ~terminal[d] /\ fds[d] = 0..3

(* A daemon that was told to reread its configuration does, or ends.       *)
Rereads == \A d \in Daemons : unread[d] ~> (~unread[d] \/ pc[d] = Dead)

(* SIGHUP ends a daemon whose process id is in LOCKFILE only between       *)
(* sigaction and pthread_sigmask of 13/3 (13/3:52-55), where it has its    *)
(* default action and is not yet blocked.                                  *)
HupKillsOnlyBeforeMask ==
  [][\A d \in Daemons :
       /\ Kind[d] # "singleton" /\ Installed(d)
       /\ send_hup(d) /\ pc'[d] = Dead
       => Kind[d] = "thread" /\ pc[d] = "mask"]_daemonVars
=============================================================================
