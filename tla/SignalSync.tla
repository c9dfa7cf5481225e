----------------------------- MODULE SignalSync -----------------------------
(***************************************************************************)
(* The TELL / WAIT synchronisation library of lib/apue_ipc_signal.cpp,     *)
(* used by any set of related processes: TELL sends SIGUSR1 or SIGUSR2,    *)
(* whose handler sets sigflag, and WAIT sleeps in sigsuspend until it is   *)
(* set.  Each system call a library function makes is a step of its own,   *)
(* because a signal may arrive between any two of them.                    *)
(*                                                                         *)
(* The module is the library with an arbitrary client that keeps to its    *)
(* order: a process calls TELL_WAIT once, then WAIT and TELL as often as it*)
(* likes, then TELL_DONE, and may fork, exit and, early or late, TELL at   *)
(* any time it is in its own code.  SyncPrograms restricts the clients to  *)
(* the programs of the repository.                                         *)
(***************************************************************************)
EXTENDS Naturals

CONSTANTS Procs,    \* process identifiers
          Root,     \* the process that exists initially
          MaxTells  \* bound on the TELLs sent to one process

ASSUME SignalAssumption == Root \in Procs /\ MaxTells \in Nat

Sig == {"SIGUSR1", "SIGUSR2"}

VARIABLES
  status,   \* "unborn", "running", "suspended" (in sigsuspend), "exited", "killed"
  step,     \* where the process is in the library, see Steps
  mask,     \* blocked signals
  pending,  \* signals generated and not delivered: one bit per signal
  disp,     \* disposition of each signal
  sigflag,
  saved,    \* oldmask, old_handler_usr1 and old_handler_usr2
  owed,     \* history: a TELL arrived since WAIT last saw sigflag set
  tells,    \* history: wakeups sent to the process
  waits,    \* history: WAITs the process has returned from
  stray,    \* history: a TELL was sent outside TELL_WAIT .. TELL_DONE
  inherited \* the mask and dispositions the root process was started with

vars == <<status, step, mask, pending, disp, sigflag, saved, owed, tells, waits, stray,
          inherited>>
kernelVars == <<mask, pending, disp>>
histVars == <<owed, tells, waits, stray>>

(* "raw": before TELL_WAIT; "usr1", "usr2": SIGUSR1, then SIGUSR2 caught;  *)
(* "ready": between calls, signals blocked; "presuspend": WAIT has seen    *)
(* sigflag = 0; "loop": sigsuspend has returned; "reset": WAIT has seen    *)
(* sigflag = 1; "unmask", "undo": inside TELL_DONE; "done": after it.      *)
ClientSteps == {"raw", "ready", "done"}
ProtectedSteps == {"ready", "presuspend", "loop", "reset"}
Steps == ClientSteps \cup ProtectedSteps \cup {"usr1", "usr2", "unmask", "undo"}

(* The number of signals in a set of pending ones.                         *)
bits(S) == (IF "SIGUSR1" \in S THEN 1 ELSE 0) + (IF "SIGUSR2" \in S THEN 1 ELSE 0)

Alive(p) == status[p] \in {"running", "suspended"}

(* sigsuspend(&zeromask) blocks nothing while the process sleeps in it.    *)
Deliverable(p) == IF status[p] = "suspended" THEN pending[p] ELSE pending[p] \ mask[p]

(* A signal that may be delivered is delivered on the way out of the       *)
(* kernel: the process takes no step of its own before.                    *)
Runs(p) == status[p] = "running" /\ Deliverable(p) = {}

InClient(p) == Runs(p) /\ step[p] \in ClientSteps

Goto(p, s) == step' = [step EXCEPT ![p] = s]

(* The library's globals start as zeroes: an empty set, and SIG_DFL.       *)
Init ==
  /\ status = [p \in Procs |-> IF p = Root THEN "running" ELSE "unborn"]
  /\ step = [p \in Procs |-> "raw"]
  /\ \E m \in SUBSET Sig, d \in [Sig -> {"SIG_DFL", "SIG_IGN"}] :
       /\ mask = [p \in Procs |-> m]
       /\ disp = [p \in Procs |-> d]
       /\ inherited = [mask |-> m, disp |-> d]
  /\ saved = [p \in Procs |-> [mask |-> {}, disp |-> [s \in Sig |-> "SIG_DFL"]]]
  /\ pending = [p \in Procs |-> {}]
  /\ sigflag = [p \in Procs |-> 0]
  /\ owed = [p \in Procs |-> FALSE]
  /\ tells = [p \in Procs |-> 0]
  /\ waits = [p \in Procs |-> 0]
  /\ stray = [p \in Procs |-> FALSE]

-----------------------------------------------------------------------------
(* The kernel.                                                             *)

sig_usr(p) == 1

(* All deliverable signals are delivered together.  sig_usr sets sigflag;  *)
(* a signal with its default disposition ends the process; sigsuspend      *)
(* returns, and the mask it replaced is back, once a handler has run.      *)
Deliver(p) ==
  LET D == Deliverable(p)
      handled == \E s \in D : disp[p][s] = "sig_usr"
  IN /\ Alive(p)
     /\ D # {}
     /\ pending' = [pending EXCEPT ![p] = @ \ D]
     /\ sigflag' = [sigflag EXCEPT ![p] = IF handled THEN sig_usr(p) ELSE @]
     /\ IF \E s \in D : disp[p][s] = "SIG_DFL"
        THEN status' = [status EXCEPT ![p] = "killed"] /\ UNCHANGED step
        ELSE IF handled /\ status[p] = "suspended"
        THEN status' = [status EXCEPT ![p] = "running"] /\ Goto(p, "loop")
        ELSE UNCHANGED <<status, step>>
     /\ UNCHANGED <<mask, disp, saved, histVars>>

(* A new disposition SIG_IGN also discards the signal if it is pending.    *)
apue_signal(p, s, func) ==
  /\ disp' = [disp EXCEPT ![p][s] = func]
  /\ pending' = [pending EXCEPT ![p] = IF func = "SIG_IGN" THEN @ \ {s} ELSE @]

(* The child starts with the parent's memory, mask and dispositions and    *)
(* with no pending signal; a sigflag set in the copy can wake it once.     *)
Fork(p, c) ==
  /\ InClient(p)
  /\ status[c] = "unborn"
  /\ status' = [status EXCEPT ![c] = "running"]
  /\ step' = [step EXCEPT ![c] = step[p]]
  /\ mask' = [mask EXCEPT ![c] = mask[p]]
  /\ disp' = [disp EXCEPT ![c] = disp[p]]
  /\ pending' = [pending EXCEPT ![c] = {}]
  /\ sigflag' = [sigflag EXCEPT ![c] = sigflag[p]]
  /\ saved' = [saved EXCEPT ![c] = saved[p]]
  /\ tells' = [tells EXCEPT ![c] = sigflag[p]]
  /\ UNCHANGED <<owed, waits, stray>>

Exit(p) ==
  /\ InClient(p)
  /\ status' = [status EXCEPT ![p] = "exited"]
  /\ UNCHANGED <<step, kernelVars, sigflag, saved, histVars>>

-----------------------------------------------------------------------------
(* The library.                                                            *)

newmask_without_usr1 == {"SIGUSR2"}

newmask_without_usr2 == {"SIGUSR1"}

newmask == {"SIGUSR1", "SIGUSR2"}

TELL_WAIT_SIGNAL(p) ==
  /\ Runs(p)
  /\ \/ /\ step[p] = "raw"
        /\ saved' = [saved EXCEPT ![p].disp["SIGUSR1"] = disp[p]["SIGUSR1"]]
        /\ apue_signal(p, "SIGUSR1", "sig_usr")
        /\ Goto(p, "usr1")
        /\ UNCHANGED mask
     \/ /\ step[p] = "usr1"
        /\ saved' = [saved EXCEPT ![p].disp["SIGUSR2"] = disp[p]["SIGUSR2"]]
        /\ apue_signal(p, "SIGUSR2", "sig_usr")
        /\ Goto(p, "usr2")
        /\ UNCHANGED mask
     \/ /\ step[p] = "usr2"
        /\ saved' = [saved EXCEPT ![p].mask = mask[p]]
        /\ mask' = [mask EXCEPT ![p] = @ \cup newmask]
        /\ Goto(p, "ready")
        /\ UNCHANGED <<disp, pending>>
  /\ UNCHANGED <<status, sigflag, histVars>>

(* kill on an unborn process cannot happen; on an exited one it is lost.   *)
Tell(p, q, s) ==
  /\ InClient(p)
  /\ p # q
  /\ status[q] # "unborn"
  /\ tells[q] < MaxTells
  /\ tells' = [tells EXCEPT ![q] = @ + 1]
  /\ pending' = [pending EXCEPT ![q] = IF Alive(q) THEN @ \cup {s} ELSE @]
  /\ owed' = [owed EXCEPT ![q] = @ \/ step[q] \in ProtectedSteps]
  /\ stray' = [stray EXCEPT ![q] = @ \/ step[q] \notin ProtectedSteps]
  /\ UNCHANGED <<status, step, mask, disp, sigflag, saved, waits>>

TELL_PARENT_SIGNAL(p, q) == Tell(p, q, "SIGUSR2")

TELL_CHILD_SIGNAL(p, q) == Tell(p, q, "SIGUSR1")

(* WAIT_PARENT_SIGNAL and WAIT_CHILD_SIGNAL have the same body: the test   *)
(* of the while loop, sigsuspend, and the reset are separate steps.        *)
WaitTest(p) ==
  /\ Runs(p)
  /\ step[p] \in {"ready", "loop"}
  /\ Goto(p, IF sigflag[p] = 0 THEN "presuspend" ELSE "reset")
  /\ owed' = [owed EXCEPT ![p] = @ /\ sigflag[p] = 0]
  /\ UNCHANGED <<status, kernelVars, sigflag, saved, tells, waits, stray>>

WaitSuspend(p) ==
  /\ Runs(p)
  /\ step[p] = "presuspend"
  /\ status' = [status EXCEPT ![p] = "suspended"]
  /\ UNCHANGED <<step, kernelVars, sigflag, saved, histVars>>

WaitReset_keeps_flag(p) ==
  /\ Runs(p)
  /\ step[p] = "reset"
  /\ Goto(p, "ready")
  /\ waits' = [waits EXCEPT ![p] = @ + 1]
  /\ UNCHANGED <<status, kernelVars, sigflag, saved, owed, tells, stray>>

WaitReset(p) ==
  /\ Runs(p)
  /\ step[p] = "reset"
  /\ sigflag' = [sigflag EXCEPT ![p] = 0]
  /\ Goto(p, "ready")
  /\ waits' = [waits EXCEPT ![p] = @ + 1]
  /\ UNCHANGED <<status, kernelVars, saved, owed, tells, stray>>

TELL_DONE_handlers_first(p) ==
  /\ Runs(p)
  /\ \/ /\ step[p] = "ready"
        /\ apue_signal(p, "SIGUSR1", saved[p].disp["SIGUSR1"])
        /\ Goto(p, "unmask")
        /\ UNCHANGED mask
     \/ /\ step[p] = "unmask"
        /\ apue_signal(p, "SIGUSR2", saved[p].disp["SIGUSR2"])
        /\ Goto(p, "undo")
        /\ UNCHANGED mask
     \/ /\ step[p] = "undo"
        /\ mask' = [mask EXCEPT ![p] = saved[p].mask]
        /\ Goto(p, "done")
        /\ UNCHANGED <<disp, pending>>
  /\ UNCHANGED <<status, sigflag, saved, histVars>>

restored_unblock(p) == mask[p] \ Sig

(* SIG_SETMASK with the saved mask.                                        *)
restored(p) == saved[p].mask

(* The mask is restored while sig_usr is still the handler.                *)
TELL_DONE_SIGNAL(p) ==
  /\ Runs(p)
  /\ \/ /\ step[p] = "ready"
        /\ mask' = [mask EXCEPT ![p] = restored(p)]
        /\ Goto(p, "unmask")
        /\ UNCHANGED <<disp, pending>>
     \/ /\ step[p] = "unmask"
        /\ apue_signal(p, "SIGUSR1", saved[p].disp["SIGUSR1"])
        /\ Goto(p, "undo")
        /\ UNCHANGED mask
     \/ /\ step[p] = "undo"
        /\ apue_signal(p, "SIGUSR2", saved[p].disp["SIGUSR2"])
        /\ Goto(p, "done")
        /\ UNCHANGED mask
  /\ UNCHANGED <<status, sigflag, saved, histVars>>

WAIT_SIGNAL(p) == WaitTest(p) \/ WaitSuspend(p) \/ WaitReset(p)

Next ==
  /\ UNCHANGED inherited
  /\ \E p \in Procs :
       \/ Deliver(p)
       \/ TELL_WAIT_SIGNAL(p)
       \/ WAIT_SIGNAL(p)
       \/ TELL_DONE_SIGNAL(p)
       \/ Exit(p)
       \/ \E q \in Procs :
            Fork(p, q) \/ TELL_PARENT_SIGNAL(p, q) \/ TELL_CHILD_SIGNAL(p, q)

Spec == Init /\ [][Next]_vars

-----------------------------------------------------------------------------

(* The signal state of every process, its place in the library and the     *)
(* histories.                                                              *)
TypeOK ==
  /\ status \in [Procs -> {"unborn", "running", "suspended", "exited", "killed"}]
  /\ step \in [Procs -> Steps]
  /\ mask \in [Procs -> SUBSET Sig]
  /\ pending \in [Procs -> SUBSET Sig]
  /\ disp \in [Procs -> [Sig -> {"SIG_DFL", "SIG_IGN", "sig_usr"}]]
  /\ sigflag \in [Procs -> {0, 1}]
  /\ saved \in [Procs -> [mask : SUBSET Sig, disp : [Sig -> {"SIG_DFL", "SIG_IGN"}]]]
  /\ owed \in [Procs -> BOOLEAN]
  /\ tells \in [Procs -> Nat]
  /\ waits \in [Procs -> Nat]
  /\ stray \in [Procs -> BOOLEAN]
  /\ inherited \in [mask : SUBSET Sig, disp : [Sig -> {"SIG_DFL", "SIG_IGN"}]]

(* A process never sleeps in sigsuspend through a TELL it has not yet      *)
(* answered: the loop of WAIT_PARENT/WAIT_CHILD cannot miss a signal that  *)
(* arrives between the test of sigflag and sigsuspend, or between the test *)
(* and the reset of sigflag.                                               *)
NoLostWakeup ==
  \A p \in Procs : status[p] = "suspended" /\ owed[p] => pending[p] # {}

(* Every return of WAIT is paid for by a TELL of its own: pending bits and *)
(* sigflag are wakeups still to come, and a wakeup is never made up.       *)
NoSpuriousWait ==
  \A p \in Procs : waits[p] + sigflag[p] + bits(pending[p]) <= tells[p]

(* A process dies of SIGUSR1 or SIGUSR2 only if somebody signalled it      *)
(* outside TELL_WAIT .. TELL_DONE.  A TELL still pending when TELL_DONE    *)
(* unblocks the signals meets the old mask and sig_usr, never SIG_DFL.     *)
NoKillInProtocol ==
  \A p \in Procs : status[p] = "killed" => stray[p]

(* After TELL_DONE the process has the signal mask and the dispositions    *)
(* the program was started with, also when TELL_WAIT and TELL_DONE were    *)
(* called on the two sides of a fork.                                      *)
DoneRestores ==
  \A p \in Procs : step[p] = "done" =>
    [mask |-> mask[p], disp |-> disp[p]] = inherited
=============================================================================
