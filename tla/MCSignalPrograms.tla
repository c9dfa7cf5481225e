-------------------------- MODULE MCSignalPrograms --------------------------
(***************************************************************************)
(* One run for the programs of chapter 10 that are a single process: the   *)
(* ones of SignalPrograms, and the timers of 10/23.                        *)
(***************************************************************************)
EXTENDS Timers

CONSTANTS MaxRaised, MaxTyped

VARIABLES family,   \* "signals", "timers"
          program, proc, term, kid, raised

Sig == INSTANCE SignalPrograms

sigVars == <<program, proc, term, kid, raised>>
familyVars == <<family, timerVars, sigVars>>

FamilyInit ==
  /\ family \in {"signals", "timers"}
  /\ TimersInit /\ Sig!Init
  /\ family = "timers" => program = "sleep1"

signals(A) == family = "signals" /\ A /\ UNCHANGED <<family, timerVars>>
timers(A) == family = "timers" /\ A /\ UNCHANGED <<family, sigVars>>

FamilyNext == signals(Sig!Next) \/ timers(TimersNext)

FamilySpec ==
  /\ FamilyInit /\ [][FamilyNext]_familyVars
  /\ WF_familyVars(signals(Sig!Step))
  /\ WF_familyVars(signals(Sig!Strike))
  /\ WF_familyVars(signals(Sig!ChildExits))
  /\ WF_familyVars(timers(apue_alarm))
  /\ WF_familyVars(timers(apue_alarm_handler))
  /\ WF_familyVars(timers(wait_apue_timers))
  /\ WF_familyVars(timers(Tick))

(* A longjmp of 10/5, 10/7 or 10/14 goes to a frame that is still live.    *)
JumpTargetLive == Sig!JumpTargetLive

(* main runs under the mask it has asked for, whatever handlers did.       *)
MainMask == Sig!MainMask

(* What handlers change is restored or kept as main relies on.             *)
HandlersKeepState == Sig!HandlersKeepState

(* No wait of a program of SignalPrograms is missed, and wait_apue_timers  *)
(* of 10/23 returns with every timer run.                                  *)
WaitsEnd == (family = "signals" => Sig!WaitsEnd) /\ WaitReturns
=============================================================================
