------------------------- MODULE SyncProgramsProofs -------------------------
(***************************************************************************)
(* Invariance proofs for SignalSync, for every set of processes and every  *)
(* bound on the number of signals, and what they say of the programs: every*)
(* behaviour of SyncPrograms, for all Programs, is a behaviour of          *)
(* SignalSync, so that what is proved of the library holds in each of them.*)
(***************************************************************************)
EXTENDS SyncPrograms, TLAPS

(* Between TELL_WAIT and TELL_DONE both signals are blocked and caught.    *)
Blocked(p) ==
  /\ step[p] \in ProtectedSteps => mask[p] = Sig
  /\ step[p] \in ProtectedSteps \cup {"usr2", "unmask"} =>
       \A s \in Sig : disp[p][s] = "sig_usr"
  /\ step[p] = "usr1" => disp[p]["SIGUSR1"] = "sig_usr"
  /\ status[p] = "suspended" => step[p] = "presuspend"

(* sigflag is what WAIT has just seen, and an unanswered TELL is visible.  *)
Visible(p) ==
  /\ step[p] = "presuspend" => sigflag[p] = 0
  /\ step[p] = "reset" => sigflag[p] = 1
  /\ step[p] \in {"raw", "usr1", "usr2"} => ~owed[p]
  /\ step[p] \in ProtectedSteps /\ owed[p] /\ Alive(p) =>
       pending[p] # {} \/ (sigflag[p] = 1 /\ step[p] # "reset")

(* Where SIG_DFL may be back, an unblocked pending signal is a stray one.  *)
Harmless(p) ==
  /\ status[p] = "unborn" => pending[p] = {} /\ waits[p] = 0 /\ ~owed[p]
  /\ Alive(p) /\ ~stray[p] /\ step[p] \notin ProtectedSteps \cup {"unmask"} =>
       pending[p] \subseteq mask[p]
  /\ status[p] = "killed" => stray[p]

(* What TELL_WAIT has saved so far, and TELL_DONE restored.                *)
Saved(p) ==
  /\ step[p] \in {"raw", "usr1", "usr2", "unmask", "undo", "done"} =>
       mask[p] = inherited.mask
  /\ step[p] \notin {"raw", "usr1", "usr2"} => saved[p].mask = inherited.mask
  /\ step[p] # "raw" => saved[p].disp["SIGUSR1"] = inherited.disp["SIGUSR1"]
  /\ step[p] \notin {"raw", "usr1"} => saved[p].disp["SIGUSR2"] = inherited.disp["SIGUSR2"]
  /\ step[p] \in {"raw", "undo", "done"} => disp[p]["SIGUSR1"] = inherited.disp["SIGUSR1"]
  /\ step[p] \in {"raw", "usr1", "done"} => disp[p]["SIGUSR2"] = inherited.disp["SIGUSR2"]

Paid(p) == waits[p] + sigflag[p] + bits(pending[p]) <= tells[p]

IInv ==
  /\ TypeOK
  /\ \A p \in Procs : Blocked(p) /\ Visible(p) /\ Harmless(p) /\ Saved(p) /\ Paid(p)

-----------------------------------------------------------------------------
(* What the proof needs of a set of pending signals: its size is the       *)
(* number of its bits, kill adds at most one and delivery that finds       *)
(* something removes at least one.                                         *)
LEMMA PendingBits ==
  ASSUME NEW S \in SUBSET Sig
  PROVE  /\ bits(S) \in Nat
         /\ S = {} => bits(S) = 0
         /\ \A s \in Sig : bits(S \cup {s}) <= bits(S) + 1
         /\ \A D \in SUBSET S : D # {} => bits(S \ D) + 1 <= bits(S)
         /\ \A D \in SUBSET S : bits(S \ D) <= bits(S)
<1>1. ASSUME NEW s \in Sig PROVE bits(S \cup {s}) <= bits(S) + 1
  <2>1. CASE s = "SIGUSR1"
    BY <2>1 DEF bits
  <2>2. CASE s = "SIGUSR2"
    BY <2>2 DEF bits
  <2> QED
    BY <2>1, <2>2, Zenon DEF Sig
<1>2. ASSUME NEW D \in SUBSET S PROVE bits(S \ D) <= bits(S)
  BY DEF bits
<1>3. ASSUME NEW D \in SUBSET S, D # {} PROVE bits(S \ D) + 1 <= bits(S)
  <2>1. PICK d \in D : TRUE
    BY <1>3, Zenon
  <2>2. d \in S /\ d \notin S \ D /\ d \in Sig
    BY <2>1, Zenon
  <2> QED
    BY <2>2 DEF Sig, bits
<1>4. bits(S) \in Nat /\ (S = {} => bits(S) = 0)
  BY DEF bits
<1> QED
  BY <1>1, <1>2, <1>3, <1>4, Zenon

(* Typing of the nested updates of disp and saved.                         *)
LEMMA UpdateDisp ==
  ASSUME NEW A, NEW B, NEW C, NEW f \in [A -> [B -> C]], NEW a \in A, NEW b \in B, NEW c \in C
  PROVE  [f EXCEPT ![a][b] = c] \in [A -> [B -> C]]
BY Zenon

(* Saving one handler in TELL_WAIT changes that handler only.              *)
LEMMA UpdateSavedDisp ==
  ASSUME NEW A, NEW M, NEW B, NEW C, NEW f \in [A -> [mask : M, disp : [B -> C]]],
         NEW a \in A, NEW b \in B, NEW c \in C
  PROVE  [f EXCEPT ![a].disp[b] = c] \in [A -> [mask : M, disp : [B -> C]]]
<1>1. f[a].disp \in [B -> C]
  BY Zenon
<1>2. [f[a].disp EXCEPT ![b] = c] \in [B -> C]
  BY <1>1, Zenon
<1>3. [f[a] EXCEPT !.disp[b] = c] \in [mask : M, disp : [B -> C]]
  BY <1>2, Zenon
<1> QED
  BY <1>3, Zenon

(* The two-field update of an installed handler.                           *)
LEMMA SignalType ==
  ASSUME TypeOK, NEW p \in Procs, NEW s \in Sig, NEW h \in {"SIG_DFL", "SIG_IGN", "sig_usr"},
         apue_signal(p, s, h)
  PROVE  /\ disp' \in [Procs -> [Sig -> {"SIG_DFL", "SIG_IGN", "sig_usr"}]]
         /\ pending' \in [Procs -> SUBSET Sig]
<1>1. disp' \in [Procs -> [Sig -> {"SIG_DFL", "SIG_IGN", "sig_usr"}]]
  BY UpdateDisp DEF TypeOK, apue_signal
<1>2. pending' \in [Procs -> SUBSET Sig]
  BY Zenon DEF TypeOK, apue_signal
<1> QED
  BY <1>1, <1>2, Zenon

(* The inductive invariant holds whatever mask and dispositions the        *)
(* program inherits.                                                       *)
LEMMA InitIInv == Init => IInv
<1> SUFFICES ASSUME Init PROVE IInv
  BY Zenon
<1> USE SignalAssumption DEF Init
<1>1. TypeOK
  BY DEF TypeOK, Sig, Steps, ClientSteps, ProtectedSteps
<1>2. ASSUME NEW p \in Procs
      PROVE Blocked(p) /\ Visible(p) /\ Harmless(p) /\ Saved(p) /\ Paid(p)
  <2>1. bits({}) = 0
    BY DEF bits
  <2>2. Blocked(p) /\ Visible(p)
    BY Zenon DEF Blocked, Visible, ProtectedSteps
  <2>3. Harmless(p)
    BY Zenon DEF Harmless, Alive
  <2>4. Saved(p) 
    BY DEF Saved, Sig
  <2>5. Paid(p)
    BY <2>1 DEF Paid
  <2> QED
    BY <2>2, <2>3, <2>4, <2>5, Zenon
<1> QED
  BY <1>1, <1>2, Zenon DEF IInv

(* The delivery of signals, to a handler or with SIG_DFL, preserves it.    *)
LEMMA DeliverIInv ==
  ASSUME IInv, NEW p \in Procs, Deliver(p), UNCHANGED inherited
  PROVE  IInv'
<1> USE DEF IInv
<1> DEFINE D == Deliverable(p)
<1>1. D \in SUBSET pending[p] /\ D # {} /\ D \in SUBSET Sig
  BY Zenon DEF Deliver, Deliverable, TypeOK
<1>2. TypeOK'
  <2>1. status' \in [Procs -> {"unborn", "running", "suspended", "exited", "killed"}]
    BY SMTT(30) DEF TypeOK, Deliver
  <2>2. step' \in [Procs -> Steps]
    <3>1. "loop" \in Steps
      BY Zenon DEF Steps, ProtectedSteps
    <3>2. step' = step \/ step' = [step EXCEPT ![p] = "loop"]
      BY Zenon DEF Deliver, Goto
    <3> QED
      BY ZenonT(30), <3>1, <3>2 DEF TypeOK
  <2>3. pending' \in [Procs -> SUBSET Sig]
    BY Zenon DEF TypeOK, Deliver
  <2>4. sigflag' \in [Procs -> {0, 1}]
    BY Zenon DEF TypeOK, Deliver, sig_usr
  <2> QED
    BY <2>1, <2>2, <2>3, <2>4, Zenon DEF TypeOK, Deliver, histVars
<1>3. ASSUME NEW q \in Procs, q # p
      PROVE  (Blocked(q) /\ Visible(q) /\ Harmless(q) /\ Saved(q) /\ Paid(q))'
  BY <1>3
      DEF Deliver, sig_usr, Goto, histVars, TypeOK, Blocked, Visible, Harmless, Saved,
      Paid, Alive
<1>4. Blocked(p)'
  BY <1>1
      DEF Deliver, sig_usr, Goto, histVars, TypeOK, Blocked, Alive, Deliverable,
      ProtectedSteps
<1>5. Visible(p)'
  <2>1. CASE status[p] = "suspended"
    <3>1. step[p] = "presuspend" /\ \A s \in D : disp[p][s] = "sig_usr"
      BY <1>1, <2>1, Zenon DEF Blocked, ProtectedSteps
    <3>2. step'[p] = "loop" /\ sigflag'[p] = 1
      BY SMTT(60), <1>1, <2>1, <3>1 DEF Deliver, sig_usr, Goto, TypeOK
    <3> QED
      BY <3>2, Zenon DEF Visible
  <2>2. CASE status[p] = "running"
    <3>1. step[p] \notin ProtectedSteps
      BY <1>1, <2>2 DEF Blocked, Deliverable
    <3>2. step'[p] = step[p] /\ owed'[p] = owed[p]
      BY <1>1, <2>2, Zenon DEF Deliver, sig_usr, Goto, TypeOK, histVars
    <3> QED
      BY <3>1, <3>2, Zenon DEF Visible, ProtectedSteps
  <2> QED
    BY <2>1, <2>2, Zenon DEF Deliver, Alive
<1>6. Harmless(p)'
  <2>1. ASSUME \E s \in D : disp[p][s] = "SIG_DFL" PROVE stray[p]
    <3>1. step[p] \notin ProtectedSteps \cup {"unmask"}
      BY <1>1, <2>1, Zenon DEF Blocked
    <3>2. status[p] = "running" /\ ~(pending[p] \subseteq mask[p])
      BY <1>1, <3>1, Zenon DEF Blocked, ProtectedSteps, Deliver, Deliverable, Alive
    <3> QED
      BY <3>1, <3>2, Zenon DEF Harmless, Alive, TypeOK
  <2>2. step[p] = "presuspend" => step[p] \in ProtectedSteps
    BY Zenon DEF ProtectedSteps
  <2>3. "loop" \in ProtectedSteps
    BY Zenon DEF ProtectedSteps
  <2>4. /\ stray'[p] = stray[p] /\ mask'[p] = mask[p] /\ pending'[p] = pending[p] \ D
        /\ status[p] # "unborn" /\ status[p] # "killed"
        /\ status'[p] = "killed" => \E s \in D : disp[p][s] = "SIG_DFL"
        /\ status'[p] # "unborn" /\ (step'[p] = step[p] \/ step'[p] = "loop")
    BY Zenon DEF Deliver, sig_usr, Goto, histVars, TypeOK, Alive
  <2>5. Alive(p)
    BY Zenon DEF Deliver
  <2> HIDE DEF D
  <2> QED
    BY <2>1, <2>3, <2>4, <2>5, Zenon DEF Harmless
<1>7. Saved(p)'
  BY SMTT(60), <1>1
      DEF Deliver, sig_usr, Goto, histVars, TypeOK, Blocked, Saved, ProtectedSteps
<1>8. Paid(p)'
  <2>1. bits(pending[p]) \in Nat /\ bits(pending[p] \ D) + 1 <= bits(pending[p])
    BY Zenon, <1>1, PendingBits DEF TypeOK
  <2>2. bits(pending[p] \ D) \in Nat
    BY PendingBits, Zenon DEF TypeOK
  <2>3. pending'[p] = pending[p] \ D /\ waits'[p] = waits[p] /\ tells'[p] = tells[p]
        /\ sigflag'[p] \in {0, 1}
    BY <1>2, Zenon DEF Deliver, sig_usr, TypeOK, histVars
  <2>4. waits[p] \in Nat /\ tells[p] \in Nat /\ sigflag[p] \in {0, 1}
        /\ waits[p] + sigflag[p] + bits(pending[p]) <= tells[p]
    BY Zenon DEF TypeOK, Paid
  <2> HIDE DEF D
  <2> QED
    BY <2>1, <2>2, <2>3, <2>4 DEF Paid
<1> QED
  BY Zenon, <1>2, <1>3, <1>4, <1>5, <1>6, <1>7, <1>8

(* The exit of a process preserves it.                                     *)
LEMMA ExitIInv ==
  ASSUME IInv, NEW p \in Procs, Exit(p), UNCHANGED inherited
  PROVE  IInv'
<1> USE DEF IInv
<1>1. TypeOK'
  BY Zenon DEF TypeOK, Exit, InClient, kernelVars, histVars, Steps, ClientSteps,
      ProtectedSteps, Sig
<1>2. ASSUME NEW q \in Procs, q # p
      PROVE  (Blocked(q) /\ Visible(q) /\ Harmless(q) /\ Saved(q) /\ Paid(q))'
  BY <1>2
      DEF Exit, InClient, kernelVars, histVars, TypeOK, Blocked, Visible, Harmless,
      Saved, Paid, Alive
<1>3. Blocked(p)'
  BY DEF Exit, InClient, kernelVars, histVars, TypeOK, Blocked, Runs, ProtectedSteps, Sig
<1>4. Visible(p)'
  BY Zenon DEF Exit, InClient, kernelVars, histVars, TypeOK, Visible, Blocked, Runs, Alive,
      ProtectedSteps
<1>5. Harmless(p)'
  BY Zenon DEF Exit, InClient, kernelVars, histVars, TypeOK, Harmless, Runs, Alive,
      Deliverable, ProtectedSteps
<1>6. Saved(p)'
  BY Zenon DEF Exit, InClient, kernelVars, histVars, TypeOK, Saved, Runs, ProtectedSteps, Sig
<1>7. Paid(p)'
  BY Zenon DEF Exit, InClient, kernelVars, histVars, TypeOK, Paid, Visible, Runs
<1> QED
  BY Zenon, <1>1, <1>2, <1>3, <1>4, <1>5, <1>6, <1>7

(* The test of sigflag in WAIT preserves it.                               *)
LEMMA WaitTestIInv ==
  ASSUME IInv, NEW p \in Procs, WaitTest(p), UNCHANGED inherited
  PROVE  IInv'
<1> USE DEF IInv
<1>1. TypeOK'
  BY Zenon DEF TypeOK, WaitTest, Goto, kernelVars, Steps, ClientSteps, ProtectedSteps, Sig
<1>2. ASSUME NEW q \in Procs, q # p
      PROVE  (Blocked(q) /\ Visible(q) /\ Harmless(q) /\ Saved(q) /\ Paid(q))'
  BY <1>2
      DEF WaitTest, Goto, kernelVars, TypeOK, Blocked, Visible, Harmless, Saved, Paid,
      Alive
<1>3. Blocked(p)'
  BY Zenon DEF WaitTest, Goto, kernelVars, TypeOK, Blocked, Runs, ProtectedSteps, Sig
<1>4. Visible(p)'
  <2>1. CASE sigflag[p] = 0
    BY Zenon, <2>1
        DEF WaitTest, Goto, kernelVars, TypeOK, Visible, Runs, Alive, ProtectedSteps
  <2>2. CASE sigflag[p] = 1
    BY Zenon, <2>2
        DEF WaitTest, Goto, kernelVars, TypeOK, Visible, Runs, Alive, ProtectedSteps
  <2> QED
    BY <2>1, <2>2, Zenon DEF TypeOK
<1>5. Harmless(p)'
  BY Zenon DEF WaitTest, Goto, kernelVars, TypeOK, Harmless, Runs, Alive, Deliverable,
      ProtectedSteps
<1>6. Saved(p)'
  BY Zenon DEF WaitTest, Goto, kernelVars, TypeOK, Saved
<1>7. Paid(p)'
  BY Zenon DEF WaitTest, Goto, kernelVars, TypeOK, Paid, Visible, Runs
<1> QED
  BY Zenon, <1>1, <1>2, <1>3, <1>4, <1>5, <1>6, <1>7

(* Going to sleep in sigsuspend preserves it.                              *)
LEMMA WaitSuspendIInv ==
  ASSUME IInv, NEW p \in Procs, WaitSuspend(p), UNCHANGED inherited
  PROVE  IInv'
<1> USE DEF IInv
<1>1. TypeOK'
  BY Zenon DEF TypeOK, WaitSuspend, kernelVars, histVars, Steps, ClientSteps, ProtectedSteps, Sig
<1>2. ASSUME NEW q \in Procs, q # p
      PROVE  (Blocked(q) /\ Visible(q) /\ Harmless(q) /\ Saved(q) /\ Paid(q))'
  BY <1>2
      DEF WaitSuspend, kernelVars, histVars, TypeOK, Blocked, Visible, Harmless, Saved,
      Paid, Alive
<1>3. Blocked(p)'
  BY Zenon DEF WaitSuspend, kernelVars, histVars, TypeOK, Blocked, Runs, ProtectedSteps, Sig
<1>4. Visible(p)'
  BY Zenon DEF WaitSuspend, kernelVars, histVars, TypeOK, Visible, Blocked, Runs, Alive,
      ProtectedSteps
<1>5. Harmless(p)'
  BY Zenon DEF WaitSuspend, kernelVars, histVars, TypeOK, Harmless, Runs, Alive, Deliverable,
      ProtectedSteps
<1>6. Saved(p)'
  BY Zenon DEF WaitSuspend, kernelVars, histVars, TypeOK, Saved, Runs, ProtectedSteps, Sig
<1>7. Paid(p)'
  BY Zenon DEF WaitSuspend, kernelVars, histVars, TypeOK, Paid, Visible, Runs
<1> QED
  BY <1>1, <1>2, <1>3, <1>4, <1>5, <1>6, <1>7, Zenon

(* The reset of sigflag in WAIT preserves it.                              *)
LEMMA WaitResetIInv ==
  ASSUME IInv, NEW p \in Procs, WaitReset(p), UNCHANGED inherited
  PROVE  IInv'
<1> USE DEF IInv
<1>1. TypeOK'
  BY SMTT(60)
      DEF TypeOK, WaitReset, Goto, kernelVars, Steps, ClientSteps, ProtectedSteps, Sig
<1>2. ASSUME NEW q \in Procs, q # p
      PROVE  (Blocked(q) /\ Visible(q) /\ Harmless(q) /\ Saved(q) /\ Paid(q))'
  BY <1>2
      DEF WaitReset, Goto, kernelVars, TypeOK, Blocked, Visible, Harmless, Saved, Paid,
      Alive
<1>3. Blocked(p)'
  BY Zenon DEF WaitReset, Goto, kernelVars, TypeOK, Blocked, Runs, ProtectedSteps, Sig
<1>4. Visible(p)'
  BY DEF WaitReset, Goto, kernelVars, TypeOK, Visible, Blocked, Runs, Alive, ProtectedSteps
<1>5. Harmless(p)'
  BY Zenon DEF WaitReset, Goto, kernelVars, TypeOK, Harmless, Runs, Alive, Deliverable,
      ProtectedSteps
<1>6. Saved(p)'
  BY Zenon DEF WaitReset, Goto, kernelVars, TypeOK, Saved, Runs, ProtectedSteps, Sig
<1>7. Paid(p)'
  BY SMTT(30) DEF WaitReset, Goto, kernelVars, TypeOK, Paid, Visible, Runs
<1> QED
  BY Zenon, <1>1, <1>2, <1>3, <1>4, <1>5, <1>6, <1>7

(* The three system calls of TELL_WAIT preserve it.                        *)
LEMMA TellWaitIInv ==
  ASSUME IInv, NEW p \in Procs, TELL_WAIT_SIGNAL(p), UNCHANGED inherited
  PROVE  IInv'
<1> USE DEF IInv
<1>1. TypeOK'
  <2>1. "SIGUSR1" \in Sig /\ "SIGUSR2" \in Sig
    BY Zenon DEF Sig
  <2>2. {"usr1", "usr2", "ready"} \subseteq Steps
    BY Zenon DEF Steps, ClientSteps
  <2> DEFINE Others == status' = status /\ sigflag' = sigflag /\ owed' = owed
                       /\ tells' = tells /\ waits' = waits /\ stray' = stray
  <2>3. Others
    BY Zenon DEF TELL_WAIT_SIGNAL, histVars
  <2>4. CASE step[p] = "raw"
    <3>1. /\ saved' = [saved EXCEPT ![p].disp["SIGUSR1"] = disp[p]["SIGUSR1"]]
          /\ apue_signal(p, "SIGUSR1", "sig_usr") /\ Goto(p, "usr1") /\ mask' = mask
      BY <2>4, Zenon DEF TELL_WAIT_SIGNAL
    <3>2. disp[p]["SIGUSR1"] \in {"SIG_DFL", "SIG_IGN"}
      BY <2>1, <2>4, Zenon DEF TypeOK, Saved
    <3>3. saved' \in [Procs -> [mask : SUBSET Sig, disp : [Sig -> {"SIG_DFL", "SIG_IGN"}]]]
      BY Zenon, <2>1, <3>1, <3>2, UpdateSavedDisp DEF TypeOK
    <3>4. /\ disp' \in [Procs -> [Sig -> {"SIG_DFL", "SIG_IGN", "sig_usr"}]]
          /\ pending' \in [Procs -> SUBSET Sig]
      BY <2>1, <3>1, SignalType, Zenon
    <3>5. step' \in [Procs -> Steps]
      BY <2>2, <3>1, Zenon DEF Goto, TypeOK
    <3> QED
      BY Zenon, <2>3, <3>1, <3>3, <3>4, <3>5 DEF TypeOK
  <2>5. CASE step[p] = "usr1"
    <3>1. /\ saved' = [saved EXCEPT ![p].disp["SIGUSR2"] = disp[p]["SIGUSR2"]]
          /\ apue_signal(p, "SIGUSR2", "sig_usr") /\ Goto(p, "usr2") /\ mask' = mask
      BY <2>5, Zenon DEF TELL_WAIT_SIGNAL
    <3>2. disp[p]["SIGUSR2"] \in {"SIG_DFL", "SIG_IGN"}
      BY <2>1, <2>5, Zenon DEF TypeOK, Saved
    <3>3. saved' \in [Procs -> [mask : SUBSET Sig, disp : [Sig -> {"SIG_DFL", "SIG_IGN"}]]]
      BY Zenon, <2>1, <3>1, <3>2, UpdateSavedDisp DEF TypeOK
    <3>4. /\ disp' \in [Procs -> [Sig -> {"SIG_DFL", "SIG_IGN", "sig_usr"}]]
          /\ pending' \in [Procs -> SUBSET Sig]
      BY <2>1, <3>1, SignalType, Zenon
    <3>5. step' \in [Procs -> Steps]
      BY <2>2, <3>1, Zenon DEF Goto, TypeOK
    <3> QED
      BY Zenon, <2>3, <3>1, <3>3, <3>4, <3>5 DEF TypeOK
  <2>6. CASE step[p] = "usr2"
    <3>1. /\ saved' = [saved EXCEPT ![p].mask = mask[p]]
          /\ mask' = [mask EXCEPT ![p] = @ \cup newmask]
          /\ Goto(p, "ready") /\ disp' = disp /\ pending' = pending
      BY <2>6, Zenon DEF TELL_WAIT_SIGNAL
    <3>2. saved' \in [Procs -> [mask : SUBSET Sig, disp : [Sig -> {"SIG_DFL", "SIG_IGN"}]]]
      <4>1. mask[p] \in SUBSET Sig
        BY Zenon DEF TypeOK
      <4>2. [saved[p] EXCEPT !.mask = mask[p]]
              \in [mask : SUBSET Sig, disp : [Sig -> {"SIG_DFL", "SIG_IGN"}]]
        BY Zenon, <4>1 DEF TypeOK
      <4> QED
        BY Zenon, <3>1, <4>2 DEF TypeOK
    <3>3. mask' \in [Procs -> SUBSET Sig]
      BY <3>1, Zenon DEF TypeOK, newmask, Sig
    <3>4. step' \in [Procs -> Steps]
      BY <2>2, <3>1, Zenon DEF Goto, TypeOK
    <3> QED
      BY Zenon, <2>3, <3>1, <3>2, <3>3, <3>4 DEF TypeOK
  <2> QED
    BY <2>4, <2>5, <2>6, Zenon DEF TELL_WAIT_SIGNAL
<1>2. ASSUME NEW q \in Procs, q # p
      PROVE  (Blocked(q) /\ Visible(q) /\ Harmless(q) /\ Saved(q) /\ Paid(q))'
  BY <1>2
      DEF TELL_WAIT_SIGNAL, newmask, apue_signal, Goto, histVars, TypeOK, Blocked,
      Visible, Harmless, Saved, Paid, Alive
<1>3. Blocked(p)'
  BY DEF TELL_WAIT_SIGNAL, newmask, apue_signal, Goto, histVars, TypeOK, Blocked, Runs,
      ProtectedSteps, Sig
<1>4. Visible(p)'
  BY DEF TELL_WAIT_SIGNAL, newmask, apue_signal, Goto, histVars, TypeOK, Visible,
      Blocked, Runs, Alive, ProtectedSteps
<1>5. Harmless(p)'
  BY DEF TELL_WAIT_SIGNAL, newmask, apue_signal, Goto, histVars, TypeOK, Harmless,
      Runs, Alive, Deliverable, ProtectedSteps
<1>6. Saved(p)'
  BY SMTT(60)
      DEF TELL_WAIT_SIGNAL, newmask, apue_signal, Goto, histVars, TypeOK, Saved, Runs,
      ProtectedSteps, Sig
<1>7. Paid(p)'
  BY Zenon DEF TELL_WAIT_SIGNAL, newmask, apue_signal, Goto, histVars, TypeOK, Paid, Visible, Runs
<1> QED
  BY Zenon, <1>1, <1>2, <1>3, <1>4, <1>5, <1>6, <1>7

(* The three system calls of TELL_DONE preserve it.                        *)
LEMMA TellDoneIInv ==
  ASSUME IInv, NEW p \in Procs, TELL_DONE_SIGNAL(p), UNCHANGED inherited
  PROVE  IInv'
<1> USE DEF IInv
<1>1. TypeOK'
  <2>1. step' \in [Procs -> Steps]
    <3>1. {"unmask", "undo", "done"} \subseteq Steps
      BY Zenon DEF Steps, ClientSteps
    <3>2. \E s \in {"unmask", "undo", "done"} : step' = [step EXCEPT ![p] = s]
      BY Zenon DEF TELL_DONE_SIGNAL, Goto
    <3> QED
      BY <3>1, <3>2 DEF TypeOK
  <2>2. mask' \in [Procs -> SUBSET Sig]
    BY ZenonT(30) DEF TypeOK, TELL_DONE_SIGNAL, restored
  <2>3. "SIGUSR1" \in Sig /\ "SIGUSR2" \in Sig
    BY Zenon DEF Sig
  <2>4. \A s \in Sig : saved[p].disp[s] \in {"SIG_DFL", "SIG_IGN", "sig_usr"}
    BY DEF TypeOK
  <2>5. /\ disp' \in [Procs -> [Sig -> {"SIG_DFL", "SIG_IGN", "sig_usr"}]]
        /\ pending' \in [Procs -> SUBSET Sig]
    <3>1. CASE step[p] = "ready"
      BY <3>1, Zenon DEF TypeOK, TELL_DONE_SIGNAL
    <3>2. CASE step[p] \in {"unmask", "undo"}
      BY <2>3, <2>4, <3>2, SignalType, Zenon DEF TELL_DONE_SIGNAL
    <3> QED
      BY <3>1, <3>2, Zenon DEF TELL_DONE_SIGNAL
  <2> QED
    BY <2>1, <2>2, <2>5, Zenon DEF TypeOK, TELL_DONE_SIGNAL, histVars
<1>2. ASSUME NEW q \in Procs, q # p
      PROVE  (Blocked(q) /\ Visible(q) /\ Harmless(q) /\ Saved(q) /\ Paid(q))'
  BY SMTT(60), <1>2
      DEF TELL_DONE_SIGNAL, restored, apue_signal, Goto, histVars, TypeOK, Blocked,
      Visible, Harmless, Saved, Paid, Alive
<1>3. Blocked(p)'
  BY SMTT(60)
      DEF TELL_DONE_SIGNAL, restored, apue_signal, Goto, histVars, TypeOK, Blocked,
      Runs, ProtectedSteps, Sig
<1>4. Visible(p)'
  BY SMTT(60)
      DEF TELL_DONE_SIGNAL, restored, apue_signal, Goto, histVars, TypeOK, Visible,
      Blocked, Runs, Alive, ProtectedSteps
<1>5. Harmless(p)'
  BY SMTT(60)
      DEF TELL_DONE_SIGNAL, restored, apue_signal, Goto, histVars, TypeOK, Harmless,
      Runs, Alive, Deliverable, ProtectedSteps
<1>6. Saved(p)'
  BY SMTT(60)
      DEF TELL_DONE_SIGNAL, restored, apue_signal, Goto, histVars, TypeOK, Saved, Runs,
      ProtectedSteps, Sig
<1>7. Paid(p)'
  <2>1. PICK D \in SUBSET pending[p] : pending'[p] = pending[p] \ D
    <3>1. pending'[p] \subseteq pending[p]
      BY DEF TELL_DONE_SIGNAL, restored, apue_signal, TypeOK
    <3> QED
      BY Zenon, <3>1, pending'[p] = pending[p] \ (pending[p] \ pending'[p])
  <2>2. bits(pending[p]) \in Nat /\ bits(pending'[p]) \in Nat
        /\ bits(pending'[p]) <= bits(pending[p])
    BY Zenon, <1>1, <2>1, PendingBits DEF TypeOK
  <2>3. waits[p] + sigflag[p] + bits(pending[p]) <= tells[p]
        /\ waits[p] \in Nat /\ tells[p] \in Nat /\ sigflag[p] \in {0, 1}
    BY Zenon DEF Paid, TypeOK
  <2>4. waits'[p] = waits[p] /\ tells'[p] = tells[p] /\ sigflag'[p] = sigflag[p]
    BY Zenon DEF TELL_DONE_SIGNAL, histVars
  <2>5. waits'[p] + sigflag'[p] + bits(pending'[p]) <= tells'[p]
    <3> HIDE DEF IInv
    <3> QED
      BY <2>2, <2>3, <2>4
  <2> QED
    BY <2>5, Zenon DEF Paid
<1> QED
  BY Zenon, <1>1, <1>2, <1>3, <1>4, <1>5, <1>6, <1>7

(* A TELL preserves it, wherever the process it is sent to is.             *)
LEMMA TellIInv ==
  ASSUME IInv, NEW p \in Procs, NEW q \in Procs, NEW s \in Sig,
         Tell(p, q, s), UNCHANGED inherited
  PROVE  IInv'
<1> USE DEF IInv
<1>1. TypeOK'
  BY SMTT(60) DEF TypeOK, Tell
<1>2. ASSUME NEW r \in Procs, r # q
      PROVE  (Blocked(r) /\ Visible(r) /\ Harmless(r) /\ Saved(r) /\ Paid(r))'
  BY SMTT(60), <1>2 DEF Tell, TypeOK, Blocked, Visible, Harmless, Saved, Paid, Alive
<1>3. Blocked(q)' /\ Saved(q)'
  BY DEF Tell, TypeOK, Blocked, Saved
<1>4. Visible(q)'
  BY Zenon DEF Tell, TypeOK, Visible, Alive, ProtectedSteps
<1>5. Harmless(q)'
  BY Zenon DEF Tell, TypeOK, Harmless, Alive, ProtectedSteps
<1>6. Paid(q)'
  <2>1. bits(pending[q]) \in Nat /\ bits(pending[q] \cup {s}) \in Nat
        /\ bits(pending[q] \cup {s}) <= bits(pending[q]) + 1
    BY PendingBits, Zenon DEF TypeOK
  <2>2. pending'[q] \in {pending[q], pending[q] \cup {s}} /\ tells'[q] = tells[q] + 1
        /\ waits'[q] = waits[q] /\ sigflag'[q] = sigflag[q]
    BY Zenon DEF Tell, TypeOK
  <2>3. waits[q] + sigflag[q] + bits(pending[q]) <= tells[q]
        /\ waits[q] \in Nat /\ tells[q] \in Nat /\ sigflag[q] \in {0, 1}
    BY Zenon DEF Paid, TypeOK
  <2>4. bits(pending'[q]) \in Nat
        /\ bits(pending'[q]) <= bits(pending[q]) + 1
    <3>1. CASE pending'[q] = pending[q]
      BY SMTT(60), <2>1, <3>1
    <3>2. CASE pending'[q] = pending[q] \cup {s}
      BY <2>1, <3>2, Zenon
    <3> QED
      BY <2>2, <3>1, <3>2, Zenon
  <2>5. waits'[q] + sigflag'[q] + bits(pending'[q]) <= tells'[q]
    <3> HIDE DEF IInv
    <3> QED
      BY <2>1, <2>2, <2>3, <2>4
  <2> QED
    BY Zenon, <2>5 DEF Paid
<1> QED
  BY Zenon, <1>1, <1>2, <1>3, <1>4, <1>5, <1>6

(* A fork between two calls of the library preserves it.                   *)
LEMMA ForkIInv ==
  ASSUME IInv, NEW p \in Procs, NEW c \in Procs, Fork(p, c), UNCHANGED inherited
  PROVE  IInv'
<1> USE DEF IInv
<1>1. TypeOK'
  <2>1. status' \in [Procs -> {"unborn", "running", "suspended", "exited", "killed"}]
        /\ step' \in [Procs -> Steps] /\ sigflag' \in [Procs -> {0, 1}]
    BY Zenon DEF TypeOK, Fork
  <2>2. mask' \in [Procs -> SUBSET Sig] /\ pending' \in [Procs -> SUBSET Sig]
    BY Zenon DEF TypeOK, Fork
  <2>3. disp' \in [Procs -> [Sig -> {"SIG_DFL", "SIG_IGN", "sig_usr"}]]
    BY Zenon DEF TypeOK, Fork
  <2>4. saved' \in [Procs -> [mask : SUBSET Sig, disp : [Sig -> {"SIG_DFL", "SIG_IGN"}]]]
    BY Zenon DEF TypeOK, Fork
  <2>5. tells' \in [Procs -> Nat]
    <3>1. sigflag[p] \in {0, 1}
      BY Zenon DEF TypeOK
    <3> QED
      BY <3>1 DEF TypeOK, Fork
  <2> QED
    BY <2>1, <2>2, <2>3, <2>4, <2>5, Zenon DEF TypeOK, Fork
<1>2. ASSUME NEW r \in Procs, r # c
      PROVE  (Blocked(r) /\ Visible(r) /\ Harmless(r) /\ Saved(r) /\ Paid(r))'
  BY <1>2 DEF Fork, TypeOK, Blocked, Visible, Harmless, Saved, Paid, Alive
<1>3. c # p
  BY Zenon DEF Fork, InClient, Runs
<1>4. Blocked(c)' /\ Saved(c)'
  BY SMTT(60), <1>3 DEF Fork, InClient, Runs, TypeOK, Blocked, Saved
<1>5. Visible(c)'
  BY <1>3, Zenon DEF Fork, InClient, TypeOK, Visible, Harmless, ClientSteps
<1>6. Harmless(c)'
  BY <1>3, Zenon DEF Fork, TypeOK, Harmless
<1>7. Paid(c)'
  <2>1. pending'[c] = {} /\ bits({}) = 0
    BY SMTT(60) DEF Fork, TypeOK, bits
  <2>2. waits'[c] = 0 /\ sigflag'[c] = sigflag[p] /\ tells'[c] = sigflag[p]
        /\ sigflag[p] \in {0, 1}
    BY Zenon DEF Fork, Harmless, TypeOK
  <2> QED
    BY SMTT(60), <2>1, <2>2 DEF Paid
<1> QED
  BY Zenon, <1>1, <1>2, <1>4, <1>5, <1>6, <1>7

(* The inductive step, one case per action of Next.                        *)
LEMMA NextIInv == IInv /\ [Next]_vars => IInv'
<1> SUFFICES ASSUME IInv, [Next]_vars PROVE IInv'
  BY Zenon
<1>1. CASE UNCHANGED vars
  BY SMTT(60), <1>1 DEF vars, IInv, TypeOK, Blocked, Visible, Harmless, Saved, Paid, Alive
<1>2. CASE Next
  <2>1. UNCHANGED inherited
    BY <1>2, Zenon DEF Next
  <2>2. PICK p \in Procs :
          \/ Deliver(p) \/ TELL_WAIT_SIGNAL(p) \/ WAIT_SIGNAL(p) \/ TELL_DONE_SIGNAL(p)
          \/ Exit(p)
          \/ \E q \in Procs :
               Fork(p, q) \/ TELL_PARENT_SIGNAL(p, q) \/ TELL_CHILD_SIGNAL(p, q)
    BY <1>2, Zenon DEF Next
  <2>3. ASSUME NEW q \in Procs, TELL_PARENT_SIGNAL(p, q) \/ TELL_CHILD_SIGNAL(p, q)
        PROVE  IInv'
    <3>1. "SIGUSR1" \in Sig /\ "SIGUSR2" \in Sig
      BY Zenon DEF Sig
    <3> QED
      BY <2>1, <2>3, <3>1, TellIInv, Zenon DEF TELL_PARENT_SIGNAL, TELL_CHILD_SIGNAL
  <2> QED
    BY Zenon, <2>1, <2>2, <2>3, DeliverIInv, TellWaitIInv, TellDoneIInv, ExitIInv, ForkIInv,
       WaitTestIInv, WaitSuspendIInv, WaitResetIInv DEF WAIT_SIGNAL
<1> QED
  BY <1>1, <1>2, Zenon

(* The inductive invariant holds in every state of the library of          *)
(* lib/apue_ipc_signal.cpp under any client: signals are blocked and       *)
(* caught between TELL_WAIT and TELL_DONE, and a TELL that WAIT has not    *)
(* answered is visible to it.                                              *)
THEOREM Invariance == Spec => []IInv
BY InitIInv, NextIInv, PTL DEF Spec

(* Every variable of the library and the kernel keeps its type.            *)
THEOREM TypeCorrect == Spec => []TypeOK
BY Invariance, PTL DEF IInv

(* No process sleeps in sigsuspend through a TELL sent to it: the wait     *)
(* loop of lib/apue_ipc_signal.cpp loses no wakeup, for any clients.       *)
THEOREM WakeupNotLost == Spec => []NoLostWakeup
<1>1. IInv => NoLostWakeup
  <2> SUFFICES ASSUME IInv, NEW p \in Procs, status[p] = "suspended", owed[p]
               PROVE  pending[p] # {}
    BY Zenon DEF NoLostWakeup
  <2>1. Blocked(p) /\ Visible(p)
    BY Zenon DEF IInv
  <2>2. step[p] = "presuspend" /\ sigflag[p] = 0
    BY Zenon, <2>1 DEF Blocked, Visible
  <2> QED
    BY <2>1, <2>2 DEF Visible, Alive, ProtectedSteps
<1> QED
  BY <1>1, Invariance, PTL

(* WAIT returns at most once per TELL, for any clients.                    *)
THEOREM WaitPaidByTell == Spec => []NoSpuriousWait
<1>1. IInv => NoSpuriousWait
  BY Zenon DEF IInv, NoSpuriousWait, Paid
<1> QED
  BY <1>1, Invariance, PTL

(* TELL_DONE restores the mask before the handlers, so that no TELL sent   *)
(* within the protocol ends a process.                                     *)
THEOREM ProtocolNeverKills == Spec => []NoKillInProtocol
<1>1. IInv => NoKillInProtocol
  BY Zenon DEF IInv, NoKillInProtocol, Harmless
<1> QED
  BY <1>1, Invariance, PTL

(* TELL_DONE undoes TELL_WAIT, across forks.                               *)
THEOREM DoneIsUndo == Spec => []DoneRestores
<1>1. IInv => DoneRestores
  <2> SUFFICES ASSUME IInv, NEW p \in Procs, step[p] = "done"
               PROVE  mask[p] = inherited.mask /\ disp[p] = inherited.disp
                      /\ inherited = [mask |-> inherited.mask, disp |-> inherited.disp]
    BY Zenon DEF DoneRestores
  <2>1. mask[p] = inherited.mask
    BY Zenon DEF IInv, Saved
  <2>2. \A s \in Sig : disp[p][s] = inherited.disp[s]
    BY Zenon DEF IInv, Saved, Sig
  <2>3. disp[p] = inherited.disp
    BY SMTT(30), <2>2 DEF IInv, TypeOK
  <2> QED
    BY <2>1, <2>3, Zenon DEF IInv, TypeOK
<1> QED
  BY <1>1, Invariance, PTL

-----------------------------------------------------------------------------
(* What runs is one of the programs, to the end.                           *)
LEMMA SameProgram ==
  /\ PInit => program \in DOMAIN Programs
  /\ [PNext]_allVars => program' = program
BY Zenon DEF PInit, PNext, allVars, progVars, Step, SignalDelivery

(* A step of a process is a step of the library or leaves it alone.        *)
LEMMA StepIsLibraryStep ==
  ASSUME NEW p \in Procs, program \in DOMAIN Programs, Step(p)
  PROVE  [Next]_vars
<1>1. UNCHANGED inherited
  BY Zenon DEF Step
<1>2. CASE LibraryCall(p)
  <2>1. Op(p) \in {"fork", "TELL_PARENT", "TELL_CHILD"} => Arg(p) \in Procs
    BY ProgramsAssumption, Zenon DEF Step, Op, Arg, Script
  <2> QED
    BY <1>1, <1>2, <2>1, Zenon DEF LibraryCall, Next
<1>3. ASSUME NEW c, Leave(p, c) PROVE Next
  BY <1>1, <1>3, Zenon DEF Leave, Next
<1>4. ASSUME NEW ok, Return(p, ok) PROVE [Next]_vars
  BY <1>3, <1>4, Zenon DEF Return
<1>5. CASE exit(p) \/ wait(p) \/ FileCall(p) \/ MemoryCall(p) \/ putc(p)
  BY <1>3, <1>4, <1>5, Zenon DEF exit, wait, FileCall, MemoryCall, putc
<1>6. CASE LockCall(p)
  BY <1>3, <1>4, <1>6, Zenon DEF LockCall
<1> QED
  BY <1>2, <1>5, <1>6, Zenon DEF Step

(* The composed programs implement the library's specification: they call  *)
(* it only where SignalSync lets a client call it, and nothing else they   *)
(* do touches the signal state.                                            *)
THEOREM ProgramsUseLibrary == PSpec => Spec
<1>1. PInit => Init
  BY Zenon DEF PInit
<1>2. program \in DOMAIN Programs /\ [PNext]_allVars => [Next]_vars
  <2> SUFFICES ASSUME program \in DOMAIN Programs, [PNext]_allVars PROVE [Next]_vars
    BY Zenon
  <2>1. CASE UNCHANGED allVars
    BY <2>1, Zenon DEF allVars
  <2>2. ASSUME NEW p \in Procs, SignalDelivery(p) PROVE Next
    BY <2>2, Zenon DEF SignalDelivery, Next
  <2> QED
    BY <2>1, <2>2, StepIsLibraryStep, Zenon DEF PNext
<1>3. program \in DOMAIN Programs /\ [PNext]_allVars => (program \in DOMAIN Programs)'
  BY SameProgram, Zenon
<1> QED
  BY <1>1, <1>2, <1>3, SameProgram, PTL DEF PSpec, Spec

(* In none of the programs does a process sleep through a TELL.            *)
THEOREM ProgramsLoseNoWakeup == PSpec => []NoLostWakeup
BY ProgramsUseLibrary, WakeupNotLost, Zenon

(* In none of the programs does a TELL sent within the protocol kill.      *)
THEOREM ProgramsNeverKilled == PSpec => []NoKillInProtocol
BY ProgramsUseLibrary, ProtocolNeverKills, Zenon
=============================================================================
