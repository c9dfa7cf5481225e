---------------------------- MODULE FooTableSteps ----------------------------
(***************************************************************************)
(* The inductive invariant of FooTable and the steps that preserve it      *)
(* whatever the number of references is; FooTableProofs has the steps that *)
(* count, the removal of an object and the theorems.                       *)
(***************************************************************************)
EXTENDS FooTable, Functions, TLAPS

Creating == {"create_lock", "create_insert"}
Finding == {"find", "find_walk"}
Dropping == {"rele", "rele_lock", "rele_test", "rele_hashlock", "rele_relock", "rele_recheck"}
Ending == {"rele_unlock", "rele_destroy"}

(* Where a thread has hashlock, and where the lock of its object. A hold   *)
(* that was called by find, and not through a reference, has both.         *)
HasHashlock(t) ==
  \/ pc[t] \in {"create_insert", "find_walk", "rele_relock", "rele_recheck"}
  \/ pc[t] \in HoldSteps /\ via[t] = None
HasLock(t) == pc[t] \in {"hold_count", "rele_test", "rele_recheck", "rele_unlock"}

Owners ==
  \A t \in Threads :
    /\ hashlock = t <=> HasHashlock(t)
    /\ \A o \in Objs : lock[o] = t <=> HasLock(t) /\ obj[t] = o

(* What a thread knows of its object at each step of a call.               *)
Call(t) ==
  /\ pc[t] \in {"idle"} \cup Creating \cup Finding \cup HoldSteps \cup Dropping \cup Ending
  /\ pc[t] = "idle" => obj[t] = None /\ tok[t] = None /\ via[t] = None
  /\ pc[t] # "idle" => tok[t] \in Refs
  /\ pc[t] \notin HoldSteps => via[t] = None
  /\ pc[t] \notin {"idle"} \cup Finding => obj[t] \in Objs
  /\ pc[t] \in Creating => RefsTo(obj[t]) = {tok[t]}
  /\ pc[t] \in Dropping => ref[tok[t]] = obj[t]
  /\ pc[t] \in Finding \cup HoldSteps \cup Ending => ref[tok[t]] = None
  /\ pc[t] \in HoldSteps =>
       IF via[t] = None THEN Listed(obj[t]) ELSE ref[via[t]] = obj[t]
  /\ pc[t] \in Ending => RefsTo(obj[t]) = {} /\ lock[obj[t]] \notin {"unborn", "destroyed"}

(* No two calls work with one reference, and no two destroy one object.    *)
Apart(t, u) ==
  /\ tok[t] # None => tok[t] # tok[u] /\ tok[t] # via[u]
  /\ via[t] # None => via[t] # via[u]
  /\ pc[t] \in Ending /\ pc[u] \in Ending => obj[t] # obj[u]

Calls ==
  /\ \A t \in Threads : Call(t)
  /\ \A t, u \in Threads : t # u => Apart(t, u)

(* A chain has an object once, and only objects with its hash.             *)
Chains ==
  \A i \in DOMAIN fh : IsInjective(fh[i]) /\ \A o \in Range(fh[i]) : HASH(id[o]) = i

(* A referenced object has a mutex, is counted, and is in the table once   *)
(* create has put it there.                                                *)
Object(o) ==
  /\ count[o] = Cardinality(RefsTo(o))
  /\ RefsTo(o) # {} => lock[o] \notin {"unborn", "destroyed"}
  /\ Listed(o) <=> RefsTo(o) # {} /\ ~InCreate(o)

IInv == TypeOK /\ Owners /\ Calls /\ Chains /\ \A o \in Objs : Object(o)

-----------------------------------------------------------------------------
(* What a call knows in each of its phases.                                *)
LEMMA CreatorKnows ==
  ASSUME IInv, NEW t \in Threads, pc[t] \in Creating
  PROVE  obj[t] \in Objs /\ tok[t] \in Refs /\ via[t] = None /\ RefsTo(obj[t]) = {tok[t]}
<1>1. Call(t)
  BY Zenon DEF IInv, Calls
<1> QED
  BY <1>1, Zenon DEF Call, Creating, Finding, HoldSteps

LEMMA HolderKnows ==
  ASSUME IInv, NEW t \in Threads, pc[t] \in HoldSteps
  PROVE  /\ obj[t] \in Objs /\ tok[t] \in Refs /\ ref[tok[t]] = None
         /\ via[t] \in Refs \cup {None}
         /\ IF via[t] = None THEN Listed(obj[t]) ELSE ref[via[t]] = obj[t]
<1>1. Call(t) /\ via[t] \in Refs \cup {None}
  BY Zenon DEF IInv, Calls, TypeOK
<1> QED
  BY <1>1, Zenon DEF Call, Finding, HoldSteps

LEMMA DropperKnows ==
  ASSUME IInv, NEW t \in Threads, pc[t] \in Dropping
  PROVE  obj[t] \in Objs /\ tok[t] \in Refs /\ via[t] = None /\ ref[tok[t]] = obj[t]
<1>1. Call(t)
  BY Zenon DEF IInv, Calls
<1> QED
  BY <1>1, Zenon DEF Call, Dropping, Finding, HoldSteps

LEMMA EnderKnows ==
  ASSUME IInv, NEW t \in Threads, pc[t] \in Ending
  PROVE  /\ obj[t] \in Objs /\ tok[t] \in Refs /\ via[t] = None /\ ref[tok[t]] = None
         /\ RefsTo(obj[t]) = {} /\ lock[obj[t]] \notin {"unborn", "destroyed"}
<1>1. Call(t)
  BY Zenon DEF IInv, Calls
<1> QED
  BY <1>1, Zenon DEF Call, Ending, Finding, HoldSteps

(* What a thread can rely on while it uses an object: whoever counted it   *)
(* keeps it in the table with its mutex alive.                             *)
LEMMA InUse ==
  ASSUME IInv, NEW t \in Threads, pc[t] \in HoldSteps \cup Dropping
  PROVE  LET o == obj[t] IN
         /\ o \in Objs /\ RefsTo(o) # {} /\ ~InCreate(o) /\ Listed(o)
         /\ lock[o] \notin {"unborn", "destroyed"}
<1> DEFINE o == obj[t]
<1>1. o \in Objs /\ Object(o)
  BY HolderKnows, DropperKnows, Zenon DEF IInv
<1>2. RefsTo(o) # {} /\ ~InCreate(o)
  <2>1. CASE pc[t] \in HoldSteps /\ via[t] = None
    BY <1>1, <2>1, HolderKnows, Zenon DEF Object
  <2>2. CASE ~ (pc[t] \in HoldSteps /\ via[t] = None)
    <3> DEFINE r == IF pc[t] \in HoldSteps THEN via[t] ELSE tok[t]
    <3>1. r \in Refs /\ ref[r] = o
      BY <2>2, HolderKnows, DropperKnows, Zenon
    <3>2. r \in RefsTo(o)
      BY <3>1, Zenon DEF RefsTo
    <3>3. ASSUME NEW u \in Threads, pc[u] \in Creating, obj[u] = o PROVE FALSE
      <4>1. RefsTo(o) = {tok[u]} /\ tok[u] # None
        BY <3>3, CreatorKnows, TableAssumption, Zenon
      <4>2. u # t
        BY <3>3, Zenon DEF Creating, HoldSteps, Dropping
      <4>3. tok[u] # r
        BY <4>1, <4>2, Zenon DEF IInv, Calls, Apart
      <4> QED
        BY <3>2, <4>1, <4>3, Zenon
    <3> QED
      BY <3>2, <3>3, Zenon DEF InCreate, Creating
  <2> QED
    BY <2>1, <2>2, Zenon
<1>3. Listed(o) /\ lock[o] \notin {"unborn", "destroyed"}
  BY <1>1, <1>2, Zenon DEF Object
<1> QED
  BY <1>1, <1>2, <1>3, Zenon

-----------------------------------------------------------------------------
(* A step of t leaves the calls of the others where they are.              *)
Others(t) ==
  \A u \in Threads \ {t} :
    pc'[u] = pc[u] /\ obj'[u] = obj[u] /\ tok'[u] = tok[u] /\ via'[u] = via[u]

(* t takes no reference that another call works with.                      *)
OwnRefs(t) ==
  /\ tok'[t] \in {None, tok[t]} \cup (Refs \ Busy)
  /\ via'[t] \in {None, via[t]} \cup (Refs \ Busy)

LEMMA CallsKeep ==
  ASSUME IInv, NEW t \in Threads, Others(t), OwnRefs(t), Call(t)',
         \A u \in Threads \ {t} : Call(u)',
         pc'[t] \in Ending => \A u \in Threads \ {t} : pc[u] \in Ending => obj[u] # obj'[t]
  PROVE  Calls'
<1>1. \A u \in Threads : Call(u)'
  BY Zenon
<1>2. ASSUME NEW u \in Threads \ {t} PROVE Apart(t, u)' /\ Apart(u, t)'
  <2>1. tok[u] \in Busy /\ via[u] \in Busy
    BY Zenon DEF Busy
  <2>2. Apart(t, u) /\ Apart(u, t)
    BY Zenon DEF IInv, Calls
  <2> QED
    BY <2>1, <2>2, Zenon DEF Apart, Others, OwnRefs
<1>3. ASSUME NEW u \in Threads \ {t}, NEW w \in Threads \ {t}, u # w PROVE Apart(u, w)'
  BY <1>3 DEF IInv, Calls, Apart, Others
<1>4. \A u, w \in Threads : u # w => Apart(u, w)'
  BY <1>2, <1>3
<1> QED
  BY <1>1, <1>4, Zenon DEF Calls

(* The mutexes stay with their owners when t alone takes or gives one.     *)
LEMMA OwnersKeep ==
  ASSUME IInv, NEW t \in Threads, Others(t),
         hashlock' = t <=> HasHashlock(t)',
         \A u \in Threads \ {t} : hashlock' = u <=> hashlock = u,
         \A o \in Objs : lock'[o] = t <=> HasLock(t)' /\ obj'[t] = o,
         \A o \in Objs : \A u \in Threads \ {t} : lock'[o] = u <=> lock[o] = u
  PROVE  Owners'
<1>1. ASSUME NEW u \in Threads \ {t}
      PROVE  /\ hashlock' = u <=> HasHashlock(u)'
             /\ \A o \in Objs : lock'[o] = u <=> HasLock(u)' /\ obj'[u] = o
  <2>1. HasHashlock(u)' <=> HasHashlock(u)
    BY Zenon DEF Others, HasHashlock
  <2>2. HasLock(u)' <=> HasLock(u)
    BY Zenon DEF Others, HasLock
  <2>3. /\ hashlock = u <=> HasHashlock(u)
        /\ \A o \in Objs : lock[o] = u <=> HasLock(u) /\ obj[u] = o
    BY Zenon DEF IInv, Owners
  <2> QED
    BY <2>1, <2>2, <2>3 DEF Others
<1>2. \A u \in Threads :
        /\ hashlock' = u <=> HasHashlock(u)'
        /\ \A o \in Objs : lock'[o] = u <=> HasLock(u)' /\ obj'[u] = o
  BY <1>1
<1> QED
  BY <1>2, Zenon DEF Owners

(* Another call knows what it knew when the step leaves alone what it      *)
(* knows it of.                                                            *)
LEMMA OtherCall ==
  ASSUME IInv, NEW t \in Threads, NEW u \in Threads \ {t}, Others(t),
         tok[u] \in Refs => ref'[tok[u]] = ref[tok[u]],
         via[u] \in Refs => ref'[via[u]] = ref[via[u]],
         pc[u] \in Creating \cup Ending => RefsTo(obj[u])' = RefsTo(obj[u]),
         pc[u] \in Ending => lock'[obj[u]] \notin {"unborn", "destroyed"},
         pc[u] \in HoldSteps /\ via[u] = None => (Listed(obj[u]) => Listed(obj[u])')
  PROVE  Call(u)'
<1>1. Call(u) /\ via[u] \in Refs \cup {None}
  BY Zenon DEF IInv, Calls, TypeOK
<1>2. pc'[u] = pc[u] /\ obj'[u] = obj[u] /\ tok'[u] = tok[u] /\ via'[u] = via[u]
  BY Zenon DEF Others
<1> HIDE DEF Others
<1> QED
  BY <1>1, <1>2, Zenon DEF Call, Creating, Finding, HoldSteps, Dropping, Ending

(* A step that neither counts nor changes a chain, and creates nothing.    *)
Quiet(t) ==
  /\ UNCHANGED <<fh, id, count, ref>>
  /\ Others(t) /\ OwnRefs(t)
  /\ pc[t] \in Creating <=> pc'[t] \in Creating
  /\ pc[t] \in Creating => obj'[t] = obj[t]
  /\ pc'[t] \in Ending => pc[t] \in Ending /\ obj'[t] = obj[t]
  /\ \A o \in Objs : lock'[o] \in {"unborn", "destroyed"} =>
       lock'[o] = lock[o] \/ (pc[t] = "rele_destroy" /\ o = obj[t])

LEMMA QuietKeeps ==
  ASSUME IInv, NEW t \in Threads, Quiet(t), TypeOK', Owners', Call(t)'
  PROVE  IInv'
<1>1. Others(t) /\ OwnRefs(t) /\ fh' = fh /\ id' = id /\ count' = count /\ ref' = ref
  BY Zenon DEF Quiet
<1>2. \A o : RefsTo(o)' = RefsTo(o) /\ (Listed(o)' <=> Listed(o))
  BY <1>1, Zenon DEF RefsTo, Listed
<1>3. \A o : InCreate(o)' <=> InCreate(o)
  BY Zenon DEF Quiet, Others, InCreate, Creating
<1>4. ASSUME NEW o \in Objs, lock[o] \notin {"unborn", "destroyed"},
             lock'[o] \in {"unborn", "destroyed"}
      PROVE  pc[t] = "rele_destroy" /\ o = obj[t]
  BY <1>4, Zenon DEF Quiet
<1>5. ASSUME NEW u \in Threads \ {t} PROVE Call(u)'
  <2>1. pc[u] \in Ending => lock'[obj[u]] \notin {"unborn", "destroyed"}
    <3>1. pc[u] \in Ending /\ pc[t] = "rele_destroy" => obj[u] # obj[t]
      BY Zenon DEF IInv, Calls, Apart, Ending
    <3> QED
      BY <1>4, <3>1, EnderKnows, Zenon
  <2>2. RefsTo(obj[u])' = RefsTo(obj[u]) /\ (Listed(obj[u])' <=> Listed(obj[u]))
    BY <1>1, <1>2, Zenon DEF Others
  <2> QED
    BY <1>1, <2>1, <2>2, OtherCall, Zenon
<1>6. Calls'
  <2>1. pc'[t] \in Ending => \A u \in Threads \ {t} : pc[u] \in Ending => obj[u] # obj'[t]
    BY Zenon DEF Quiet, IInv, Calls, Apart
  <2> QED
    BY <1>1, <1>5, <2>1, CallsKeep, Zenon
<1>7. Chains'
  BY <1>1, Zenon DEF IInv, Chains
<1>8. ASSUME NEW o \in Objs PROVE Object(o)'
  <2>1. Object(o)
    BY Zenon DEF IInv
  <2>2. RefsTo(o) # {} => lock'[o] \notin {"unborn", "destroyed"}
    <3>1. pc[t] = "rele_destroy" => RefsTo(obj[t]) = {}
      BY EnderKnows, Zenon DEF Ending
    <3> QED
      BY <1>4, <2>1, <3>1, Zenon DEF Object
  <2> QED
    BY <1>1, <1>2, <1>3, <2>1, <2>2, Zenon DEF Object
<1> QED
  BY <1>6, <1>7, <1>8, Zenon DEF IInv

(* Nobody has the mutex of an object that is about to be destroyed.        *)
LEMMA DestroysFree ==
  ASSUME IInv, NEW t \in Threads, pc[t] = "rele_destroy"
  PROVE  obj[t] \in Objs /\ lock[obj[t]] = None
<1>1. obj[t] \in Objs /\ RefsTo(obj[t]) = {} /\ lock[obj[t]] \notin {"unborn", "destroyed"}
  BY EnderKnows, Zenon DEF Ending
<1>2. ASSUME NEW u \in Threads, lock[obj[t]] = u PROVE FALSE
  <2>1. HasLock(u) /\ obj[u] = obj[t]
    BY <1>1, <1>2 DEF IInv, Owners
  <2>2. pc[u] \notin HoldSteps \cup Dropping
    BY <1>1, <2>1, InUse, Zenon
  <2>3. pc[u] \in Ending /\ u # t
    BY <2>1, <2>2, Zenon DEF HasLock, HoldSteps, Dropping, Ending
  <2> QED
    BY <2>1, <2>3, Zenon DEF IInv, Calls, Apart, Ending
<1> QED
  BY <1>1, <1>2, Zenon DEF IInv, TypeOK

-----------------------------------------------------------------------------
(* Where a call is after a step, and that the others are where they were.  *)
At(t, s, o, r, v) ==
  /\ Others(t)
  /\ pc'[t] = s /\ obj'[t] = o /\ tok'[t] = r /\ via'[t] = v
  /\ pc' \in [Threads -> PcSteps] /\ obj' \in [Threads -> Objs \cup {None}]
  /\ tok' \in [Threads -> Refs \cup {None}] /\ via' \in [Threads -> Refs \cup {None}]

LEMMA AtMoved ==
  ASSUME TypeOK, NEW t \in Threads, NEW s \in PcSteps, NEW o \in Objs \cup {None},
         NEW r \in Refs \cup {None}, NEW v \in Refs \cup {None},
         pc' = [pc EXCEPT ![t] = s], obj' = [obj EXCEPT ![t] = o],
         tok' = [tok EXCEPT ![t] = r], via' = [via EXCEPT ![t] = v]
  PROVE  At(t, s, o, r, v)
<1>1. /\ pc \in [Threads -> PcSteps] /\ obj \in [Threads -> Objs \cup {None}]
      /\ tok \in [Threads -> Refs \cup {None}] /\ via \in [Threads -> Refs \cup {None}]
  BY Zenon DEF TypeOK
<1> QED
  BY <1>1, Zenon DEF At, Others

LEMMA AtStep ==
  ASSUME TypeOK, NEW t \in Threads, NEW s \in PcSteps, Goto(t, s), UNCHANGED callVars
  PROVE  At(t, s, obj[t], tok[t], via[t])
<1>1. /\ pc \in [Threads -> PcSteps] /\ obj \in [Threads -> Objs \cup {None}]
      /\ tok \in [Threads -> Refs \cup {None}] /\ via \in [Threads -> Refs \cup {None}]
  BY Zenon DEF TypeOK
<1> QED
  BY <1>1, Zenon DEF At, Others, Goto, callVars

LEMMA AtReturn ==
  ASSUME TypeOK, NEW t \in Threads, Return(t)
  PROVE  At(t, "idle", None, None, None)
<1>1. "idle" \in PcSteps
  BY Zenon DEF PcSteps
<1> QED
  BY <1>1, AtMoved, Zenon DEF Return, Goto

LEMMA AtEntered ==
  ASSUME TypeOK, NEW t \in Threads, NEW s \in PcSteps, NEW o \in Objs \cup {None},
         NEW r \in Refs \cup {None}, NEW v \in Refs \cup {None}, Enter(t, s, o, r, v)
  PROVE  At(t, s, o, r, v)
  BY AtMoved, Zenon DEF Enter, Goto

(* A call that has returned works with nothing.                            *)
LEMMA Returned ==
  ASSUME NEW t \in Threads, At(t, "idle", None, None, None)
  PROVE  Call(t)' /\ OwnRefs(t) /\ ~HasLock(t)' /\ ~HasHashlock(t)' /\ Others(t)
  BY Zenon DEF At, Call, OwnRefs, HasLock, HasHashlock, Creating, Finding, HoldSteps, Dropping, Ending

(* The mutexes after a step that keeps to the call.                        *)
LEMMA TypesKeep ==
  ASSUME TypeOK, NEW t, NEW s, NEW o, NEW r, NEW v, At(t, s, o, r, v),
         UNCHANGED <<fh, id, count, ref, key>>, hashlock' \in Threads \cup {None},
         lock' \in [Objs -> {"unborn", "destroyed", None} \cup Threads]
  PROVE  TypeOK'
  BY Zenon DEF TypeOK, At

-----------------------------------------------------------------------------
(* pthread_mutex_lock(&hashlock), in create, find and rele.                *)
LEMMA HashlockKeeps ==
  ASSUME IInv, NEW t \in Threads, NEW from, NEW to, AcquireHash(t, from, to),
         \/ from = "create_lock" /\ to = "create_insert"
         \/ from = "find" /\ to = "find_walk"
         \/ from = "rele_hashlock" /\ to = "rele_relock"
  PROVE  IInv'
<1>1. /\ pc[t] = from /\ Goto(t, to) /\ hashlock = None /\ hashlock' = t
      /\ UNCHANGED <<fh, id, count, lock, ref, callVars>>
  BY Zenon DEF AcquireHash
<1>2. TypeOK /\ Owners /\ Call(t) /\ to \in PcSteps
  BY Zenon DEF IInv, Calls, PcSteps, ReleSteps
<1>3. At(t, to, obj[t], tok[t], via[t])
  BY <1>1, <1>2, AtStep, Zenon
<1>4. TypeOK'
  BY <1>1, <1>2, <1>3, TypesKeep, Zenon DEF TypeOK, callVars
<1>5. Quiet(t)
  BY <1>1, <1>3, Zenon DEF Quiet, OwnRefs, At, Creating, Ending
<1>6. Owners'
  <2>1. HasHashlock(t)' /\ (HasLock(t)' <=> HasLock(t))
    BY <1>1, <1>3, Zenon DEF At, HasHashlock, HasLock
  <2>2. \A o \in Objs : lock[o] = t <=> HasLock(t) /\ obj[t] = o
    BY <1>2, Zenon DEF Owners
  <2>3. Others(t) /\ obj'[t] = obj[t]
    BY <1>3, Zenon DEF At
  <2> QED
    BY <1>1, <2>1, <2>2, <2>3, OwnersKeep, TableAssumption, Zenon
<1>7. Call(t)'
  <2>1. obj'[t] = obj[t] /\ tok'[t] = tok[t] /\ via'[t] = via[t] /\ pc'[t] = to
    BY <1>3, Zenon DEF At
  <2>2. RefsTo(obj[t])' = RefsTo(obj[t])
    BY <1>1, <2>1, Zenon DEF RefsTo
  <2> QED
    BY <1>1, <1>2, <2>1, <2>2, Zenon DEF Call, Creating, Finding, HoldSteps, Dropping, Ending
<1> QED
  BY <1>4, <1>5, <1>6, <1>7, QuietKeeps, Zenon

(* pthread_mutex_lock(&f_lock), in hold and twice in rele.                 *)
LEMMA LockKeeps ==
  ASSUME IInv, NEW t \in Threads, NEW from, NEW to, AcquireLock(t, from, to),
         \/ from = "hold_lock" /\ to = "hold_count"
         \/ from = "rele_lock" /\ to = "rele_test"
         \/ from = "rele_relock" /\ to = "rele_recheck"
  PROVE  IInv'
<1>1. /\ pc[t] = from /\ Goto(t, to) /\ lock[obj[t]] = None
      /\ lock' = [lock EXCEPT ![obj[t]] = t]
      /\ UNCHANGED <<fh, id, count, hashlock, ref, callVars>>
  BY Zenon DEF AcquireLock
<1>2. TypeOK /\ Owners /\ Call(t) /\ to \in PcSteps
  BY Zenon DEF IInv, Calls, PcSteps, ReleSteps, HoldSteps
<1>3. At(t, to, obj[t], tok[t], via[t])
  BY <1>1, <1>2, AtStep, Zenon
<1>4. obj[t] \in Objs /\ lock \in [Objs -> {"unborn", "destroyed", None} \cup Threads]
  BY <1>1, <1>2, HolderKnows, DropperKnows, Zenon DEF HoldSteps, Dropping, TypeOK
<1>5. TypeOK'
  <2>1. lock' \in [Objs -> {"unborn", "destroyed", None} \cup Threads]
    BY <1>1, <1>4, Zenon
  <2> QED
    BY <1>1, <1>2, <1>3, <2>1, TypesKeep, Zenon DEF TypeOK, callVars
<1>6. Quiet(t)
  BY <1>1, <1>3, <1>4, TableAssumption, Zenon DEF Quiet, OwnRefs, At, Creating, Ending
<1>7. Owners'
  <2>1. HasLock(t)' /\ ~HasLock(t) /\ (HasHashlock(t)' <=> HasHashlock(t))
    BY <1>1, <1>3, Zenon DEF At, HasHashlock, HasLock, HoldSteps
  <2>2. hashlock = t <=> HasHashlock(t)
    BY <1>2, Zenon DEF Owners
  <2>3. \A o \in Objs : lock[o] = t <=> HasLock(t) /\ obj[t] = o
    BY <1>2, Zenon DEF Owners
  <2>4. Others(t) /\ obj'[t] = obj[t]
    BY <1>3, Zenon DEF At
  <2> QED
    BY <1>1, <1>4, <2>1, <2>2, <2>3, <2>4, OwnersKeep, TableAssumption, Zenon
<1>8. Call(t)'
  <2>1. obj'[t] = obj[t] /\ tok'[t] = tok[t] /\ via'[t] = via[t] /\ pc'[t] = to
    BY <1>3, Zenon DEF At
  <2>2. Listed(obj[t])' <=> Listed(obj[t])
    BY <1>1, <2>1, Zenon DEF Listed
  <2> QED
    BY <1>1, <1>2, <2>1, <2>2, Zenon DEF Call, Creating, Finding, HoldSteps, Dropping, Ending
<1> QED
  BY <1>5, <1>6, <1>7, <1>8, QuietKeeps, Zenon

(* if (count == 0) throw, passed.                                          *)
LEMMA CountKeeps ==
  ASSUME IInv, NEW t \in Threads, NEW from, NEW to, CheckCount(t, from, to), count[obj[t]] # 0,
         \/ from = "hold" /\ to = "hold_lock"
         \/ from = "rele" /\ to = "rele_lock"
  PROVE  IInv'
<1>1. pc[t] = from /\ Goto(t, to) /\ UNCHANGED <<fh, id, count, lock, hashlock, ref, callVars>>
  BY Zenon DEF CheckCount
<1>2. TypeOK /\ Owners /\ Call(t) /\ to \in PcSteps
  BY Zenon DEF IInv, Calls, PcSteps, ReleSteps, HoldSteps
<1>3. At(t, to, obj[t], tok[t], via[t])
  BY <1>1, <1>2, AtStep, Zenon
<1>4. TypeOK'
  BY <1>1, <1>2, <1>3, TypesKeep, Zenon DEF TypeOK, callVars
<1>5. Quiet(t)
  BY <1>1, <1>3, Zenon DEF Quiet, OwnRefs, At, Creating, Ending
<1>6. Owners'
  <2>1. (HasHashlock(t)' <=> HasHashlock(t)) /\ (HasLock(t)' <=> HasLock(t))
    BY <1>1, <1>3, Zenon DEF At, HasHashlock, HasLock, HoldSteps
  <2>2. /\ hashlock = t <=> HasHashlock(t)
        /\ \A o \in Objs : lock[o] = t <=> HasLock(t) /\ obj[t] = o
    BY <1>2, Zenon DEF Owners
  <2>3. Others(t) /\ obj'[t] = obj[t]
    BY <1>3, Zenon DEF At
  <2> QED
    BY <1>1, <2>1, <2>2, <2>3, OwnersKeep, Zenon
<1>7. Call(t)'
  <2>1. obj'[t] = obj[t] /\ tok'[t] = tok[t] /\ via'[t] = via[t] /\ pc'[t] = to
    BY <1>3, Zenon DEF At
  <2>2. Listed(obj[t])' <=> Listed(obj[t])
    BY <1>1, <2>1, Zenon DEF Listed
  <2> QED
    BY <1>1, <1>2, <2>1, <2>2, Zenon DEF Call, Creating, Finding, HoldSteps, Dropping, Ending
<1> QED
  BY <1>4, <1>5, <1>6, <1>7, QuietKeeps, Zenon

(* The end of rele, without hashlock: the object is nobody else's.         *)
LEMMA EndKeeps ==
  ASSUME IInv, NEW t \in Threads, rele_unlock(t) \/ rele_destroy(t)
  PROVE  IInv'
<1>1. TypeOK /\ Owners /\ pc[t] \in Ending
  BY Zenon DEF IInv, rele_unlock, rele_destroy, Ending
<1>2. /\ obj[t] \in Objs /\ tok[t] \in Refs /\ via[t] = None /\ ref[tok[t]] = None
      /\ RefsTo(obj[t]) = {} /\ lock[obj[t]] \notin {"unborn", "destroyed"}
  BY <1>1, EnderKnows, Zenon
<1>3. lock \in [Objs -> {"unborn", "destroyed", None} \cup Threads]
  BY <1>1, Zenon DEF TypeOK
<1>4. hashlock # t /\ \A o \in Objs \ {obj[t]} : lock[o] # t
  BY <1>1, <1>2, Zenon DEF Owners, HasHashlock, HasLock, HoldSteps, Ending
<1>5. CASE rele_unlock(t)
  <2>1. /\ Goto(t, "rele_destroy") /\ lock' = [lock EXCEPT ![obj[t]] = None]
        /\ UNCHANGED <<fh, id, count, hashlock, ref, callVars>>
    BY <1>5, Zenon DEF rele_unlock, ReleaseLock
  <2>2. At(t, "rele_destroy", obj[t], tok[t], via[t])
    <3>1. "rele_destroy" \in PcSteps
      BY Zenon DEF PcSteps, ReleSteps
    <3> QED
      BY <1>1, <2>1, <3>1, AtStep, Zenon
  <2>3. TypeOK'
    <3>1. lock' \in [Objs -> {"unborn", "destroyed", None} \cup Threads]
      BY <1>3, <2>1, Zenon
    <3> QED
      BY <1>1, <2>1, <2>2, <3>1, TypesKeep, Zenon DEF TypeOK, callVars
  <2>4. Quiet(t)
    BY <1>1, <1>2, <1>3, <2>1, <2>2, TableAssumption, Zenon DEF Quiet, OwnRefs, At, Creating, Ending
  <2>5. Owners'
    <3>1. ~HasHashlock(t)' /\ ~HasLock(t)' /\ Others(t)
      BY <1>2, <2>2, Zenon DEF At, HasHashlock, HasLock, HoldSteps
    <3>2. lock[obj[t]] = t
      BY <1>1, <1>2, <1>5, Zenon DEF Owners, HasLock, rele_unlock
    <3>3. \A o \in Objs : lock'[o] = IF o = obj[t] THEN None ELSE lock[o]
      BY <1>2, <1>3, <2>1, Zenon
    <3> QED
      BY <1>4, <2>1, <3>1, <3>2, <3>3, OwnersKeep, TableAssumption
  <2>6. Call(t)'
    <3>1. obj'[t] = obj[t] /\ tok'[t] = tok[t] /\ via'[t] = via[t] /\ pc'[t] = "rele_destroy"
          /\ ref' = ref /\ lock'[obj[t]] = None
      BY <1>2, <1>3, <2>1, <2>2, Zenon DEF At
    <3>2. RefsTo(obj[t])' = {}
      BY <1>2, <3>1, Zenon DEF RefsTo
    <3> QED
      BY <1>2, <3>1, <3>2, TableAssumption, Zenon DEF Call, Creating, Finding, HoldSteps, Dropping, Ending
  <2> QED
    BY <2>3, <2>4, <2>5, <2>6, QuietKeeps, Zenon
<1>6. CASE rele_destroy(t)
  <2>1. /\ At(t, "idle", None, None, None) /\ lock' = [lock EXCEPT ![obj[t]] = "destroyed"]
        /\ UNCHANGED <<fh, id, count, hashlock, ref, key>> /\ pc[t] = "rele_destroy"
    BY <1>1, <1>6, AtReturn, Zenon DEF rele_destroy, Return
  <2>2. TypeOK'
    <3>1. lock' \in [Objs -> {"unborn", "destroyed", None} \cup Threads]
      BY <1>3, <2>1, Zenon
    <3> QED
      BY <1>1, <2>1, <3>1, TypesKeep, Zenon DEF TypeOK
  <2>3. Call(t)' /\ OwnRefs(t) /\ ~HasLock(t)' /\ ~HasHashlock(t)' /\ Others(t)
    BY <2>1, Returned, Zenon
  <2>4. \A o \in Objs : lock'[o] = IF o = obj[t] THEN "destroyed" ELSE lock[o]
    BY <1>2, <1>3, <2>1, Zenon
  <2>5. Quiet(t)
    BY <2>1, <2>3, <2>4, Zenon DEF Quiet, At, Creating, Ending
  <2>6. Owners'
    <3>1. lock[obj[t]] = None
      BY <2>1, DestroysFree, Zenon
    <3> QED
      BY <1>4, <2>1, <2>3, <2>4, <3>1, OwnersKeep, TableAssumption
  <2> QED
    BY <2>2, <2>3, <2>5, <2>6, QuietKeeps, Zenon
<1> QED
  BY <1>5, <1>6, Zenon

(* A client calls find, hold or rele.                                      *)
LEMMA EnterKeeps ==
  ASSUME IInv, NEW t \in Threads, NEW s, NEW o \in Objs \cup {None}, NEW r \in Refs \ Busy,
         NEW v \in (Refs \ Busy) \cup {None}, Enter(t, s, o, r, v), CallUnchanged,
         key' \in [Threads -> Ids \cup {0}],
         \/ s = "find" /\ ref[r] = None /\ v = None
         \/ s = "hold" /\ ref[r] = None /\ v # None /\ o \in Objs /\ ref[v] = o
         \/ s = "rele" /\ o \in Objs /\ ref[r] = o /\ v = None
  PROVE  IInv'
<1>1. TypeOK /\ Owners /\ pc[t] = "idle"
  BY Zenon DEF IInv, Enter
<1>2. UNCHANGED <<fh, id, count, lock, hashlock, ref>>
  BY Zenon DEF CallUnchanged
<1>3. At(t, s, o, r, v)
  <2>1. s \in PcSteps
    BY Zenon DEF PcSteps, HoldSteps, ReleSteps
  <2> QED
    BY <1>1, <2>1, AtEntered, Zenon
<1>4. TypeOK'
  BY <1>1, <1>2, <1>3, Zenon DEF TypeOK, At
<1>5. Quiet(t)
  BY <1>1, <1>2, <1>3, Zenon DEF Quiet, OwnRefs, At, Creating, Ending
<1>6. Owners'
  <2>1. ~HasHashlock(t)' /\ ~HasLock(t)' /\ Others(t)
    BY <1>3, Zenon DEF At, HasHashlock, HasLock, HoldSteps
  <2>2. hashlock # t /\ \A p \in Objs : lock[p] # t
    BY <1>1, Zenon DEF Owners, HasHashlock, HasLock, HoldSteps
  <2> QED
    BY <1>2, <2>1, <2>2, OwnersKeep, Zenon
<1>7. Call(t)'
  <2>1. pc'[t] = s /\ obj'[t] = o /\ tok'[t] = r /\ via'[t] = v /\ ref' = ref
    BY <1>2, <1>3, Zenon DEF At
  <2> QED
    BY <2>1, Zenon DEF Call, Creating, Finding, HoldSteps, Dropping, Ending
<1> QED
  BY <1>4, <1>5, <1>6, <1>7, QuietKeeps, Zenon

LEMMA CallKeeps ==
  ASSUME IInv, NEW t \in Threads, NEW r \in Refs \ Busy,
         \/ \E i \in Ids : ref[r] = None /\ call_find(t, i, r)
         \/ \E v \in Refs \ Busy : ref[r] = None /\ ref[v] # None /\ call_hold(t, ref[v], r, v)
         \/ ref[r] # None /\ call_rele(t, ref[r], r)
  PROVE  IInv'
<1>1. key \in [Threads -> Ids \cup {0}] /\ ref \in [Refs -> Objs \cup {None}]
  BY Zenon DEF IInv, TypeOK
<1>2. ASSUME NEW i \in Ids, ref[r] = None, call_find(t, i, r)
      PROVE  IInv'
  BY <1>1, <1>2, EnterKeeps, Zenon DEF call_find
<1>3. ASSUME NEW v \in Refs \ Busy, ref[r] = None, ref[v] # None, call_hold(t, ref[v], r, v)
      PROVE  IInv'
  BY <1>1, <1>3, EnterKeeps, TableAssumption, Zenon DEF call_hold
<1>4. ASSUME ref[r] # None, call_rele(t, ref[r], r)
      PROVE  IInv'
  BY <1>1, <1>4, EnterKeeps, Zenon DEF call_rele
<1> QED
  BY <1>2, <1>3, <1>4, Zenon

-----------------------------------------------------------------------------
(* A step of t counts with reference r and touches no object but o, which  *)
(* no other call creates or destroys; a find keeps what it has found.      *)
CountsOnly(t, o, r) ==
  /\ Others(t)
  /\ r = tok[t] \/ r \notin Busy
  /\ \A s \in Refs \ {r} : ref'[s] = ref[s]
  /\ \A p \in Objs \ {o} : RefsTo(p)' = RefsTo(p) /\ lock'[p] = lock[p]
  /\ \A u \in Threads \ {t} : pc[u] \in Creating \cup Ending => obj[u] # o
  /\ \A u \in Threads \ {t} :
       pc[u] \in HoldSteps /\ via[u] = None => (Listed(obj[u]) => Listed(obj[u])')

(* It leaves the other calls alone.                                        *)
LEMMA CountOthers ==
  ASSUME IInv, NEW t \in Threads, NEW o \in Objs, NEW r \in Refs, CountsOnly(t, o, r),
         NEW u \in Threads \ {t}
  PROVE  Call(u)'
<1>1. tok[u] # r /\ via[u] # r
  <2>1. CASE r \notin Busy
    BY <2>1, Zenon DEF Busy
  <2>2. CASE r = tok[t]
    <3>1. r # None
      BY TableAssumption, Zenon
    <3> QED
      BY <2>2, <3>1, Zenon DEF IInv, Calls, Apart
  <2> QED
    BY <2>1, <2>2, Zenon DEF CountsOnly
<1>2. \A s \in Refs \ {r} : ref'[s] = ref[s]
  BY Zenon DEF CountsOnly
<1>3. (tok[u] \in Refs => ref'[tok[u]] = ref[tok[u]]) /\ (via[u] \in Refs => ref'[via[u]] = ref[via[u]])
  BY <1>1, <1>2, Zenon
<1>4. /\ Others(t) /\ (pc[u] \in Creating \cup Ending => obj[u] # o)
      /\ pc[u] \in HoldSteps /\ via[u] = None => (Listed(obj[u]) => Listed(obj[u])')
  BY Zenon DEF CountsOnly
<1>5. pc[u] \in Creating \cup Ending => obj[u] \in Objs \ {o} /\ obj'[u] = obj[u]
  BY <1>4, CreatorKnows, EnderKnows, Zenon DEF Others
<1>6. \A p \in Objs \ {o} : RefsTo(p)' = RefsTo(p) /\ lock'[p] = lock[p]
  BY Zenon DEF CountsOnly
<1>7. pc[u] \in Creating \cup Ending =>
        RefsTo(obj[u])' = RefsTo(obj[u]) /\ lock'[obj[u]] = lock[obj[u]]
  BY <1>5, <1>6, Zenon
<1>8. pc[u] \in Ending => lock'[obj[u]] \notin {"unborn", "destroyed"}
  BY <1>7, EnderKnows, Zenon
<1> QED
  BY <1>3, <1>4, <1>7, <1>8, OtherCall, Zenon

(* t counts its reference to o up or down, lets the lock of o go and       *)
(* returns.                                                                *)
Recounts(t, o, r) ==
  /\ o = obj[t] /\ r = tok[t] /\ HasLock(t) /\ ~InCreate(o) /\ RefsTo(o) # {}
  /\ Return(t) /\ ReleaseLock(t) /\ fh' = fh /\ id' = id
  /\ hashlock' = IF hashlock = t THEN None ELSE hashlock
  /\ ref' \in [Refs -> Objs \cup {None}] /\ \A s \in Refs \ {r} : ref'[s] = ref[s]
  /\ count' \in [Objs -> Nat] /\ \A p \in Objs \ {o} : count'[p] = count[p]
  /\ count'[o] = Cardinality(RefsTo(o)') /\ RefsTo(o)' # {}
  /\ \A p \in Objs \ {o} : RefsTo(p)' = RefsTo(p)

LEMMA CountedKeeps ==
  ASSUME IInv, NEW t \in Threads, NEW o \in Objs, NEW r \in Refs, Recounts(t, o, r)
  PROVE  IInv'
<1>1. TypeOK /\ Owners
  BY Zenon DEF IInv
<1>2. /\ lock' = [lock EXCEPT ![o] = None] /\ key' = key /\ Return(t)
      /\ hashlock' = IF hashlock = t THEN None ELSE hashlock
      /\ HasLock(t) /\ o = obj[t] /\ fh' = fh /\ id' = id
  BY Zenon DEF Recounts, ReleaseLock, Return
<1>3. At(t, "idle", None, None, None)
  BY <1>1, <1>2, AtReturn, Zenon
<1>4. Call(t)' /\ OwnRefs(t) /\ ~HasLock(t)' /\ ~HasHashlock(t)' /\ Others(t)
  BY <1>3, Returned, Zenon
<1>5. lock \in [Objs -> {"unborn", "destroyed", None} \cup Threads] /\ hashlock \in Threads \cup {None}
  BY <1>1, Zenon DEF TypeOK
<1>6. /\ lock' \in [Objs -> {"unborn", "destroyed", None} \cup Threads]
      /\ hashlock' \in Threads \cup {None}
      /\ lock'[o] = None /\ \A p \in Objs \ {o} : lock'[p] = lock[p]
  BY <1>2, <1>5, Zenon
<1>7. TypeOK'
  <2>1. ref' \in [Refs -> Objs \cup {None}] /\ count' \in [Objs -> Nat]
    BY Zenon DEF Recounts
  <2> QED
    BY <1>1, <1>2, <1>3, <1>6, <2>1, Zenon DEF TypeOK, At
<1>8. Owners'
  <2>1. \A p \in Objs : lock[p] = t <=> p = o
    BY <1>1, <1>2, Zenon DEF Owners
  <2> QED
    BY <1>2, <1>4, <1>6, <2>1, OwnersKeep, TableAssumption
<1>9. \A p : Listed(p)' <=> Listed(p)
  BY <1>2, Zenon DEF Listed
<1>10. Calls'
  <2>1. ASSUME NEW u \in Threads \ {t}, pc[u] \in Creating \cup Ending PROVE obj[u] # o
    <3>1. ~InCreate(o) /\ RefsTo(o) # {}
      BY Zenon DEF Recounts
    <3> QED
      BY <2>1, <3>1, EnderKnows, Zenon DEF InCreate, Creating
  <2>2. \A u \in Threads \ {t} : Listed(obj[u]) => Listed(obj[u])'
    BY <1>4, <1>9, Zenon DEF Others
  <2>3. CountsOnly(t, o, r)
    BY <1>4, <1>6, <2>1, <2>2, Zenon DEF CountsOnly, Recounts
  <2>4. pc'[t] \notin Ending
    BY <1>3, Zenon DEF At, Ending
  <2> QED
    BY <1>4, <2>3, <2>4, CountOthers, CallsKeep, Zenon
<1>11. Chains'
  BY <1>2, Zenon DEF IInv, Chains
<1>12. ASSUME NEW p \in Objs PROVE Object(p)'
  <2>1. Object(p)
    BY Zenon DEF IInv
  <2>2. pc[t] \notin Creating /\ pc'[t] \notin Creating
    BY <1>2, <1>3, Zenon DEF At, HasLock, Creating
  <2>3. InCreate(p)' <=> InCreate(p)
    BY <1>4, <2>2, Zenon DEF InCreate, Others, Creating
  <2>4. CASE p = o
    <3>1. /\ count'[o] = Cardinality(RefsTo(o)') /\ RefsTo(o)' # {}
          /\ ~InCreate(o) /\ RefsTo(o) # {}
      BY Zenon DEF Recounts
    <3> QED
      BY <1>6, <1>9, <2>1, <2>3, <2>4, <3>1, TableAssumption, Zenon DEF Object
  <2>5. CASE p # o
    <3>1. count'[p] = count[p] /\ RefsTo(p)' = RefsTo(p)
      BY <2>5, Zenon DEF Recounts
    <3> QED
      BY <1>6, <1>9, <2>1, <2>3, <2>5, <3>1, Zenon DEF Object
  <2> QED
    BY <2>4, <2>5, Zenon
<1> QED
  BY <1>7, <1>8, <1>10, <1>11, <1>12, Zenon DEF IInv

(* rele lets lock go to take hashlock first: its reference may be the last. *)
LEMMA LastKeeps ==
  ASSUME IInv, NEW t \in Threads, rele_test(t), count[obj[t]] = 1
  PROVE  IInv'
<1>1. TypeOK /\ Owners
  BY Zenon DEF IInv
<1>0. PICK o : o = obj[t]
  BY Zenon
<1>2. /\ pc[t] = "rele_test" /\ Goto(t, "rele_hashlock") /\ UNCHANGED callVars
      /\ UNCHANGED <<fh, id, count, hashlock, ref>> /\ lock' = [lock EXCEPT ![o] = None]
  BY <1>0, Zenon DEF rele_test, ReleaseLock
<1>3. o \in Objs /\ tok[t] \in Refs /\ via[t] = None /\ ref[tok[t]] = o
  BY <1>0, <1>2, DropperKnows, Zenon DEF Dropping
<1>4. At(t, "rele_hashlock", o, tok[t], None)
  <2>1. "rele_hashlock" \in PcSteps
    BY Zenon DEF PcSteps, ReleSteps
  <2> QED
    BY <1>0, <1>1, <1>2, <1>3, <2>1, AtStep, Zenon
<1>5. lock \in [Objs -> {"unborn", "destroyed", None} \cup Threads]
  BY <1>1, Zenon DEF TypeOK
<1>6. /\ lock' \in [Objs -> {"unborn", "destroyed", None} \cup Threads]
      /\ lock'[o] = None /\ \A p \in Objs \ {o} : lock'[p] = lock[p]
  BY <1>2, <1>3, <1>5, Zenon
<1>7. TypeOK'
  BY <1>1, <1>2, <1>4, <1>6, Zenon DEF TypeOK, At, callVars
<1>8. Others(t) /\ ~HasLock(t)' /\ ~HasHashlock(t)' /\ ~HasHashlock(t) /\ HasLock(t)
  BY <1>2, <1>4, Zenon DEF At, HasLock, HasHashlock, HoldSteps
<1>9. Owners'
  <2>1. hashlock # t /\ \A p \in Objs : lock[p] = t <=> p = o
    BY <1>0, <1>1, <1>8, Zenon DEF Owners
  <2> QED
    BY SMTT(30), <1>2, <1>6, <1>8, <2>1, OwnersKeep, TableAssumption
<1>10. Call(t)'
  BY <1>2, <1>3, <1>4, Zenon DEF Call, At, Creating, Finding, HoldSteps, Dropping, Ending
<1>11. lock[o] \notin {"unborn", "destroyed"}
  BY SMTT(30), <1>0, <1>1, <1>3, <1>8, TableAssumption DEF Owners
<1>12. Quiet(t)
  <2>1. OwnRefs(t)
    BY <1>4, Zenon DEF At, OwnRefs
  <2> QED
    BY <1>2, <1>4, <1>6, <1>8, <1>11, <2>1, TableAssumption, Zenon DEF Quiet, At, Creating, Ending
<1> QED
  BY <1>7, <1>9, <1>10, <1>12, QuietKeeps, Zenon

-----------------------------------------------------------------------------
(* A step that changes nothing keeps it.                                   *)
LEMMA StutterKeeps ==
  ASSUME IInv, UNCHANGED vars
  PROVE  IInv'
<1>1. /\ fh' = fh /\ id' = id /\ count' = count /\ lock' = lock /\ hashlock' = hashlock
      /\ pc' = pc /\ obj' = obj /\ tok' = tok /\ via' = via /\ key' = key /\ ref' = ref
  BY Zenon DEF vars
<1>2. TypeOK /\ Chains /\ Owners /\ Calls /\ \A o \in Objs : Object(o)
  BY Zenon DEF IInv
<1>3. TypeOK' /\ Chains'
  BY <1>1, <1>2, Zenon DEF TypeOK, Chains
<1>4. Owners'
  <2>1. \A t : (HasHashlock(t)' <=> HasHashlock(t)) /\ (HasLock(t)' <=> HasLock(t))
    BY <1>1, Zenon DEF HasHashlock, HasLock
  <2> QED
    BY SMTT(30), <1>1, <1>2, <2>1 DEF Owners
<1>5. \A o : RefsTo(o)' = RefsTo(o) /\ (Listed(o)' <=> Listed(o)) /\ (InCreate(o)' <=> InCreate(o))
  BY <1>1, Zenon DEF RefsTo, Listed, InCreate
<1>6. Calls'
  <2>1. ASSUME NEW t \in Threads PROVE Call(t)'
    <3>1. Call(t) /\ RefsTo(obj[t])' = RefsTo(obj[t]) /\ (Listed(obj[t])' <=> Listed(obj[t]))
      BY <1>1, <1>2, <1>5, Zenon DEF Calls
    <3> QED
      BY <1>1, <3>1, Zenon DEF Call
  <2>2. \A t, u \in Threads : t # u => Apart(t, u)'
    BY <1>1, <1>2, Zenon DEF Calls, Apart
  <2> QED
    BY <2>1, <2>2, Zenon DEF Calls
<1>7. \A o \in Objs : Object(o)'
  BY <1>1, <1>2, <1>5, Zenon DEF Object
<1> QED
  BY <1>3, <1>4, <1>6, <1>7, Zenon DEF IInv

(* What the invariant says of the table.                                   *)
LEMMA InvMeansSound == IInv => TableSound
<1> SUFFICES ASSUME IInv PROVE TableSound
  BY Zenon
<1>1. TypeOK /\ CountIsReferences
  BY Zenon DEF IInv, Object, CountIsReferences
<1>2. ListedIffReferenced
  <2>1. ASSUME NEW i \in DOMAIN fh, NEW k \in DOMAIN fh[i] PROVE HASH(id[fh[i][k]]) = i
    BY Zenon DEF IInv, Chains, Range
  <2> QED
    BY <2>1, Zenon DEF IInv, Object, ListedIffReferenced
<1>3. NoUseAfterDestroy
  <2>1. ASSUME NEW t \in Threads, pc[t] \in WaitsLock PROVE lock[obj[t]] # "destroyed"
    BY <2>1, InUse, Zenon DEF WaitsLock, HoldSteps, Dropping
  <2> QED
    BY <2>1, DestroysFree, Zenon DEF NoUseAfterDestroy
<1>4. NeverThrows
  BY Zenon DEF IInv, Calls, Call, NeverThrows, Creating, Finding, HoldSteps, Dropping, Ending
<1> QED
  BY <1>1, <1>2, <1>3, <1>4, Zenon DEF TableSound

(* What it says of the threads that wait for one another.                  *)
LEMMA InvMeansNoCycle == IInv => NoLockCycle
<1> SUFFICES ASSUME IInv PROVE NoLockCycle
  BY Zenon
<1> SUFFICES ASSUME NEW S \in SUBSET Threads, S # {}, \A t \in S : Holder(t) \in S
             PROVE  FALSE
  BY Zenon DEF NoLockCycle
<1>1. ASSUME NEW t \in S PROVE pc[t] \in WaitsHashlock \cup WaitsLock
  BY TableAssumption, Zenon DEF Holder
<1>2. ASSUME NEW t \in S PROVE pc[t] \notin WaitsLock
  <2> SUFFICES ASSUME pc[t] \in WaitsLock PROVE FALSE
    BY Zenon
  <2>1. obj[t] \in Objs
    BY InUse, Zenon DEF WaitsLock, HoldSteps, Dropping
  <2>2. PICK u \in S : lock[obj[t]] = u
    BY Zenon DEF Holder, WaitsLock, WaitsHashlock
  <2>3. HasLock(u)
    BY <2>1, <2>2, Zenon DEF IInv, Owners
  <2> QED
    BY <1>1, <2>3, Zenon DEF HasLock, WaitsLock, WaitsHashlock
<1>3. PICK t \in S : pc[t] \in WaitsHashlock
  BY <1>1, <1>2, Zenon
<1>4. PICK u \in S : hashlock = u
  BY <1>3, Zenon DEF Holder, WaitsHashlock, WaitsLock
<1>5. HasHashlock(u)
  BY <1>4, Zenon DEF IInv, Owners
<1>6. pc[u] \in WaitsLock
  BY <1>1, <1>5, Zenon DEF HasHashlock, WaitsHashlock, WaitsLock, HoldSteps
<1> QED
  BY <1>2, <1>6, Zenon
=============================================================================
