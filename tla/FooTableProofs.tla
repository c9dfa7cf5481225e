--------------------------- MODULE FooTableProofs ---------------------------
(***************************************************************************)
(* FooTable is right for any number of threads, objects, ids and           *)
(* references: the steps of create, find, hold and rele that change the    *)
(* table or a count keep the inductive invariant, and the theorems follow. *)
(***************************************************************************)
EXTENDS FooTableSteps

(* What the steps need to know of the number of references to an object,   *)
(* and of the least place in a chain; it is proved before the theorems.    *)
Counting ==
  /\ \A S \in SUBSET Refs :
       /\ Cardinality(S) \in Nat
       /\ Cardinality(S) = 0 <=> S = {}
       /\ \A r \in Refs \ S : Cardinality(S \cup {r}) = Cardinality(S) + 1
       /\ \A r \in S : Cardinality(S \ {r}) = Cardinality(S) - 1
  /\ \A M \in SUBSET Nat : M # {} => \E x \in M : \A y \in M : x <= y

(* The chains.                                                             *)
LEMMA HashInRange ==
  ASSUME TypeOK, NEW o \in Objs
  PROVE  HASH(id[o]) \in DOMAIN fh /\ fh[HASH(id[o])] \in Seq(Objs)
<1>1. id[o] \in Nat
  <2>1. id[o] \in Ids \cup {0}
    BY Zenon DEF TypeOK
  <2>2. Ids \cup {0} \subseteq Nat
    BY TableAssumption
  <2> QED
    BY <2>1, <2>2, Zenon
<1>2. HASH(id[o]) \in 0..(NHASH - 1)
  BY SMTT(30), <1>1, TableAssumption DEF HASH
<1> QED
  BY <1>2, Zenon DEF TypeOK

LEMMA ListedInRange ==
  ASSUME NEW o
  PROVE  Listed(o) <=> \E i \in DOMAIN fh : o \in Range(fh[i])
  BY Zenon DEF Listed, Range

(* fp->next = fh[idx]; fh[idx] = fp.                                       *)
LEMMA InsertedFirst ==
  ASSUME NEW s \in Seq(Objs), NEW o \in Objs
  PROVE  /\ <<o>> \o s \in Seq(Objs)
         /\ Range(<<o>> \o s) = Range(s) \cup {o}
         /\ IsInjective(s) /\ o \notin Range(s) => IsInjective(<<o>> \o s)
<1> DEFINE n == <<o>> \o s
<1>1. n \in Seq(Objs) /\ n[1] = o /\ DOMAIN n = 1..(Len(s) + 1)
      /\ DOMAIN s = 1..Len(s) /\ Len(s) \in Nat
  OBVIOUS
<1>2. \A k \in DOMAIN s : k + 1 \in DOMAIN n /\ n[k + 1] = s[k]
  OBVIOUS
<1>3. \A k \in DOMAIN n : k = 1 \/ (k - 1 \in DOMAIN s /\ n[k] = s[k - 1])
  BY <1>1
<1> HIDE DEF n
<1>4. Range(n) = Range(s) \cup {o}
  <2>1. ASSUME NEW p \in Range(n) PROVE p \in Range(s) \cup {o}
    BY <1>1, <1>3, <2>1 DEF Range
  <2>2. Range(s) \subseteq Range(n)
    BY <1>2, Zenon DEF Range
  <2>3. o \in Range(n)
    <3>1. 1 \in DOMAIN n
      BY <1>1
    <3> QED
      BY <1>1, <3>1, Zenon DEF Range
  <2> QED
    BY <2>1, <2>2, <2>3, Zenon
<1>5. ASSUME IsInjective(s), o \notin Range(s), NEW j \in DOMAIN n, NEW k \in DOMAIN n, n[j] = n[k]
      PROVE  j = k
  <2>1. CASE j = 1 \/ k = 1
    BY <1>1, <1>3, <1>5, <2>1, Zenon DEF Range
  <2>2. CASE j # 1 /\ k # 1
    <3>1. j - 1 = k - 1
      BY <1>3, <1>5, <2>2, Zenon DEF IsInjective
    <3> QED
      BY <1>1, <3>1
  <2> QED
    BY <2>1, <2>2, Zenon
<1>6. IsInjective(s) /\ o \notin Range(s) => IsInjective(n)
  BY <1>5, Zenon DEF IsInjective
<1> QED
  BY <1>1, <1>4, <1>6, Zenon DEF n

(* One chain is replaced.                                                  *)
LEMMA ChainReplaced ==
  ASSUME TypeOK, Chains, NEW i \in DOMAIN fh, NEW n \in Seq(Objs), IsInjective(n),
         \A o \in Range(n) : HASH(id[o]) = i,
         id' = id, fh' = [fh EXCEPT ![i] = n]
  PROVE  /\ fh' \in [0..(NHASH - 1) -> Seq(Objs)]
         /\ Chains'
         /\ \A o : Listed(o)' <=> o \in Range(n) \/ \E j \in DOMAIN fh \ {i} : o \in Range(fh[j])
<1>1. DOMAIN fh' = DOMAIN fh /\ fh'[i] = n /\ \A j \in DOMAIN fh \ {i} : fh'[j] = fh[j]
  BY Zenon DEF TypeOK
<1>2. fh' \in [0..(NHASH - 1) -> Seq(Objs)]
  BY Zenon DEF TypeOK
<1>3. ASSUME NEW j \in DOMAIN fh
      PROVE  IsInjective(fh'[j]) /\ \A o \in Range(fh'[j]) : HASH(id'[o]) = j
  BY <1>1, Zenon DEF Chains
<1>4. Chains'
  BY <1>1, <1>3, Zenon DEF Chains
<1>5. ASSUME NEW o
      PROVE  Listed(o)' <=> o \in Range(n) \/ \E j \in DOMAIN fh \ {i} : o \in Range(fh[j])
  <2>1. Listed(o)' <=> \E j \in DOMAIN fh' : \E k \in DOMAIN fh'[j] : fh'[j][k] = o
    BY Zenon DEF Listed
  <2>2. Listed(o)' <=> \E j \in DOMAIN fh' : o \in Range(fh'[j])
    BY <2>1 DEF Range
  <2> QED
    BY <1>1, <2>2, Zenon
<1> QED
  BY <1>2, <1>4, <1>5, Zenon

(* create links the object in, and is through with it.                     *)
LEMMA InsertKeeps ==
  ASSUME IInv, NEW t \in Threads, create_insert(t)
  PROVE  IInv'
<1>0. PICK o, i : o = obj[t] /\ i = HASH(id[o])
  BY Zenon
<1>1. TypeOK /\ Owners /\ Chains /\ pc[t] = "create_insert"
  BY Zenon DEF IInv, create_insert
<1>2. /\ fh' = [fh EXCEPT ![i] = <<o>> \o fh[i]] /\ hashlock' = None
      /\ id' = id /\ count' = count /\ lock' = lock /\ ref' = ref /\ key' = key
  BY <1>0, Zenon DEF create_insert, Return
<1>3. At(t, "idle", None, None, None)
  BY <1>1, AtReturn, Zenon DEF create_insert
<1>4. o \in Objs /\ tok[t] \in Refs /\ RefsTo(o) = {tok[t]} /\ InCreate(o)
  BY <1>0, <1>1, CreatorKnows, Zenon DEF InCreate, Creating
<1>5. ~Listed(o)
  BY <1>4, Zenon DEF IInv, Object
<1>6. i \in DOMAIN fh /\ fh[i] \in Seq(Objs)
  BY <1>0, <1>1, <1>4, HashInRange, Zenon
<1>7. o \notin Range(fh[i]) /\ IsInjective(fh[i]) /\ \A p \in Range(fh[i]) : HASH(id[p]) = i
  BY <1>1, <1>5, <1>6, ListedInRange, Zenon DEF Chains
<1>8. PICK n : n = <<o>> \o fh[i]
  BY Zenon
<1>9. n \in Seq(Objs) /\ Range(n) = Range(fh[i]) \cup {o} /\ IsInjective(n)
  BY <1>4, <1>6, <1>7, <1>8, InsertedFirst, Zenon
<1>10. \A p \in Range(n) : HASH(id[p]) = i
  BY <1>0, <1>7, <1>9, Zenon
<1>11. /\ fh' \in [0..(NHASH - 1) -> Seq(Objs)]
       /\ Chains'
       /\ \A p : Listed(p)' <=> p \in Range(n) \/ \E j \in DOMAIN fh \ {i} : p \in Range(fh[j])
  BY <1>1, <1>2, <1>6, <1>8, <1>9, <1>10, ChainReplaced, Zenon
<1>12. ASSUME NEW p PROVE Listed(p)' <=> Listed(p) \/ p = o
  BY <1>6, <1>9, <1>11, ListedInRange, Zenon
<1>13. \A p : RefsTo(p)' = RefsTo(p)
  BY <1>2, Zenon DEF RefsTo
<1>14. TypeOK'
  BY <1>1, <1>2, <1>3, <1>11, Zenon DEF TypeOK, At
<1>15. Call(t)' /\ OwnRefs(t) /\ ~HasLock(t)' /\ ~HasHashlock(t)' /\ Others(t)
  BY <1>3, Returned, Zenon
<1>16. Owners'
  <2>1. hashlock = t /\ \A p \in Objs : lock[p] # t
    BY <1>1, Zenon DEF Owners, HasHashlock, HasLock
  <2> QED
    BY <1>2, <1>15, <2>1, OwnersKeep, TableAssumption, Zenon
<1>17. Calls'
  <2>1. ASSUME NEW u \in Threads \ {t} PROVE Call(u)'
    <3>1. RefsTo(obj[u])' = RefsTo(obj[u]) /\ (Listed(obj[u]) => Listed(obj[u])')
      BY <1>12, <1>13, <1>15, Zenon DEF Others
    <3> QED
      BY <1>2, <1>15, <3>1, EnderKnows, OtherCall, Zenon
  <2>2. pc'[t] \notin Ending
    BY <1>3, Zenon DEF At, Ending
  <2> QED
    BY <1>15, <2>1, <2>2, CallsKeep, Zenon
<1>18. ASSUME NEW p \in Objs PROVE InCreate(p)' <=> InCreate(p) /\ p # o
  <2>1. ASSUME NEW u \in Threads \ {t}, pc[u] \in Creating PROVE obj[u] # o
    <3>1. tok[u] # tok[t]
      BY <1>4, TableAssumption, Zenon DEF IInv, Calls, Apart
    <3> QED
      BY <1>4, <2>1, <3>1, CreatorKnows, Zenon
  <2>2. pc'[t] \notin Creating
    BY <1>3, Zenon DEF At, Creating
  <2> QED
    BY <1>0, <1>15, <2>1, <2>2, Zenon DEF InCreate, Others, Creating
<1>19. ASSUME NEW p \in Objs PROVE Object(p)'
  <2>1. Object(p)
    BY Zenon DEF IInv
  <2> QED
    BY <1>2, <1>4, <1>12, <1>13, <1>18, <2>1, Zenon DEF Object
<1> QED
  BY <1>11, <1>14, <1>16, <1>17, <1>19, Zenon DEF IInv

-----------------------------------------------------------------------------
(* The references to an object and their number.                           *)
LEMMA RefsNumber ==
  ASSUME Counting, NEW o
  PROVE  /\ RefsTo(o) \in SUBSET Refs
         /\ Cardinality(RefsTo(o)) \in Nat
         /\ Cardinality(RefsTo(o)) = 0 <=> RefsTo(o) = {}
<1>1. RefsTo(o) \in SUBSET Refs
  BY Zenon DEF RefsTo
<1> QED
  BY <1>1, Zenon DEF Counting

(* A new reference counts one up.                                          *)
LEMMA RefAdded ==
  ASSUME Counting, NEW o \in Objs, NEW r \in Refs, ref[r] = None, TypeOK,
         ref' = [ref EXCEPT ![r] = o]
  PROVE  /\ RefsTo(o)' = RefsTo(o) \cup {r}
         /\ Cardinality(RefsTo(o)') = Cardinality(RefsTo(o)) + 1
         /\ \A p \in Objs \ {o} : RefsTo(p)' = RefsTo(p)
<1>1. RefsTo(o)' = RefsTo(o) \cup {r} /\ r \notin RefsTo(o)
  BY TableAssumption DEF RefsTo, TypeOK
<1>2. \A p \in Objs \ {o} : RefsTo(p)' = RefsTo(p)
  BY TableAssumption DEF RefsTo, TypeOK
<1>3. Cardinality(RefsTo(o) \cup {r}) = Cardinality(RefsTo(o)) + 1
  BY <1>1, RefsNumber, Zenon DEF Counting
<1> QED
  BY <1>1, <1>2, <1>3, Zenon

(* A dropped reference counts one down.                                    *)
LEMMA RefDropped ==
  ASSUME Counting, NEW o \in Objs, NEW r \in Refs, ref[r] = o, TypeOK,
         ref' = [ref EXCEPT ![r] = None]
  PROVE  /\ RefsTo(o)' = RefsTo(o) \ {r}
         /\ Cardinality(RefsTo(o)') = Cardinality(RefsTo(o)) - 1
         /\ \A p \in Objs \ {o} : RefsTo(p)' = RefsTo(p)
<1>1. RefsTo(o)' = RefsTo(o) \ {r} /\ r \in RefsTo(o)
  BY TableAssumption, Zenon DEF RefsTo, TypeOK
<1>2. \A p \in Objs \ {o} : RefsTo(p)' = RefsTo(p)
  BY TableAssumption, Zenon DEF RefsTo, TypeOK
<1>3. Cardinality(RefsTo(o) \ {r}) = Cardinality(RefsTo(o)) - 1
  BY <1>1, RefsNumber, Zenon DEF Counting
<1> QED
  BY <1>1, <1>2, <1>3, Zenon

(* Whoever uses an object has it counted.                                  *)
LEMMA Counted ==
  ASSUME Counting, IInv, NEW t \in Threads, pc[t] \in HoldSteps \cup Dropping
  PROVE  obj[t] \in Objs /\ count[obj[t]] \in Nat /\ count[obj[t]] > 0
<1>1. obj[t] \in Objs /\ RefsTo(obj[t]) # {}
  BY InUse, Zenon
<1>2. count[obj[t]] = Cardinality(RefsTo(obj[t]))
  BY <1>1, Zenon DEF IInv, Object
<1> QED
  BY <1>1, <1>2, RefsNumber

(* An object whose count has come to 0 is not counted up again.            *)
LEMMA ZeroStays ==
  ASSUME Counting, IInv, Next, NEW o \in Objs, count[o] = 0, lock[o] # "unborn"
  PROVE  count'[o] = 0
<1>1. count \in [Objs -> Nat]
  BY Zenon DEF IInv, TypeOK
<1>2. PICK t \in Threads : Client(t) \/ Method(t)
  BY Zenon DEF Next
<1>3. pc[t] \in HoldSteps \cup Dropping => obj[t] # o
  BY Counted
<1>4. CASE Client(t)
  <2>1. (\E p \in Objs, i \in Ids, r \in Refs : Foo(t, p, i, r)) \/ count' = count
    BY <1>4, Zenon DEF Client, call_find, call_hold, call_rele, CallUnchanged
  <2> QED
    BY <1>1, <2>1, Zenon DEF Foo
<1>5. CASE create(t) \/ find(t)
  BY <1>5, Zenon DEF create, find, AcquireHash, create_insert, find_hold, find_none
<1>6. CASE hold(t)
  BY <1>1, <1>3, <1>6, Zenon DEF hold, CheckCount, AcquireLock, hold_count, HoldSteps
<1>7. CASE rele(t)
  <2>1. CASE rele_test(t) \/ rele_recheck(t) \/ rele_remove(t)
    <3>1. pc[t] \in Dropping
      BY <2>1, Zenon DEF rele_test, rele_recheck, rele_remove, Dropping
    <3>2. count' = count \/ Drop(t)
      BY <2>1, Zenon DEF rele_test, rele_recheck, rele_remove
    <3> QED
      BY <1>1, <1>3, <3>1, <3>2, Zenon DEF Drop
  <2>2. CASE ~ (rele_test(t) \/ rele_recheck(t) \/ rele_remove(t))
    <3>1. count' = count
      BY <1>7, <2>2, Zenon DEF rele, CheckCount, AcquireLock, AcquireHash, rele_unlock, rele_destroy
    <3> QED
      BY <3>1, Zenon
  <2> QED
    BY <2>1, <2>2, Zenon
<1> QED
  BY <1>2, <1>4, <1>5, <1>6, <1>7, Zenon DEF Method

-----------------------------------------------------------------------------
(* The object that find comes upon is in the table.                        *)
LEMMA FirstListed ==
  ASSUME Counting, TypeOK, NEW t \in Threads, Matches(t) # {}
  PROVE  First(t) \in Objs /\ Listed(First(t))
<1> DEFINE i == HASH(key[t])
           M == Matches(t)
<1>1. key[t] \in Nat
  <2>1. key[t] \in Ids \cup {0}
    BY Zenon DEF TypeOK
  <2>2. Ids \cup {0} \subseteq Nat
    BY TableAssumption
  <2> QED
    BY <2>1, <2>2, Zenon
<1>2. i \in 0..(NHASH - 1)
  BY <1>1, TableAssumption DEF HASH
<1>3. i \in DOMAIN fh /\ fh[i] \in Seq(Objs)
  BY <1>2, Zenon DEF TypeOK
<1>4. M \in SUBSET Nat /\ M # {} /\ M \subseteq DOMAIN fh[i]
  BY <1>3 DEF Matches
<1> HIDE DEF M
<1>5. \E x \in M : \A y \in M : x <= y
  BY <1>4, Zenon DEF Counting
<1> DEFINE k == CHOOSE k \in M : \A j \in M : k <= j
<1>6. k \in M
  BY <1>5, Zenon
<1>7. First(t) = fh[i][k]
  BY Zenon DEF First, M
<1> HIDE DEF k, i
<1>8. k \in DOMAIN fh[i] /\ fh[i][k] \in Objs
  <2>1. k \in DOMAIN fh[i]
    BY <1>4, <1>6, Zenon
  <2>2. \A c \in Seq(Objs) : \A n \in DOMAIN c : c[n] \in Objs
    OBVIOUS
  <2> QED
    BY <1>3, <2>1, <2>2, Zenon
<1> QED
  BY <1>3, <1>7, <1>8, Zenon DEF Listed

-----------------------------------------------------------------------------
(* find, with hashlock.                                                    *)
LEMMA FindKeeps ==
  ASSUME Counting, IInv, NEW t \in Threads, find_hold(t) \/ find_none(t)
  PROVE  IInv'
<1>1. TypeOK /\ Owners /\ Call(t) /\ pc[t] = "find_walk"
  BY Zenon DEF IInv, Calls, find_hold, find_none
<1>2. tok[t] \in Refs /\ via[t] = None /\ ref[tok[t]] = None
  BY <1>1, Zenon DEF Call, Finding, HoldSteps
<1>3. hashlock = t /\ \A o \in Objs : lock[o] # t
  BY <1>1, Zenon DEF Owners, HasHashlock, HasLock
<1>4. CASE find_hold(t)
  <2>1. PICK o : o = First(t)
    BY Zenon
  <2>2. /\ Goto(t, "hold") /\ obj' = [obj EXCEPT ![t] = o]
        /\ UNCHANGED <<fh, id, count, lock, hashlock, tok, via, key, ref>>
    BY <1>4, <2>1, Zenon DEF find_hold
  <2>3. o \in Objs /\ Listed(o)
    BY <1>1, <1>4, <2>1, FirstListed, Zenon DEF find_hold
  <2>4. At(t, "hold", o, tok[t], None)
    <3>1. "hold" \in PcSteps
      BY Zenon DEF PcSteps, HoldSteps
    <3>2. tok' = [tok EXCEPT ![t] = tok[t]] /\ via' = [via EXCEPT ![t] = None]
      BY <1>1, <1>2, <2>2, Zenon DEF TypeOK
    <3> QED
      BY <1>1, <1>2, <2>2, <2>3, <3>1, <3>2, AtMoved, Zenon DEF Goto
  <2>5. TypeOK'
    BY <1>1, <2>2, <2>4, TypesKeep, Zenon DEF TypeOK
  <2>6. Quiet(t)
    BY <1>1, <2>2, <2>4, Zenon DEF Quiet, OwnRefs, At, Creating, Ending
  <2>7. Owners'
    <3>1. HasHashlock(t)' /\ ~HasLock(t)' /\ Others(t)
      BY <2>4, Zenon DEF At, HasHashlock, HasLock, HoldSteps
    <3> QED
      BY <1>3, <2>2, <3>1, OwnersKeep, Zenon
  <2>8. Call(t)'
    <3>1. Listed(obj[t])'
      BY <2>2, <2>3, <2>4 DEF At, Listed
    <3>2. pc'[t] = "hold" /\ obj'[t] = o /\ tok'[t] = tok[t] /\ via'[t] = None /\ ref' = ref
      BY <2>2, <2>4, Zenon DEF At
    <3> QED
      BY <1>2, <2>3, <3>1, <3>2, Zenon DEF Call, Creating, Finding, HoldSteps, Dropping, Ending
  <2> QED
    BY <2>5, <2>6, <2>7, <2>8, QuietKeeps, Zenon
<1>5. CASE find_none(t)
  <2>1. At(t, "idle", None, None, None) /\ UNCHANGED <<fh, id, count, lock, ref, key>> /\ hashlock' = None
    BY <1>1, <1>5, AtReturn, Zenon DEF find_none, Return
  <2>2. TypeOK'
    BY <1>1, <2>1, TypesKeep, Zenon DEF TypeOK
  <2>3. Call(t)' /\ OwnRefs(t) /\ ~HasLock(t)' /\ ~HasHashlock(t)' /\ Others(t)
    BY <2>1, Returned, Zenon
  <2>4. Quiet(t)
    BY <1>1, <2>1, <2>3, Zenon DEF Quiet, At, Creating, Ending
  <2>5. Owners'
    BY <1>3, <2>1, <2>3, OwnersKeep, TableAssumption, Zenon
  <2> QED
    BY <2>2, <2>3, <2>4, <2>5, QuietKeeps, Zenon
<1> QED
  BY <1>4, <1>5, Zenon

(* The constructor: a new object with its first reference.                 *)
LEMMA FooKeeps ==
  ASSUME Counting, IInv, NEW t \in Threads, NEW r \in Refs \ Busy, NEW o \in Objs, NEW i \in Ids,
         Foo(t, o, i, r)
  PROVE  IInv'
<1>1. TypeOK /\ Owners /\ Object(o) /\ pc[t] = "idle"
  BY Zenon DEF IInv, Foo, Enter
<1>2. /\ lock[o] = "unborn" /\ lock' = [lock EXCEPT ![o] = None]
      /\ id' = [id EXCEPT ![o] = i] /\ count' = [count EXCEPT ![o] = 1]
      /\ ref[r] = None /\ ref' = [ref EXCEPT ![r] = o]
      /\ fh' = fh /\ hashlock' = hashlock /\ key' = key
  BY Zenon DEF Foo
<1>3. At(t, "create_lock", o, r, None)
  <2>1. "create_lock" \in PcSteps
    BY Zenon DEF PcSteps
  <2> QED
    BY <1>1, <2>1, AtEntered, Zenon DEF Foo
<1>4. /\ count \in [Objs -> Nat] /\ id \in [Objs -> Ids \cup {0}] /\ ref \in [Refs -> Objs \cup {None}]
      /\ lock \in [Objs -> {"unborn", "destroyed", None} \cup Threads]
  BY <1>1, Zenon DEF TypeOK
<1>5. RefsTo(o) = {} /\ ~Listed(o)
  BY <1>1, <1>2, Zenon DEF Object
<1>6. /\ RefsTo(o)' = {r} /\ Cardinality(RefsTo(o)') = 1
      /\ \A p \in Objs \ {o} : RefsTo(p)' = RefsTo(p)
  <2>1. /\ RefsTo(o)' = RefsTo(o) \cup {r}
        /\ Cardinality(RefsTo(o)') = Cardinality(RefsTo(o)) + 1
        /\ \A p \in Objs \ {o} : RefsTo(p)' = RefsTo(p)
    BY <1>1, <1>2, RefAdded, Zenon
  <2> QED
    BY <1>5, <2>1, RefsNumber
<1>7. \A p : Listed(p)' <=> Listed(p)
  BY <1>2, Zenon DEF Listed
<1>8. /\ \A p \in Objs : lock'[p] = IF p = o THEN None ELSE lock[p]
      /\ \A p \in Objs : count'[p] = IF p = o THEN 1 ELSE count[p]
      /\ \A p \in Objs \ {o} : id'[p] = id[p]
  BY <1>2, <1>4, Zenon
<1>9. TypeOK'
  <2>1. /\ count' \in [Objs -> Nat] /\ id' \in [Objs -> Ids \cup {0}]
        /\ ref' \in [Refs -> Objs \cup {None}]
        /\ lock' \in [Objs -> {"unborn", "destroyed", None} \cup Threads]
    BY <1>2, <1>4, Zenon
  <2> QED
    BY <1>1, <1>2, <1>3, <2>1, Zenon DEF TypeOK, At
<1>10. Owners'
  <2>1. ~HasHashlock(t)' /\ ~HasLock(t)' /\ Others(t)
    BY <1>3, Zenon DEF At, HasHashlock, HasLock, HoldSteps
  <2>2. hashlock # t /\ \A p \in Objs : lock[p] # t
    BY <1>1, Zenon DEF Owners, HasHashlock, HasLock, HoldSteps
  <2> QED
    BY <1>2, <1>8, <2>1, <2>2, OwnersKeep, TableAssumption
<1>11. Calls'
  <2>1. Call(t)'
    <3>1. pc'[t] = "create_lock" /\ obj'[t] = o /\ tok'[t] = r /\ via'[t] = None
      BY <1>3, Zenon DEF At
    <3>2. RefsTo(obj[t])' = {r}
      BY <1>6, <3>1, Zenon
    <3> QED
      BY <3>1, <3>2, Zenon DEF Call, Creating, Finding, HoldSteps, Dropping, Ending
  <2>2. ASSUME NEW u \in Threads \ {t}, pc[u] \in Creating \cup Ending PROVE obj[u] # o
    BY <1>2, <1>5, <2>2, CreatorKnows, EnderKnows, Zenon
  <2>3. \A u \in Threads \ {t} : Listed(obj[u]) => Listed(obj[u])'
    BY <1>3, <1>7, Zenon DEF At, Others
  <2>4. \A u \in Threads \ {t} : Call(u)'
    <3>1. r \in Refs /\ r \notin Busy /\ \A s \in Refs \ {r} : ref'[s] = ref[s]
      BY <1>2, <1>4, Zenon
    <3>2. Others(t) /\ \A p \in Objs \ {o} : RefsTo(p)' = RefsTo(p) /\ lock'[p] = lock[p]
      BY <1>3, <1>6, <1>8, Zenon DEF At
    <3>3. \A u \in Threads \ {t} : pc[u] \in Creating \cup Ending => obj[u] # o
      BY <2>2, Zenon
    <3> QED
      BY <2>3, <3>1, <3>2, <3>3, CountOthers, Zenon DEF CountsOnly
  <2>5. OwnRefs(t) /\ Others(t) /\ pc'[t] \notin Ending
    BY <1>3, Zenon DEF At, OwnRefs, Ending
  <2> QED
    BY <2>1, <2>4, <2>5, CallsKeep, Zenon
<1>12. Chains'
  <2>1. ASSUME NEW j \in DOMAIN fh, NEW p \in Range(fh[j]) PROVE id'[p] = id[p]
    <3>1. p \in Objs
      BY <1>1 DEF TypeOK, Range
    <3>2. p # o
      BY <1>5, ListedInRange, Zenon
    <3> QED
      BY <1>8, <3>1, <3>2, Zenon
  <2> QED
    BY <1>2, <2>1 DEF IInv, Chains
<1>13. ASSUME NEW p \in Objs PROVE Object(p)'
  <2>1. CASE p = o
    <3>1. InCreate(o)'
      BY <1>3, Zenon DEF InCreate, At
    <3> QED
      BY <1>5, <1>6, <1>7, <1>8, <2>1, <3>1, TableAssumption, Zenon DEF Object
  <2>2. CASE p # o
    <3>1. InCreate(p)' <=> InCreate(p)
      BY <1>1, <1>3, <2>2, Zenon DEF InCreate, At, Others
    <3>2. Object(p)
      BY Zenon DEF IInv
    <3> QED
      BY <1>6, <1>7, <1>8, <2>2, <3>1, <3>2, Zenon DEF Object
  <2> QED
    BY <2>1, <2>2, Zenon
<1> QED
  BY <1>9, <1>10, <1>11, <1>12, <1>13, Zenon DEF IInv

(* hold counts the new reference.                                          *)
LEMMA HoldKeeps ==
  ASSUME Counting, IInv, NEW t \in Threads, hold_count(t)
  PROVE  IInv'
<1>0. PICK o, r : o = obj[t] /\ r = tok[t]
  BY Zenon
<1>1. TypeOK /\ pc[t] = "hold_count"
  BY Zenon DEF IInv, hold_count
<1>2. pc[t] \in HoldSteps /\ HasLock(t)
  BY <1>1, Zenon DEF HoldSteps, HasLock
<1>3. /\ r \in Refs /\ ref[r] = None
      /\ o \in Objs /\ RefsTo(o) # {} /\ ~InCreate(o)
  BY <1>0, <1>2, HolderKnows, InUse, Zenon
<1>4. ref' = [ref EXCEPT ![r] = o] /\ count' = [count EXCEPT ![o] = count[o] + 1]
  BY <1>0, Zenon DEF hold_count
<1>5. /\ RefsTo(o)' = RefsTo(o) \cup {r} /\ Cardinality(RefsTo(o)') = Cardinality(RefsTo(o)) + 1
      /\ \A p \in Objs \ {o} : RefsTo(p)' = RefsTo(p)
  BY <1>1, <1>3, <1>4, RefAdded, Zenon
<1>6. count[o] = Cardinality(RefsTo(o))
  BY <1>3, Zenon DEF IInv, Object
<1>7. count \in [Objs -> Nat] /\ ref \in [Refs -> Objs \cup {None}]
  BY <1>1, Zenon DEF TypeOK
<1>8. /\ ref' \in [Refs -> Objs \cup {None}] /\ \A s \in Refs \ {r} : ref'[s] = ref[s]
      /\ count' \in [Objs -> Nat] /\ \A p \in Objs \ {o} : count'[p] = count[p]
      /\ count'[o] = Cardinality(RefsTo(o)')
  BY <1>3, <1>4, <1>5, <1>6, <1>7
<1>9. /\ Return(t) /\ ReleaseLock(t) /\ fh' = fh /\ id' = id
      /\ hashlock' = IF hashlock = t THEN None ELSE hashlock
  BY Zenon DEF hold_count
<1>10. RefsTo(o)' # {}
  BY <1>5, Zenon
<1>11. Recounts(t, o, r)
  BY <1>0, <1>2, <1>3, <1>5, <1>8, <1>9, <1>10, Zenon DEF Recounts
<1> QED
  BY <1>3, <1>11, CountedKeeps, Zenon

(* rele gives up a reference that is not the last.                         *)
LEMMA DropKeeps ==
  ASSUME Counting, IInv, NEW t \in Threads, pc[t] \in {"rele_test", "rele_recheck"},
         count[obj[t]] # 1, Drop(t), ReleaseLock(t), Return(t), fh' = fh, id' = id,
         hashlock' = IF hashlock = t THEN None ELSE hashlock
  PROVE  IInv'
<1>0. PICK o, r : o = obj[t] /\ r = tok[t]
  BY Zenon
<1>1. TypeOK /\ pc[t] \in Dropping /\ HasLock(t)
  BY Zenon DEF IInv, Dropping, HasLock
<1>2. o \in Objs /\ r \in Refs /\ ref[r] = o /\ RefsTo(o) # {} /\ ~InCreate(o)
  BY <1>0, <1>1, DropperKnows, InUse, Zenon
<1>3. ref' = [ref EXCEPT ![r] = None] /\ count' = [count EXCEPT ![o] = count[o] - 1]
  BY <1>0, Zenon DEF Drop
<1>4. /\ RefsTo(o)' = RefsTo(o) \ {r} /\ Cardinality(RefsTo(o)') = Cardinality(RefsTo(o)) - 1
      /\ \A p \in Objs \ {o} : RefsTo(p)' = RefsTo(p)
  BY <1>1, <1>2, <1>3, RefDropped, Zenon
<1>5. count[o] = Cardinality(RefsTo(o))
  BY <1>2, Zenon DEF IInv, Object
<1>6. count \in [Objs -> Nat] /\ ref \in [Refs -> Objs \cup {None}]
  BY <1>1, Zenon DEF TypeOK
<1>7. count[o] \in Nat /\ count[o] > 1
  BY SMTT(30), <1>0, <1>2, <1>5, <1>6, RefsNumber
<1>8. /\ ref' \in [Refs -> Objs \cup {None}] /\ \A s \in Refs \ {r} : ref'[s] = ref[s]
      /\ count' \in [Objs -> Nat] /\ \A p \in Objs \ {o} : count'[p] = count[p]
      /\ count'[o] = Cardinality(RefsTo(o)')
  BY SMTT(30), <1>2, <1>3, <1>4, <1>5, <1>6, <1>7
<1>9. RefsTo(o)' # {}
  <2>1. Cardinality(RefsTo(o)') # 0
    BY <1>4, <1>5, <1>7
  <2>2. {} \in SUBSET Refs
    BY Zenon
  <2> QED
    BY <2>1, <2>2, Zenon DEF Counting
<1>10. Recounts(t, o, r)
  BY <1>0, <1>1, <1>2, <1>4, <1>8, <1>9, Zenon DEF Recounts
<1> QED
  BY <1>2, <1>10, CountedKeeps, Zenon

(* rele finds out whether its reference is the last.                       *)
LEMMA TestKeeps ==
  ASSUME Counting, IInv, NEW t \in Threads, rele_test(t) \/ rele_recheck(t)
  PROVE  IInv'
<1>1. TypeOK /\ Owners
  BY Zenon DEF IInv
<1>2. CASE rele_test(t) /\ count[obj[t]] = 1
  BY <1>2, LastKeeps, Zenon
<1>3. CASE rele_test(t) /\ count[obj[t]] # 1
  <2>1. hashlock # t
    BY <1>1, <1>3, Zenon DEF Owners, HasHashlock, HoldSteps, rele_test
  <2> QED
    BY <1>3, <2>1, DropKeeps, Zenon DEF rele_test
<1>4. CASE rele_recheck(t)
  <2>1. hashlock = t
    BY <1>1, <1>4, Zenon DEF Owners, HasHashlock, rele_recheck
  <2> QED
    BY <1>4, <2>1, DropKeeps, Zenon DEF rele_recheck
<1> QED
  BY <1>2, <1>3, <1>4, Zenon
-----------------------------------------------------------------------------
(* tfp->next = next: the k-th object of a chain is unlinked.               *)
LEMMA Unlinked ==
  ASSUME NEW s \in Seq(Objs), NEW k \in DOMAIN s
  PROVE  /\ Unlink(s, k) \in Seq(Objs)
         /\ IsInjective(s) => IsInjective(Unlink(s, k)) /\ Range(Unlink(s, k)) = Range(s) \ {s[k]}
<1> DEFINE n == Unlink(s, k)
<1>1. DOMAIN s = 1..Len(s) /\ Len(s) \in Nat /\ k \in 1..Len(s)
  OBVIOUS
<1>2. DOMAIN n = 1..(Len(s) - 1) /\ Len(s) - 1 \in Nat
  BY <1>1 DEF Unlink
<1>3. \A j \in DOMAIN n : n[j] = IF j < k THEN s[j] ELSE s[j + 1]
  BY Zenon DEF Unlink
<1>4. \A j \in DOMAIN n : j \in DOMAIN s /\ j + 1 \in DOMAIN s
  BY <1>1, <1>2
<1>5. n \in Seq(Objs)
  <2>1. \A j \in DOMAIN s : s[j] \in Objs
    OBVIOUS
  <2>2. n \in [1..(Len(s) - 1) -> Objs]
    <3>1. ASSUME NEW j \in DOMAIN n PROVE n[j] \in Objs
      BY <1>3, <1>4, <2>1, Zenon
    <3>2. n = [j \in DOMAIN n |-> n[j]]
      BY Zenon DEF Unlink
    <3> HIDE DEF n
    <3> QED
      BY <1>2, <3>1, <3>2, Zenon
  <2> HIDE DEF n
  <2> QED
    BY <1>2, <2>2
<1> HIDE DEF n
<1>6. ASSUME IsInjective(s), NEW i \in DOMAIN n, NEW j \in DOMAIN n, n[i] = n[j]
      PROVE  i = j
  <2> DEFINE m(l) == IF l < k THEN l ELSE l + 1
  <2>1. n[i] = s[m(i)] /\ n[j] = s[m(j)] /\ m(i) \in DOMAIN s /\ m(j) \in DOMAIN s
    BY <1>3, <1>4, Zenon
  <2>2. m(i) = m(j)
    <3> HIDE DEF m
    <3> QED
      BY <1>6, <2>1, Zenon DEF IsInjective
  <2> QED
    BY <1>1, <1>2, <2>2
<1>7. ASSUME IsInjective(s) PROVE Range(n) = Range(s) \ {s[k]}
  <2>1. ASSUME NEW j \in DOMAIN n PROVE n[j] \in Range(s) /\ n[j] # s[k]
    <3>1. CASE j < k
      BY <1>1, <1>2, <1>3, <1>4, <1>7, <3>1 DEF Range, IsInjective
    <3>2. CASE ~ (j < k)
      <4>1. n[j] = s[j + 1] /\ j + 1 \in DOMAIN s /\ j + 1 # k
        BY <1>1, <1>2, <1>3, <1>4, <3>2
      <4> QED
        BY <1>7, <4>1, Zenon DEF Range, IsInjective
    <3> QED
      BY <3>1, <3>2, Zenon
  <2>2. ASSUME NEW j \in DOMAIN s, s[j] # s[k] PROVE s[j] \in Range(n)
    <3>1. CASE j < k
      <4>1. j \in DOMAIN n /\ n[j] = s[j]
        BY <1>1, <1>2, <1>3, <3>1
      <4> QED
        BY <4>1, Zenon DEF Range
    <3>2. CASE j > k
      <4>1. j - 1 \in DOMAIN n /\ n[j - 1] = s[j]
        BY <1>1, <1>2, <1>3, <3>2
      <4> QED
        BY <4>1, Zenon DEF Range
    <3> QED
      BY <1>1, <2>2, <3>1, <3>2
  <2> QED
    BY <2>1, <2>2, Zenon DEF Range
<1> QED
  BY <1>5, <1>6, <1>7, Zenon DEF IsInjective, n

(* rele gives up the last reference, finds the object in its chain and     *)
(* unlinks it.                                                             *)
LEMMA RemoveKeeps ==
  ASSUME Counting, IInv, NEW t \in Threads, rele_remove(t)
  PROVE  IInv'
<1>0. PICK o, r, i, at : /\ o = obj[t] /\ r = tok[t] /\ i = HASH(id[o])
                         /\ at = {k \in DOMAIN fh[i] : fh[i][k] = o}
  BY Zenon
<1>1. TypeOK /\ Owners /\ Chains /\ pc[t] = "rele_recheck" /\ count[o] = 1
  BY <1>0, Zenon DEF IInv, rele_remove
<1>2. /\ Goto(t, IF at = {} THEN "segv" ELSE "rele_unlock") /\ UNCHANGED callVars
      /\ fh' = IF at = {} THEN fh ELSE [fh EXCEPT ![i] = Unlink(fh[i], CHOOSE k \in at : TRUE)]
      /\ ref' = [ref EXCEPT ![r] = None] /\ count' = [count EXCEPT ![o] = count[o] - 1]
      /\ lock' = lock /\ hashlock' = None /\ id' = id
  BY <1>0, Zenon DEF rele_remove, Drop
<1>3. pc[t] \in Dropping /\ HasLock(t) /\ HasHashlock(t)
  BY <1>1, Zenon DEF Dropping, HasLock, HasHashlock
<1>4. o \in Objs /\ r \in Refs /\ via[t] = None /\ ref[r] = o /\ ~InCreate(o) /\ RefsTo(o) # {}
  BY <1>0, <1>3, DropperKnows, InUse, Zenon
<1>5. Listed(o) /\ lock[o] \notin {"unborn", "destroyed"} /\ Cardinality(RefsTo(o)) = 1
  BY <1>1, <1>4, Zenon DEF IInv, Object
<1>6. RefsTo(o)' = {} /\ \A p \in Objs \ {o} : RefsTo(p)' = RefsTo(p)
  <2>1. /\ Cardinality(RefsTo(o)') = Cardinality(RefsTo(o)) - 1
        /\ RefsTo(o)' = RefsTo(o) \ {r}
        /\ \A p \in Objs \ {o} : RefsTo(p)' = RefsTo(p)
    BY <1>1, <1>2, <1>4, RefDropped, Zenon
  <2>2. RefsTo(o)' \in SUBSET Refs /\ Cardinality(RefsTo(o)') = 0
    BY <1>5, <2>1, RefsNumber
  <2> QED
    BY <2>1, <2>2, Zenon DEF Counting
<1>7. i \in DOMAIN fh /\ fh[i] \in Seq(Objs)
  BY <1>0, <1>1, <1>4, HashInRange, Zenon
<1>8. IsInjective(fh[i]) /\ \A p \in Range(fh[i]) : HASH(id[p]) = i
  BY <1>1, <1>7, Zenon DEF Chains
<1>9. o \in Range(fh[i]) /\ \A j \in DOMAIN fh \ {i} : o \notin Range(fh[j])
  BY <1>0, <1>1, <1>5, ListedInRange, Zenon DEF Chains
<1>10. at # {}
  BY <1>0, <1>9, Zenon DEF Range
<1>11. PICK k \in at : fh' = [fh EXCEPT ![i] = Unlink(fh[i], k)]
  BY <1>2, <1>10, Zenon
<1>12. k \in DOMAIN fh[i] /\ fh[i][k] = o
  BY <1>0, Zenon
<1>13. PICK n : n = Unlink(fh[i], k)
  BY Zenon
<1>14. n \in Seq(Objs) /\ IsInjective(n) /\ Range(n) = Range(fh[i]) \ {o}
  BY <1>7, <1>8, <1>12, <1>13, Unlinked, Zenon
<1>15. /\ fh' \in [0..(NHASH - 1) -> Seq(Objs)]
       /\ Chains'
       /\ \A p : Listed(p)' <=> p \in Range(n) \/ \E j \in DOMAIN fh \ {i} : p \in Range(fh[j])
  <2>1. \A p \in Range(n) : HASH(id[p]) = i
    BY <1>8, <1>14, Zenon
  <2> QED
    BY <1>1, <1>2, <1>7, <1>11, <1>13, <1>14, <2>1, ChainReplaced, Zenon
<1>16. ASSUME NEW p PROVE Listed(p)' <=> Listed(p) /\ p # o
  BY <1>7, <1>9, <1>14, <1>15, ListedInRange, Zenon
<1>17. At(t, "rele_unlock", o, r, None)
  <2>1. "rele_unlock" \in PcSteps
    BY Zenon DEF PcSteps, ReleSteps
  <2>2. Goto(t, "rele_unlock")
    BY <1>2, <1>10, Zenon
  <2> QED
    BY <1>0, <1>1, <1>2, <1>4, <2>1, <2>2, AtStep, Zenon
<1>18. count \in [Objs -> Nat] /\ ref \in [Refs -> Objs \cup {None}]
  BY <1>1, Zenon DEF TypeOK
<1>19. /\ ref' \in [Refs -> Objs \cup {None}] /\ \A s \in Refs \ {r} : ref'[s] = ref[s]
       /\ ref'[r] = None
       /\ count' \in [Objs -> Nat] /\ count'[o] = 0 /\ \A p \in Objs \ {o} : count'[p] = count[p]
  BY SMTT(30), <1>1, <1>2, <1>4, <1>18
<1>20. TypeOK'
  BY <1>1, <1>2, <1>15, <1>17, <1>19, Zenon DEF TypeOK, At, callVars
<1>21. Others(t) /\ OwnRefs(t) /\ ~HasHashlock(t)' /\ HasLock(t)' /\ obj'[t] = o
  BY <1>0, <1>17, Zenon DEF At, OwnRefs, HasHashlock, HasLock, HoldSteps
<1>22. Owners'
  <2>1. hashlock = t /\ \A p \in Objs : lock[p] = t <=> p = o
    BY SMTT(30), <1>0, <1>1, <1>3 DEF Owners
  <2> QED
    BY <1>2, <1>21, <2>1, OwnersKeep, TableAssumption, Zenon
<1>23. \A u \in Threads \ {t} : pc[u] \in Creating \cup Ending => obj[u] # o
  BY <1>4, CreatorKnows, EnderKnows, Zenon DEF InCreate, Creating
<1>24. \A u \in Threads \ {t} : Call(u)'
  <2>1. ASSUME NEW u \in Threads \ {t} PROVE ~ (pc[u] \in HoldSteps /\ via[u] = None)
    BY <1>1, <1>3, Zenon DEF Owners, HasHashlock
  <2>2. \A p \in Objs \ {o} : RefsTo(p)' = RefsTo(p) /\ lock'[p] = lock[p]
    BY <1>2, <1>6, Zenon
  <2>3. \A u \in Threads \ {t} :
          pc[u] \in HoldSteps /\ via[u] = None => (Listed(obj[u]) => Listed(obj[u])')
    BY <2>1, Zenon
  <2>4. r = tok[t] /\ \A s \in Refs \ {r} : ref'[s] = ref[s]
    BY <1>0, <1>19, Zenon
  <2> QED
    BY <1>4, <1>21, <1>23, <2>2, <2>3, <2>4, CountOthers, Zenon DEF CountsOnly
<1>25. Calls'
  <2>1. Call(t)'
    <3>1. /\ pc'[t] = "rele_unlock" /\ obj'[t] = o /\ tok'[t] = r /\ via'[t] = None
          /\ RefsTo(obj[t])' = {}
      BY <1>6, <1>17, Zenon DEF At
    <3>2. /\ pc'[t] \in Ending
          /\ pc'[t] \notin {"idle"} \cup Creating \cup Finding \cup HoldSteps \cup Dropping
      BY <3>1, Zenon DEF Creating, Finding, HoldSteps, Dropping, Ending
    <3>3. tok'[t] \in Refs /\ ref'[tok'[t]] = None /\ lock'[obj'[t]] \notin {"unborn", "destroyed"}
      BY <1>2, <1>4, <1>5, <1>19, <3>1, Zenon
    <3> QED
      BY <1>4, <3>1, <3>2, <3>3, Zenon DEF Call
  <2> QED
    BY <1>0, <1>21, <1>23, <1>24, <2>1, CallsKeep, Zenon
<1>26. ASSUME NEW p \in Objs PROVE Object(p)'
  <2>1. Object(p)
    BY Zenon DEF IInv
  <2>2. InCreate(p)' <=> InCreate(p)
    BY <1>1, <1>17, Zenon DEF InCreate, At, Others
  <2>3. CASE p = o
    <3>1. Cardinality(RefsTo(o)') = 0
      BY <1>6, {} \in SUBSET Refs, Zenon DEF Counting
    <3> QED
      BY <1>6, <1>16, <1>19, <2>3, <3>1, Zenon DEF Object
  <2>4. CASE p # o
    <3>1. /\ RefsTo(p)' = RefsTo(p) /\ count'[p] = count[p] /\ lock'[p] = lock[p]
          /\ Listed(p)' <=> Listed(p)
      BY <1>2, <1>6, <1>16, <1>19, <2>4, Zenon
    <3> QED
      BY <2>1, <2>2, <3>1, Zenon DEF Object
  <2> QED
    BY <2>3, <2>4, Zenon
<1> QED
  BY <1>15, <1>20, <1>22, <1>25, <1>26, Zenon DEF IInv

-----------------------------------------------------------------------------
(* The invariant is inductive.                                             *)
LEMMA InitIInv ==
  ASSUME Counting, Init
  PROVE  IInv
<1> USE TableAssumption DEF Init
<1>1. TypeOK
  <2>1. fh \in [0..(NHASH - 1) -> Seq(Objs)]
    OBVIOUS
  <2> QED
    BY <2>1, Zenon DEF TypeOK, PcSteps
<1>2. Owners
  BY Zenon DEF Owners, HasHashlock, HasLock, HoldSteps
<1>3. Calls
  BY Zenon DEF Calls, Call, Apart, Creating, Finding, HoldSteps, Dropping, Ending
<1>4. Chains
  BY DEF Chains, IsInjective, Range
<1>5. ASSUME NEW o \in Objs PROVE Object(o)
  <2>1. RefsTo(o) = {} /\ ~Listed(o)
    BY DEF RefsTo, Listed
  <2> QED
    BY Zenon, <2>1, RefsNumber DEF Object
<1> QED
  BY <1>1, <1>2, <1>3, <1>4, <1>5, Zenon DEF IInv

LEMMA NextIInv ==
  ASSUME Counting, IInv, [Next]_vars
  PROVE  IInv'
<1>1. ASSUME NEW t \in Threads, Client(t) PROVE IInv'
  BY <1>1, FooKeeps, CallKeeps, Zenon DEF Client
<1>2. ASSUME NEW t \in Threads, Method(t) PROVE IInv'
  <2>1. CASE create(t)
    BY <2>1, HashlockKeeps, InsertKeeps, Zenon DEF create
  <2>2. CASE find(t)
    BY <2>2, HashlockKeeps, FindKeeps, Zenon DEF find
  <2>3. CASE hold(t)
    <3>1. CASE CheckCount(t, "hold", "hold_lock")
      <4>1. count[obj[t]] # 0
        BY <3>1, Counted DEF CheckCount, HoldSteps
      <4> QED
        BY <3>1, <4>1, CountKeeps, Zenon
    <3>2. CASE AcquireLock(t, "hold_lock", "hold_count")
      BY <3>2, LockKeeps, Zenon
    <3> QED
      BY <2>3, <3>1, <3>2, HoldKeeps, Zenon DEF hold
  <2>4. CASE rele(t)
    <3>1. CASE CheckCount(t, "rele", "rele_lock")
      <4>1. count[obj[t]] # 0
        BY <3>1, Counted DEF CheckCount, Dropping
      <4> QED
        BY <3>1, <4>1, CountKeeps, Zenon
    <3>2. CASE AcquireLock(t, "rele_lock", "rele_test") \/ AcquireLock(t, "rele_relock", "rele_recheck")
      BY <3>2, LockKeeps, Zenon
    <3>3. CASE AcquireHash(t, "rele_hashlock", "rele_relock")
      BY <3>3, HashlockKeeps, Zenon
    <3> QED
      BY <2>4, <3>1, <3>2, <3>3, TestKeeps, RemoveKeeps, EndKeeps, Zenon DEF rele
  <2> QED
    BY <1>2, <2>1, <2>2, <2>3, <2>4, Zenon DEF Method
<1> QED
  BY <1>1, <1>2, StutterKeeps, Zenon DEF Next

-----------------------------------------------------------------------------
INSTANCE FiniteSetTheorems

(* There are finitely many references, and a set of places has a least.    *)
LEMMA CountingHolds == Counting
<1>1. ASSUME NEW S \in SUBSET Refs
      PROVE  /\ Cardinality(S) \in Nat
             /\ Cardinality(S) = 0 <=> S = {}
             /\ \A r \in Refs \ S : Cardinality(S \cup {r}) = Cardinality(S) + 1
             /\ \A r \in S : Cardinality(S \ {r}) = Cardinality(S) - 1
  <2>1. IsFiniteSet(S)
    BY TableAssumption, FS_Subset, Zenon
  <2>2. Cardinality(S) \in Nat /\ (Cardinality(S) = 0 <=> S = {})
    BY <2>1, FS_CardinalityType, FS_EmptySet, Zenon
  <2>3. \A r \in Refs \ S : Cardinality(S \cup {r}) = Cardinality(S) + 1
    BY <2>1, FS_AddElement, Zenon
  <2>4. \A r \in S : Cardinality(S \ {r}) = Cardinality(S) - 1
    BY <2>1, FS_RemoveElement, Zenon
  <2> QED
    BY <2>2, <2>3, <2>4, Zenon
<1>2. ASSUME NEW M \in SUBSET Nat, M # {} PROVE \E x \in M : \A y \in M : x <= y
  <2>1. PICK x \in M : \A y \in M : ~ (<<y, x>> \in OpToRel(<, Nat))
    BY <1>2, NatLessThanWellFounded, WFMin, Zenon
  <2>2. ASSUME NEW y \in M PROVE ~ (y < x) /\ x \in Nat /\ y \in Nat
    BY <1>2, <2>1, <2>2, Zenon DEF OpToRel
  <2>3. ASSUME NEW y \in M PROVE x <= y
    BY <2>2
  <2> QED
    BY <2>3, Zenon
<1> QED
  BY <1>1, <1>2, Zenon DEF Counting

LEMMA AlwaysIInv == Spec => []IInv
<1>1. Init => IInv
  BY CountingHolds, InitIInv, Zenon
<1>2. IInv /\ [Next]_vars => IInv'
  BY CountingHolds, NextIInv, Zenon
<1> QED
  BY <1>1, <1>2, PTL DEF Spec

(* Whatever create, find, hold and rele do to one another, for any number  *)
(* of threads: counts are right, the table holds what is referenced, no    *)
(* mutex is used once destroyed and no check of count fails (11/6:41-106). *)
THEOREM TableIsSound == Spec => []TableSound
  BY InvMeansSound, AlwaysIInv, PTL

(* rele takes lock before hashlock and find hashlock before lock, and yet  *)
(* no threads block one another: rele lets lock go before it waits, so who *)
(* has the lock of an object waits for nothing (11/6:70-74).               *)
THEOREM NoDeadlyEmbrace == Spec => []NoLockCycle
  BY InvMeansNoCycle, AlwaysIInv, PTL

(* rele decides under hashlock that its reference is the last, and from    *)
(* then on neither find nor hold comes upon the object (11/6:73-98).       *)
THEOREM NeverResurrected == Spec => NoResurrection
<1> DEFINE Keeps == \A o \in Objs : count[o] = 0 /\ lock[o] # "unborn" => count'[o] = 0
<1>1. ASSUME IInv, Next, NEW o \in Objs, count[o] = 0, lock[o] # "unborn" PROVE count'[o] = 0
  BY <1>1, CountingHolds, ZeroStays, Zenon
<1>2. IInv /\ [Next]_vars => [Keeps]_vars
  BY <1>1, Zenon
<1> QED
  BY <1>2, AlwaysIInv, PTL DEF Spec, NoResurrection
=============================================================================
