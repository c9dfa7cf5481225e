------------------------------ MODULE FooTable ------------------------------
(***************************************************************************)
(* 11/6_usage_two_mutex.cpp: reference-counted objects in a hash table,    *)
(* guarded by two mutexes, the table's hashlock and each object's lock.    *)
(* Threads call create, find, hold and rele.  A step of the model is the   *)
(* code up to the next pthread_mutex_lock, so that every wait for a mutex  *)
(* is a state of its own, and so are the checks of count made without one. *)
(*                                                                         *)
(* The clients of Spec are disciplined: they call hold and rele only on an *)
(* object they have a reference to.  A reference is a token r \in Refs;    *)
(* ref[r] is the object it refers to from the moment the code counts it to *)
(* the moment the code stops counting it.                                  *)
(***************************************************************************)
EXTENDS Naturals, FiniteSets, Sequences

CONSTANTS Threads, Objs, Ids, Refs, NHASH, None

ASSUME TableAssumption ==
  /\ NHASH \in Nat \ {0}
  /\ Ids \subseteq Nat
  /\ IsFiniteSet(Refs)
  /\ None \notin Threads \cup Objs \cup Refs
  /\ "unborn" \notin Threads \cup {None} /\ "destroyed" \notin Threads \cup {None}

VARIABLES fh,        \* bucket -> list of objects, from the head along next
          id, count, \* the fields of an object
          lock,      \* its mutex: "unborn", "destroyed", None (free) or a thread
          hashlock,  \* None or a thread
          pc, obj,   \* per thread: next step, the object it works on (this, fp)
          tok, via,  \* the reference the call makes or drops; the one it is called through
          key,       \* the argument of find
          ref        \* the object each reference refers to

vars == <<fh, id, count, lock, hashlock, pc, obj, tok, via, key, ref>>
callVars == <<obj, tok, via, key>>

HASH(i) == i % NHASH

Goto(t, s) == pc' = [pc EXCEPT ![t] = s]

Busy == {tok[t] : t \in Threads} \cup {via[t] : t \in Threads}

Init ==
  /\ fh = [i \in 0..(NHASH - 1) |-> <<>>]
  /\ id = [o \in Objs |-> 0]
  /\ count = [o \in Objs |-> 0]
  /\ lock = [o \in Objs |-> "unborn"]
  /\ hashlock = None
  /\ pc = [t \in Threads |-> "idle"]
  /\ obj = [t \in Threads |-> None]
  /\ tok = [t \in Threads |-> None]
  /\ via = [t \in Threads |-> None]
  /\ key = [t \in Threads |-> 0]
  /\ ref = [r \in Refs |-> None]

(* t returns from the call.                                                *)
Return(t) ==
  /\ Goto(t, "idle")
  /\ obj' = [obj EXCEPT ![t] = None]
  /\ tok' = [tok EXCEPT ![t] = None]
  /\ via' = [via EXCEPT ![t] = None]
  /\ UNCHANGED key

(* t calls a method: on object o, through reference v, to make or drop r.  *)
Enter(t, s, o, r, v) ==
  /\ pc[t] = "idle"
  /\ Goto(t, s)
  /\ obj' = [obj EXCEPT ![t] = o]
  /\ tok' = [tok EXCEPT ![t] = r]
  /\ via' = [via EXCEPT ![t] = v]

AcquireHash(t, from, to) ==
  /\ pc[t] = from
  /\ hashlock = None
  /\ hashlock' = t
  /\ Goto(t, to)
  /\ UNCHANGED <<fh, id, count, lock, ref, callVars>>

AcquireLock(t, from, to) ==
  /\ pc[t] = from
  /\ lock[obj[t]] = None
  /\ lock' = [lock EXCEPT ![obj[t]] = t]
  /\ Goto(t, to)
  /\ UNCHANGED <<fh, id, count, hashlock, ref, callVars>>

ReleaseLock(t) == lock' = [lock EXCEPT ![obj[t]] = None]

(* if (count == 0) throw, tested without a lock at the start of hold and   *)
(* of rele; nobody catches the exception.                                  *)
CheckCount(t, from, to) ==
  /\ pc[t] = from
  /\ Goto(t, IF count[obj[t]] = 0 THEN "threw" ELSE to)
  /\ UNCHANGED <<fh, id, count, lock, hashlock, ref, callVars>>

-----------------------------------------------------------------------------
(* create: the constructor, then the insertion at the head of the bucket.  *)
Foo(t, o, i, r) ==
  /\ lock[o] = "unborn"
  /\ ref[r] = None /\ r \notin Busy
  /\ Enter(t, "create_lock", o, r, None)
  /\ id' = [id EXCEPT ![o] = i]
  /\ count' = [count EXCEPT ![o] = 1]
  /\ lock' = [lock EXCEPT ![o] = None]
  /\ ref' = [ref EXCEPT ![r] = o]
  /\ UNCHANGED <<fh, hashlock, key>>

create_insert(t) ==
  /\ pc[t] = "create_insert"
  /\ fh' = [fh EXCEPT ![HASH(id[obj[t]])] = <<obj[t]>> \o @]
  /\ hashlock' = None
  /\ Return(t)
  /\ UNCHANGED <<id, count, lock, ref>>

create(t) == AcquireHash(t, "create_lock", "create_insert") \/ create_insert(t)

(* hold, called by a client or by find: hashlock tells which.              *)
hold_count(t) ==
  /\ pc[t] = "hold_count"
  /\ count' = [count EXCEPT ![obj[t]] = @ + 1]
  /\ ReleaseLock(t)
  /\ ref' = [ref EXCEPT ![tok[t]] = obj[t]]
  /\ hashlock' = IF hashlock = t THEN None ELSE hashlock
  /\ Return(t)
  /\ UNCHANGED <<fh, id>>

hold(t) ==
  \/ CheckCount(t, "hold", "hold_lock")
  \/ AcquireLock(t, "hold_lock", "hold_count")
  \/ hold_count(t)

(* find: the first object of the bucket with that id, or nullptr.          *)
Matches(t) == {k \in DOMAIN fh[HASH(key[t])] : id[fh[HASH(key[t])][k]] = key[t]}
First(t) == fh[HASH(key[t])][CHOOSE k \in Matches(t) : \A j \in Matches(t) : k <= j]

find_hold_unlocked(t) ==
  /\ pc[t] = "find_walk"
  /\ Matches(t) # {}
  /\ obj' = [obj EXCEPT ![t] = First(t)]
  /\ Goto(t, "hold")
  /\ hashlock' = None
  /\ UNCHANGED <<fh, id, count, lock, tok, via, key, ref>>

find_hold(t) ==
  /\ pc[t] = "find_walk"
  /\ Matches(t) # {}
  /\ obj' = [obj EXCEPT ![t] = First(t)]
  /\ Goto(t, "hold")
  /\ UNCHANGED <<fh, id, count, lock, hashlock, tok, via, key, ref>>

find_none(t) ==
  /\ pc[t] = "find_walk"
  /\ Matches(t) = {}
  /\ hashlock' = None
  /\ Return(t)
  /\ UNCHANGED <<fh, id, count, lock, ref>>

find(t) == AcquireHash(t, "find", "find_walk") \/ find_hold(t) \/ find_none(t)

(* rele gives the reference up.                                            *)
Drop(t) ==
  /\ count' = [count EXCEPT ![obj[t]] = @ - 1]
  /\ ref' = [ref EXCEPT ![tok[t]] = None]

rele_keeps_lock(t) ==
  /\ pc[t] = "rele_test"
  /\ \/ /\ count[obj[t]] = 1
        /\ Goto(t, "rele_hashlock")
        /\ UNCHANGED <<count, ref, lock, callVars>>
     \/ /\ count[obj[t]] # 1
        /\ Drop(t)
        /\ Return(t)
        /\ ReleaseLock(t)
  /\ UNCHANGED <<fh, id, hashlock>>

rele_test(t) ==
  /\ pc[t] = "rele_test"
  /\ \/ /\ count[obj[t]] = 1
        /\ Goto(t, "rele_hashlock")
        /\ UNCHANGED <<count, ref, callVars>>
     \/ /\ count[obj[t]] # 1
        /\ Drop(t)
        /\ Return(t)
  /\ ReleaseLock(t)
  /\ UNCHANGED <<fh, id, hashlock>>

rele_recheck_no_decrement(t) ==
  /\ pc[t] = "rele_recheck"
  /\ count[obj[t]] # 1
  /\ ref' = [ref EXCEPT ![tok[t]] = None]
  /\ ReleaseLock(t)
  /\ hashlock' = None
  /\ Return(t)
  /\ UNCHANGED <<fh, id, count>>

rele_recheck(t) ==
  /\ pc[t] = "rele_recheck"
  /\ count[obj[t]] # 1
  /\ Drop(t)
  /\ ReleaseLock(t)
  /\ hashlock' = None
  /\ Return(t)
  /\ UNCHANGED <<fh, id>>

(* The list without its k-th element.                                      *)
Unlink(s, k) == [j \in 1..(Len(s) - 1) |-> IF j < k THEN s[j] ELSE s[j + 1]]

rele_remove_always(t) ==
  LET o == obj[t]
      idx == HASH(id[o])
      at == {k \in DOMAIN fh[idx] : fh[idx][k] = o}
  IN /\ pc[t] = "rele_recheck"
     /\ Goto(t, IF at = {} THEN "segv" ELSE "rele_unlock")
     /\ fh' = IF at = {} THEN fh
              ELSE [fh EXCEPT ![idx] = Unlink(@, CHOOSE k \in at : TRUE)]
     /\ Drop(t)
     /\ hashlock' = None
     /\ UNCHANGED <<id, lock, callVars>>

(* The walk that looks for this runs off the list if it is not there.      *)
rele_remove(t) ==
  LET o == obj[t]
      idx == HASH(id[o])
      at == {k \in DOMAIN fh[idx] : fh[idx][k] = o}
  IN /\ pc[t] = "rele_recheck"
     /\ count[o] = 1
     /\ Goto(t, IF at = {} THEN "segv" ELSE "rele_unlock")
     /\ fh' = IF at = {} THEN fh
              ELSE [fh EXCEPT ![idx] = Unlink(@, CHOOSE k \in at : TRUE)]
     /\ Drop(t)
     /\ hashlock' = None
     /\ UNCHANGED <<id, lock, callVars>>

rele_unlock_missing(t) ==
  /\ pc[t] = "rele_unlock"
  /\ Goto(t, "rele_destroy")
  /\ UNCHANGED <<fh, id, count, lock, hashlock, ref, callVars>>

rele_unlock(t) ==
  /\ pc[t] = "rele_unlock"
  /\ ReleaseLock(t)
  /\ Goto(t, "rele_destroy")
  /\ UNCHANGED <<fh, id, count, hashlock, ref, callVars>>

rele_destroy(t) ==
  /\ pc[t] = "rele_destroy"
  /\ lock' = [lock EXCEPT ![obj[t]] = "destroyed"]
  /\ Return(t)
  /\ UNCHANGED <<fh, id, count, hashlock, ref>>

rele(t) ==
  \/ CheckCount(t, "rele", "rele_lock")
  \/ AcquireLock(t, "rele_lock", "rele_test")
  \/ rele_test(t)
  \/ AcquireHash(t, "rele_hashlock", "rele_relock")
  \/ AcquireLock(t, "rele_relock", "rele_recheck")
  \/ rele_recheck(t) \/ rele_remove(t) \/ rele_unlock(t) \/ rele_destroy(t)

-----------------------------------------------------------------------------
CallUnchanged == UNCHANGED <<fh, id, count, lock, hashlock, ref>>

call_find(t, i, r) ==
  /\ Enter(t, "find", None, r, None)
  /\ key' = [key EXCEPT ![t] = i]
  /\ CallUnchanged

call_hold(t, o, r, v) == Enter(t, "hold", o, r, v) /\ UNCHANGED key /\ CallUnchanged

call_rele(t, o, r) == Enter(t, "rele", o, r, None) /\ UNCHANGED key /\ CallUnchanged

(* A disciplined client: no reference is used by two calls at once.        *)
Client(t) ==
  \E r \in Refs \ Busy :
    \/ \E o \in Objs, i \in Ids : Foo(t, o, i, r)
    \/ \E i \in Ids : ref[r] = None /\ call_find(t, i, r)
    \/ \E v \in Refs \ Busy : ref[r] = None /\ ref[v] # None /\ call_hold(t, ref[v], r, v)
    \/ ref[r] # None /\ call_rele(t, ref[r], r)

Method(t) == create(t) \/ find(t) \/ hold(t) \/ rele(t)

Next == \E t \in Threads : Client(t) \/ Method(t)

Spec == Init /\ [][Next]_vars

-----------------------------------------------------------------------------
HoldSteps == {"hold", "hold_lock", "hold_count"}
ReleSteps == {"rele", "rele_lock", "rele_test", "rele_hashlock", "rele_relock",
              "rele_recheck", "rele_unlock", "rele_destroy"}
PcSteps == HoldSteps \cup ReleSteps
           \cup {"idle", "create_lock", "create_insert", "find", "find_walk", "threw", "segv"}
WaitsHashlock == {"create_lock", "find", "rele_hashlock"}
WaitsLock == {"hold_lock", "rele_lock", "rele_relock"}

(* Counts, hash chains, mutexes and the places of the threads; a mutex has *)
(* one owner at most.                                                      *)
TypeOK ==
  /\ fh \in [0..(NHASH - 1) -> Seq(Objs)]
  /\ id \in [Objs -> Ids \cup {0}]
  /\ count \in [Objs -> Nat]
  /\ lock \in [Objs -> {"unborn", "destroyed", None} \cup Threads]
  /\ hashlock \in Threads \cup {None}
  /\ pc \in [Threads -> PcSteps]
  /\ obj \in [Threads -> Objs \cup {None}]
  /\ tok \in [Threads -> Refs \cup {None}]
  /\ via \in [Threads -> Refs \cup {None}]
  /\ key \in [Threads -> Ids \cup {0}]
  /\ ref \in [Refs -> Objs \cup {None}]

RefsTo(o) == {r \in Refs : ref[r] = o}

(* The count of an object is the number of references to it, whatever      *)
(* races hold, find and the two paths of rele run.                         *)
CountIsReferences == \A o \in Objs : count[o] = Cardinality(RefsTo(o))

Listed(o) == \E i \in DOMAIN fh : \E k \in DOMAIN fh[i] : fh[i][k] = o
InCreate(o) == \E t \in Threads : obj[t] = o /\ pc[t] \in {"create_lock", "create_insert"}

(* An object can be found exactly as long as somebody refers to it, and    *)
(* under its id only: the table is neither leaking nor dangling.           *)
ListedIffReferenced ==
  /\ \A o \in Objs : Listed(o) <=> RefsTo(o) # {} /\ ~InCreate(o)
  /\ \A i \in DOMAIN fh : \A k \in DOMAIN fh[i] : HASH(id[fh[i][k]]) = i

(* The mutex of an object is destroyed only when free, and afterwards no   *)
(* thread locks it or is about to.                                         *)
NoUseAfterDestroy ==
  \A t \in Threads :
    /\ pc[t] = "rele_destroy" => lock[obj[t]] = None
    /\ pc[t] \in WaitsLock => lock[obj[t]] # "destroyed"

(* With disciplined clients neither hold nor rele ever throws, and rele    *)
(* always finds the object it has to remove.                               *)
NeverThrows == \A t \in Threads : pc[t] \notin {"threw", "segv"}

(* The thread that has the mutex t waits for.                              *)
Holder(t) ==
  CASE pc[t] \in WaitsHashlock -> hashlock
    [] pc[t] \in WaitsLock -> lock[obj[t]]
    [] OTHER -> None

(* No set of threads waits for mutexes that threads of the set have,       *)
(* although rele takes lock, then hashlock, and find hashlock, then lock.  *)
NoLockCycle == \A S \in SUBSET Threads : S # {} => \E t \in S : Holder(t) \notin S

(* An object whose last reference was dropped is never counted up again.   *)
NoResurrection ==
  [][\A o \in Objs : count[o] = 0 /\ lock[o] # "unborn" => count'[o] = 0]_vars

(* What the table holds is what clients refer to, no mutex is used once it *)
(* is destroyed, and the checks of count never fail for a client that      *)
(* keeps to the rules (11/6:44-80).                                        *)
TableSound ==
  /\ TypeOK /\ CountIsReferences /\ ListedIffReferenced
  /\ NoUseAfterDestroy /\ NeverThrows
=============================================================================
