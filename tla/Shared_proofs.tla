--------------------------- MODULE Shared_proofs ---------------------------
(***************************************************************************)
(* Proofs about what threads share: the re-entrant mutex, for any finite   *)
(* set of threads and any recursion depth, shared dictionaries, for any    *)
(* finite sets of dictionaries and of objects that refer to them, and the  *)
(* loaded catalogs, for any files, requests and MAX_CATAL_DEPTH: a file is *)
(* parsed once, and the guard against loops is sound.                      *)
(***************************************************************************)
EXTENDS RMutex, Dict, Catalog, FiniteSetTheorems, SequenceTheorems, TLAPS

-----------------------------------------------------------------------------
(* The re-entrant mutex.                                                   *)

(* Threads between their first wait and their acquisition.                 *)
Waiting == {t \in Threads : pc[t] \in {"suspended", "woken", "recheck"}}

(* The inner pthread mutex protects every phase that reads tok's fields.   *)
InnerOwned ==
  \A t \in Threads : pc[t] \in {"locking", "recheck", "unlocking"} <=> lock = t

(* tok->held and tok->tid are the recursion count of the one owner.        *)
OwnerCounted == held > 0 => tid \in Threads /\ depth[tid] = held

(* Only an owner runs xmlRMutexUnlock.                                     *)
UnlockerOwns == \A t \in Threads : pc[t] = "unlocking" => depth[t] > 0

Suspended == cv = {t \in Threads : pc[t] = "suspended"}

(* tok->waiters counts the waiting threads, barging or not.                *)
WaitersCounted == waiters = Cardinality(Waiting)

(* The inductive invariant behind mutual exclusion ...                     *)
OwnerInv ==
  /\ TypeOK
  /\ InnerOwned
  /\ OwnerCounted
  /\ UnlockerOwns
  /\ MutualExclusion

(* ... and the one behind the absence of lost wakeups.                     *)
WakeInv ==
  /\ Suspended
  /\ WaitersCounted
  /\ NoLostWakeup

-----------------------------------------------------------------------------
USE DEF PCs

(* A new mutex has no owner.                                               *)
LEMMA OwnerInit == Init => OwnerInv
BY ThreadsAssumption DEF Init, OwnerInv, TypeOK, InnerOwned, OwnerCounted,
   UnlockerOwns, MutualExclusion

(* The waiting threads can be counted.                                     *)
LEMMA WaitingFinite == IsFiniteSet(Waiting) /\ Cardinality(Waiting) \in Nat
BY ThreadsAssumption, FS_Subset, FS_CardinalityType DEF Waiting

(* Every step keeps the type of the fields, given that a thread which ends *)
(* its wait was counted as a waiter and that an unlocker holds the mutex.  *)
LEMMA TypeStep ==
  ASSUME OwnerInv, WaitersCounted, [Next]_vars
  PROVE  TypeOK'
<1> USE ThreadsAssumption, DepthAssumption DEF TypeOK, OwnerInv
<1>1. ASSUME NEW t \in Threads, LockEnter(t) PROVE TypeOK'
  BY <1>1 DEF LockEnter, AcquireInner
<1>2. ASSUME NEW t \in Threads, LockFree(t) PROVE TypeOK'
  BY <1>2 DEF LockFree, TakeOwnership, ReleaseInner
<1>3. ASSUME NEW t \in Threads, LockRecursive(t) PROVE TypeOK'
  BY <1>3 DEF LockRecursive, ReleaseInner
<1>4. ASSUME NEW t \in Threads, LockContended(t) PROVE TypeOK'
  BY <1>4 DEF LockContended, Suspend, ReleaseInner
<1>5. ASSUME NEW t \in Threads, SpuriousWakeup(t) PROVE TypeOK'
  BY <1>5 DEF SpuriousWakeup
<1>6. ASSUME NEW t \in Threads, Reacquire(t) PROVE TypeOK'
  BY <1>6 DEF Reacquire, AcquireInner
<1>7. ASSUME NEW t \in Threads, WaitAgain(t) PROVE TypeOK'
  BY <1>7 DEF WaitAgain, Suspend, ReleaseInner
<1>8. ASSUME NEW t \in Threads, WaitDone(t) PROVE TypeOK'
  <2>1. t \in Waiting
    BY <1>8 DEF WaitDone, Waiting
  <2>2. Cardinality(Waiting) # 0
    BY <2>1, WaitingFinite, FS_EmptySet
  <2>3. waiters - 1 \in Nat
    BY <2>2, WaitingFinite DEF WaitersCounted
  <2> QED BY <1>8, <2>3 DEF WaitDone, TakeOwnership, ReleaseInner
<1>9. ASSUME NEW t \in Threads, UnlockEnter(t) PROVE TypeOK'
  BY <1>9 DEF UnlockEnter, AcquireInner
<1>10. ASSUME NEW t \in Threads, UnlockInner(t) PROVE TypeOK'
  BY <1>10 DEF UnlockInner, ReleaseInner, UnlockerOwns
<1>11. ASSUME NEW t \in Threads, UnlockLast(t) PROVE TypeOK'
  BY <1>11 DEF UnlockLast, Signal, UnlockerOwns
<1>12. CASE UNCHANGED vars
  BY <1>12 DEF vars
<1> QED
  BY <1>1, <1>2, <1>3, <1>4, <1>5, <1>6, <1>7, <1>8, <1>9, <1>10, <1>11, <1>12
  DEF Next, LockStep, Unlock

(* Ownership is inductive: only the owner of the inner mutex writes held   *)
(* and tid, and it takes the mutex over only when held is 0.               *)
LEMMA OwnerStep ==
  ASSUME OwnerInv, Suspended, TypeOK', [Next]_vars
  PROVE  OwnerInv'
<1> USE ThreadsAssumption, DepthAssumption
    DEF OwnerInv, TypeOK, InnerOwned, OwnerCounted, UnlockerOwns, MutualExclusion
<1>1. ASSUME NEW t \in Threads, LockEnter(t) PROVE OwnerInv'
  BY <1>1 DEF LockEnter, AcquireInner
<1>2. ASSUME NEW t \in Threads, LockFree(t) PROVE OwnerInv'
  BY <1>2 DEF LockFree, TakeOwnership, ReleaseInner
<1>3. ASSUME NEW t \in Threads, LockRecursive(t) PROVE OwnerInv'
  BY <1>3 DEF LockRecursive, ReleaseInner
<1>4. ASSUME NEW t \in Threads, LockContended(t) PROVE OwnerInv'
  BY <1>4 DEF LockContended, Suspend, ReleaseInner
<1>5. ASSUME NEW t \in Threads, SpuriousWakeup(t) PROVE OwnerInv'
  BY <1>5 DEF SpuriousWakeup, Suspended
<1>6. ASSUME NEW t \in Threads, Reacquire(t) PROVE OwnerInv'
  BY <1>6 DEF Reacquire, AcquireInner
<1>7. ASSUME NEW t \in Threads, WaitAgain(t) PROVE OwnerInv'
  BY <1>7 DEF WaitAgain, Suspend, ReleaseInner
<1>8. ASSUME NEW t \in Threads, WaitDone(t) PROVE OwnerInv'
  BY <1>8 DEF WaitDone, TakeOwnership, ReleaseInner
<1>9. ASSUME NEW t \in Threads, UnlockEnter(t) PROVE OwnerInv'
  BY <1>9 DEF UnlockEnter, AcquireInner
<1>10. ASSUME NEW t \in Threads, UnlockInner(t) PROVE OwnerInv'
  BY <1>10 DEF UnlockInner, ReleaseInner
<1>11. ASSUME NEW t \in Threads, UnlockLast(t) PROVE OwnerInv'
  BY <1>11 DEF UnlockLast, Signal, Suspended
<1>12. CASE UNCHANGED vars
  BY <1>12 DEF vars
<1> QED
  BY <1>1, <1>2, <1>3, <1>4, <1>5, <1>6, <1>7, <1>8, <1>9, <1>10, <1>11, <1>12
  DEF Next, LockStep, Unlock

(* The set of waiting threads grows only when a contended lock first       *)
(* waits, and shrinks only when a waiter acquires; tok->waiters follows.   *)
LEMMA CountStep ==
  ASSUME TypeOK, Suspended, WaitersCounted, [Next]_vars
  PROVE  WaitersCounted'
<1> USE ThreadsAssumption DEF TypeOK, WaitersCounted
<1>1. ASSUME Waiting' = Waiting, waiters' = waiters PROVE WaitersCounted'
  BY <1>1
<1>2. ASSUME NEW t \in Threads,
             LockEnter(t) \/ LockFree(t) \/ LockRecursive(t) \/ Reacquire(t)
      PROVE  Waiting' = Waiting /\ waiters' = waiters
  BY <1>2 DEF Waiting, LockEnter, LockFree, LockRecursive, Reacquire,
     AcquireInner, TakeOwnership, ReleaseInner
<1>3. ASSUME NEW t \in Threads,
             SpuriousWakeup(t) \/ WaitAgain(t) \/ UnlockEnter(t) \/ UnlockInner(t)
      PROVE  Waiting' = Waiting /\ waiters' = waiters
  BY <1>3 DEF Waiting, Suspended, SpuriousWakeup, WaitAgain, UnlockEnter,
     UnlockInner, AcquireInner, Suspend, ReleaseInner
<1>4. ASSUME NEW t \in Threads, UnlockLast(t)
      PROVE  Waiting' = Waiting /\ waiters' = waiters
  BY <1>4 DEF Waiting, Suspended, UnlockLast, Signal
<1>5. ASSUME NEW t \in Threads, LockContended(t) PROVE WaitersCounted'
  <2>1. t \notin Waiting /\ Waiting' = Waiting \cup {t} /\ waiters' = waiters + 1
    BY <1>5 DEF Waiting, LockContended, Suspend, ReleaseInner
  <2> QED BY <2>1, WaitingFinite, FS_AddElement
<1>6. ASSUME NEW t \in Threads, WaitDone(t) PROVE WaitersCounted'
  <2>1. t \in Waiting /\ Waiting' = Waiting \ {t} /\ waiters' = waiters - 1
    BY <1>6 DEF Waiting, WaitDone, TakeOwnership, ReleaseInner
  <2> QED BY <2>1, WaitingFinite, FS_RemoveElement
<1>7. CASE UNCHANGED vars
  BY <1>7, <1>1 DEF vars, Waiting
<1> QED
  BY <1>1, <1>2, <1>3, <1>4, <1>5, <1>6, <1>7 DEF Next, LockStep, Unlock

(* The condition variable's queue is the set of suspended threads.         *)
LEMMA SuspendedStep ==
  ASSUME TypeOK, Suspended, [Next]_vars
  PROVE  Suspended'
<1> USE DEF TypeOK, Suspended
<1>1. ASSUME NEW t \in Threads, LockEnter(t) \/ LockStep(t) PROVE Suspended'
  BY <1>1 DEF LockEnter, LockStep, LockFree, LockRecursive, LockContended,
     Reacquire, WaitAgain, WaitDone, AcquireInner, Suspend, TakeOwnership,
     ReleaseInner
<1>2. ASSUME NEW t \in Threads, SpuriousWakeup(t) \/ Unlock(t) PROVE Suspended'
  BY <1>2 DEF SpuriousWakeup, Unlock, UnlockEnter, UnlockInner, UnlockLast,
     Signal, AcquireInner, ReleaseInner
<1>3. CASE UNCHANGED vars
  BY <1>3 DEF vars
<1> QED BY <1>1, <1>2, <1>3 DEF Next

(* The last unlock signals whenever someone is suspended, because everyone *)
(* suspended is counted in tok->waiters.                                   *)
LEMMA WakeStep ==
  ASSUME OwnerInv, WakeInv, [Next]_vars
  PROVE  NoLostWakeup'
<1> USE DEF OwnerInv, TypeOK, WakeInv, NoLostWakeup
<1>1. ASSUME NEW t \in Threads, LockEnter(t) \/ UnlockEnter(t) \/ Reacquire(t)
      PROVE  NoLostWakeup'
  BY <1>1 DEF LockEnter, UnlockEnter, Reacquire, AcquireInner
<1>2. ASSUME NEW t \in Threads, LockFree(t) \/ LockRecursive(t) \/ WaitDone(t)
      PROVE  NoLostWakeup'
  BY <1>2 DEF LockFree, LockRecursive, WaitDone, TakeOwnership
<1>3. ASSUME NEW t \in Threads, LockContended(t) \/ WaitAgain(t) \/ UnlockInner(t)
      PROVE  NoLostWakeup'
  BY <1>3 DEF LockContended, WaitAgain, UnlockInner
<1>4. ASSUME NEW t \in Threads, SpuriousWakeup(t) PROVE NoLostWakeup'
  BY <1>4 DEF SpuriousWakeup
<1>5. ASSUME NEW t \in Threads, UnlockLast(t) PROVE NoLostWakeup'
  <2>1. CASE cv = {}
    BY <1>5, <2>1 DEF UnlockLast, Signal
  <2>2. CASE cv # {}
    <3>1. Waiting # {}
      BY <2>2 DEF Waiting, Suspended
    <3>2. waiters > 0
      BY <3>1, WaitingFinite, FS_EmptySet DEF WaitersCounted
    <3>3. PICK w \in cv : pc' = [pc EXCEPT ![w] = "woken", ![t] = "run"]
      BY <1>5, <2>2, <3>2 DEF UnlockLast, Signal
    <3>4. w # t
      BY <1>5, <3>3 DEF UnlockLast, Suspended
    <3> QED BY <3>3, <3>4
  <2> QED BY <2>1, <2>2
<1>6. CASE UNCHANGED vars
  BY <1>6 DEF vars
<1> QED
  BY <1>1, <1>2, <1>3, <1>4, <1>5, <1>6 DEF Next, LockStep, Unlock

(* Together they are inductive.                                            *)
LEMMA RMutexInductive == Spec => [](OwnerInv /\ WakeInv)
<1>1. Init => OwnerInv /\ WakeInv
  <2>1. Init => Waiting = {}
    BY DEF Init, Waiting
  <2>2. Init => WakeInv
    BY <2>1, FS_EmptySet DEF Init, WakeInv, Suspended, WaitersCounted, NoLostWakeup
  <2> QED BY <2>2, OwnerInit
<1>2. OwnerInv /\ WakeInv /\ [Next]_vars => (OwnerInv /\ WakeInv)'
  <2> SUFFICES ASSUME OwnerInv, WakeInv, [Next]_vars
               PROVE  OwnerInv' /\ WakeInv'
    OBVIOUS
  <2>1. Suspended /\ WaitersCounted /\ TypeOK
    BY DEF WakeInv, OwnerInv
  <2>2. TypeOK'
    BY <2>1, TypeStep
  <2>3. OwnerInv'
    BY <2>1, <2>2, OwnerStep
  <2>4. Suspended' /\ WaitersCounted' /\ NoLostWakeup'
    BY <2>1, CountStep, SuspendedStep, WakeStep
  <2> QED BY <2>3, <2>4 DEF WakeInv
<1> QED BY <1>1, <1>2, PTL DEF Spec

(* xmlRMutexLock and xmlRMutexUnlock (threads.c:233-283) keep the type of  *)
(* the mutex: the waiter count never goes negative.                        *)
THEOREM RMutexType == Spec => []TypeOK
<1>1. OwnerInv => TypeOK
  BY DEF OwnerInv
<1> QED BY <1>1, RMutexInductive, PTL

(* Any number of threads, any recursion depth: at most one thread holds    *)
(* the xmlRMutex and held is its recursion count (threads.c:233-283).      *)
THEOREM RMutexExclusion == Spec => []MutualExclusion
<1>1. OwnerInv => MutualExclusion
  BY DEF OwnerInv
<1> QED BY <1>1, RMutexInductive, PTL

(* Any number of threads: a free xmlRMutex with a suspended waiter always  *)
(* has a woken waiter on its way (threads.c:246-250, 272-276).             *)
THEOREM RMutexNoLostWakeup == Spec => []NoLostWakeup
<1>1. WakeInv => NoLostWakeup
  BY DEF WakeInv
<1> QED BY <1>1, RMutexInductive, PTL

-----------------------------------------------------------------------------
(* Shared dictionaries.                                                    *)

(* The four invariants are inductive together: the counter is exact only   *)
(* while nobody refers to freed memory, and memory is freed once only      *)
(* because the counter is exact.                                           *)
DictInv == DictTypeOK /\ RefCountExact /\ NoDangling /\ FreedOnce

-----------------------------------------------------------------------------
(* Before any call no dictionary exists: the invariant holds.              *)
LEMMA DictInitInv == DictInit => DictInv
BY DictAssumption DEF DictInit, DictInv, DictTypeOK, RefCountExact, NoDangling, FreedOnce

(* What refers to a dictionary can be counted.                             *)
LEMMA CountsFinite ==
  ASSUME DictTypeOK, NEW d \in Dicts
  PROVE  /\ IsFiniteSet(HandlesOf(d)) /\ Cardinality(HandlesOf(d)) \in Nat
         /\ IsFiniteSet(Heirs(d)) /\ Cardinality(Heirs(d)) \in Nat
<1>1. IsFiniteSet(HandlesOf(d))
  BY DictAssumption, FS_Subset DEF HandlesOf
<1>2. IsFiniteSet(alive)
  BY DictAssumption, FS_Subset DEF DictTypeOK
<1>3. IsFiniteSet(Heirs(d))
  BY <1>2, FS_Subset DEF Heirs
<1> QED BY <1>1, <1>3, FS_CardinalityType

(* A dictionary with a reference has a positive counter ...                *)
LEMMA ReferredCounted ==
  ASSUME DictInv, NEW d \in alive, HandlesOf(d) # {} \/ Heirs(d) # {}
  PROVE  ref[d] > 0
<1>1. d \in Dicts
  BY DEF DictInv, DictTypeOK
<1>2. Cardinality(HandlesOf(d)) # 0 \/ Cardinality(Heirs(d)) # 0
  BY <1>1, CountsFinite, FS_EmptySet DEF DictInv
<1> QED BY <1>1, <1>2, CountsFinite DEF DictInv, RefCountExact

(* ... and one without references is what xmlDictFree frees.               *)
LEMMA UncountedUnreferred ==
  ASSUME DictInv, NEW d \in alive, ref[d] = 0
  PROVE  HandlesOf(d) = {} /\ Heirs(d) = {}
<1>1. d \in Dicts
  BY DEF DictInv, DictTypeOK
<1>2. Cardinality(HandlesOf(d)) + Cardinality(Heirs(d)) = 0
  BY DEF DictInv, RefCountExact
<1>3. Cardinality(HandlesOf(d)) = 0 /\ Cardinality(Heirs(d)) = 0
  BY <1>1, <1>2, CountsFinite DEF DictInv
<1> QED BY <1>1, <1>3, CountsFinite, FS_EmptySet DEF DictInv

(* The innermost call of a running xmlDictFree.                            *)
LEMMA TopFreed ==
  ASSUME DictInv, NEW t \in DictThreads, freeing[t] # <<>>
  PROVE  /\ Len(freeing[t]) \in Nat \ {0}
         /\ TopCall(t) = freeing[t][Len(freeing[t])]
         /\ TopCall(t) \in alive /\ TopCall(t) \in Dicts /\ ref[TopCall(t)] = 0
<1>1. freeing[t] \in Seq(Dicts) /\ freeing[t] # <<>>
  BY DEF DictInv, DictTypeOK
<1>2. Len(freeing[t]) \in Nat \ {0} /\ Len(freeing[t]) \in 1..Len(freeing[t])
  BY <1>1
<1> QED BY <1>2 DEF TopCall, DictInv, NoDangling, FreedOnce, DictTypeOK

(* A dictionary that something refers to is not being freed.               *)
LEMMA ReferredNotFreed ==
  ASSUME DictInv, NEW d \in alive, ref[d] > 0
  PROVE  \A t \in DictThreads : \A i \in 1..Len(freeing[t]) : freeing[t][i] # d
BY DEF DictInv, FreedOnce

-----------------------------------------------------------------------------
(* xmlDictCreate keeps the invariant.                                      *)
LEMMA CreateStep ==
  ASSUME DictInv, NEW h \in Handles, NEW d \in Dicts, xmlDictCreate(h, d)
  PROVE  DictInv'
<1> USE DEF xmlDictCreate
<1>1. DictTypeOK'
  BY DEF DictInv, DictTypeOK
<1>2. HandlesOf(d)' = {h} /\ Heirs(d)' = {}
  BY DictAssumption DEF DictInv, NoDangling, DictTypeOK, HandlesOf, Heirs
<1>3. ASSUME NEW e \in alive
      PROVE  HandlesOf(e)' = HandlesOf(e) /\ Heirs(e)' = Heirs(e) /\ ref'[e] = ref[e]
  BY <1>3, DictAssumption DEF DictInv, NoDangling, DictTypeOK, HandlesOf, Heirs
<1>4. RefCountExact'
  <2>1. Cardinality(HandlesOf(d)') = 1
    BY <1>2, FS_Singleton
  <2>2. Cardinality(Heirs(d)') = 0
    BY <1>2, FS_EmptySet
  <2>3. ref'[d] = 1
    BY DEF DictInv, DictTypeOK
  <2> QED BY <1>3, <2>1, <2>2, <2>3 DEF DictInv, RefCountExact
<1>5. NoDangling'
  BY DEF DictInv, NoDangling, DictTypeOK
<1>6. FreedOnce'
  BY DEF DictInv, FreedOnce, NoDangling, DictTypeOK
<1> QED BY <1>1, <1>4, <1>5, <1>6 DEF DictInv

(* xmlDictCreateSub keeps the invariant: one more heir, one more count.    *)
LEMMA CreateSubStep ==
  ASSUME DictInv, NEW h \in Handles, NEW g \in Handles, NEW d \in Dicts,
         xmlDictCreateSub(h, d, g)
  PROVE  DictInv'
<1> DEFINE s == dictOf[g]
<1> USE DEF xmlDictCreateSub
<1>0. s \in alive /\ s \in Dicts /\ s # d /\ ref[s] > 0
  <2>1. s \in alive /\ s \in Dicts /\ s # d /\ g \in HandlesOf(s)
    BY DEF DictInv, NoDangling, DictTypeOK, HandlesOf
  <2> QED BY <2>1, ReferredCounted
<1>1. DictTypeOK'
  BY <1>0 DEF DictInv, DictTypeOK
<1>2. HandlesOf(d)' = {h} /\ Heirs(d)' = {} /\ ref'[d] = 1
  BY <1>0, DictAssumption DEF DictInv, NoDangling, DictTypeOK, HandlesOf, Heirs
<1>3. ASSUME NEW e \in alive \ {s}
      PROVE  HandlesOf(e)' = HandlesOf(e) /\ Heirs(e)' = Heirs(e) /\ ref'[e] = ref[e]
  BY <1>0, <1>3, DictAssumption DEF DictInv, NoDangling, DictTypeOK, HandlesOf, Heirs
<1>4. /\ HandlesOf(s)' = HandlesOf(s) /\ Heirs(s)' = Heirs(s) \cup {d}
      /\ d \notin Heirs(s) /\ ref'[s] = ref[s] + 1
  BY <1>0, DictAssumption DEF DictInv, NoDangling, DictTypeOK, HandlesOf, Heirs
<1>5. RefCountExact'
  <2>1. Cardinality(HandlesOf(d)') = 1
    BY <1>2, FS_Singleton
  <2>2. Cardinality(Heirs(d)') = 0
    BY <1>2, FS_EmptySet
  <2>3. Cardinality(Heirs(s)') = Cardinality(Heirs(s)) + 1
    BY <1>0, <1>4, CountsFinite, FS_AddElement, ZenonT(60) DEF DictInv
  <2>4. ref'[s] = Cardinality(HandlesOf(s)') + Cardinality(Heirs(s)')
    BY <1>0, <1>4, <2>3, CountsFinite DEF DictInv, RefCountExact
  <2>5. ASSUME NEW e \in alive'
        PROVE  ref'[e] = Cardinality(HandlesOf(e)') + Cardinality(Heirs(e)')
    <3>1. CASE e = d
      BY <3>1, <1>2, <2>1, <2>2
    <3>2. CASE e = s
      BY <3>2, <2>4
    <3>3. CASE e \in alive \ {s}
      BY <3>3, <1>3 DEF DictInv, RefCountExact
    <3> QED BY <2>5, <3>1, <3>2, <3>3
  <2> QED BY <2>5 DEF RefCountExact
<1>6. NoDangling'
  BY <1>0 DEF DictInv, NoDangling, DictTypeOK
<1>7. FreedOnce'
  BY <1>0, ReferredNotFreed, SMTT(60) DEF DictInv, FreedOnce, NoDangling, DictTypeOK
<1> QED BY <1>1, <1>5, <1>6, <1>7 DEF DictInv

(* xmlDictReference keeps the invariant: one more object, one more count.  *)
LEMMA ReferenceStep ==
  ASSUME DictInv, NEW h \in Handles, NEW g \in Handles, xmlDictReference(h, g)
  PROVE  DictInv'
<1> DEFINE s == dictOf[g]
<1> USE DEF xmlDictReference
<1>0. s \in alive /\ s \in Dicts /\ ref[s] > 0
  <2>1. s \in alive /\ s \in Dicts /\ g \in HandlesOf(s)
    BY DEF DictInv, NoDangling, DictTypeOK, HandlesOf
  <2> QED BY <2>1, ReferredCounted
<1>1. DictTypeOK'
  BY <1>0 DEF DictInv, DictTypeOK
<1>2. ASSUME NEW e \in alive \ {s}
      PROVE  HandlesOf(e)' = HandlesOf(e) /\ Heirs(e)' = Heirs(e) /\ ref'[e] = ref[e]
  BY <1>0, <1>2, DictAssumption DEF DictInv, DictTypeOK, HandlesOf, Heirs
<1>3. /\ HandlesOf(s)' = HandlesOf(s) \cup {h} /\ Heirs(s)' = Heirs(s)
      /\ h \notin HandlesOf(s) /\ ref'[s] = ref[s] + 1
  BY <1>0, DictAssumption DEF DictInv, DictTypeOK, HandlesOf, Heirs
<1>4. RefCountExact'
  <2>1. Cardinality(HandlesOf(s)') = Cardinality(HandlesOf(s)) + 1
    BY <1>0, <1>3, CountsFinite, FS_AddElement DEF DictInv
  <2>2. ref'[s] = Cardinality(HandlesOf(s)') + Cardinality(Heirs(s)')
    BY <1>0, <1>3, <2>1, CountsFinite DEF DictInv, RefCountExact
  <2> QED BY <1>2, <2>2 DEF DictInv, RefCountExact
<1>5. NoDangling'
  BY <1>0 DEF DictInv, NoDangling, DictTypeOK
<1>6. FreedOnce'
  BY <1>0, ReferredNotFreed, SMTT(60) DEF DictInv, FreedOnce, NoDangling, DictTypeOK
<1> QED BY <1>1, <1>4, <1>5, <1>6 DEF DictInv

(* xmlDictLookup keeps the invariant.                                      *)
LEMMA LookupStep ==
  ASSUME DictInv, NEW h \in Handles, NEW s \in Strings, xmlDictLookup(h, s)
  PROVE  DictInv'
<1>0. UNCHANGED <<alive, ref, sub, dictOf, freeing>>
  BY DEF xmlDictLookup
<1>1. DictTypeOK'
  BY DEF xmlDictLookup, DictInv, DictTypeOK
<1>2. RefCountExact'
  BY <1>0 DEF DictInv, RefCountExact, HandlesOf, Heirs
<1>3. NoDangling'
  BY <1>0 DEF DictInv, NoDangling
<1>4. FreedOnce'
  BY <1>0 DEF DictInv, FreedOnce
<1> QED BY <1>1, <1>2, <1>3, <1>4 DEF DictInv

-----------------------------------------------------------------------------
(* xmlDictFree up to its unlock keeps the invariant.                       *)
LEMMA FreeDecrementStep ==
  ASSUME DictInv, NEW t \in DictThreads, NEW h \in Handles, FreeDecrement(t, h)
  PROVE  DictInv'
<1>a. PICK d \in Dicts : d = dictOf[h]
  BY DEF FreeDecrement, DictInv, DictTypeOK
<1> USE <1>a DEF FreeDecrement
<1>0. d \in alive /\ d \in Dicts /\ ref[d] \in Nat \ {0}
  <2>1. d \in alive /\ d \in Dicts /\ h \in HandlesOf(d) /\ ref[d] \in Nat
    BY DEF DictInv, NoDangling, DictTypeOK, HandlesOf
  <2> QED BY <2>1, ReferredCounted
<1>1. DictTypeOK'
  <2>1. freeing'[t] \in Seq(Dicts)
    BY <1>0 DEF DictInv, DictTypeOK
  <2> QED BY <1>0, <2>1 DEF DictInv, DictTypeOK
<1>2. ASSUME NEW e \in alive \ {d}
      PROVE  HandlesOf(e)' = HandlesOf(e) /\ Heirs(e)' = Heirs(e) /\ ref'[e] = ref[e]
  BY <1>0, <1>2, DictAssumption DEF DictInv, DictTypeOK, HandlesOf, Heirs
<1>3. /\ HandlesOf(d)' = HandlesOf(d) \ {h} /\ Heirs(d)' = Heirs(d)
      /\ h \in HandlesOf(d) /\ ref'[d] = ref[d] - 1
  BY <1>0, DictAssumption DEF DictInv, DictTypeOK, HandlesOf, Heirs
<1>4. RefCountExact'
  <2>0. IsFiniteSet(HandlesOf(d))
    BY CountsFinite DEF DictInv
  <2>1. Cardinality(HandlesOf(d)') = Cardinality(HandlesOf(d)) - 1
    BY ONLY <1>3, <2>0, FS_RemoveElement
  <2>2. ref'[d] = Cardinality(HandlesOf(d)') + Cardinality(Heirs(d)')
    BY <1>0, <1>3, <2>1, CountsFinite DEF DictInv, RefCountExact
  <2> QED BY <1>2, <2>2 DEF DictInv, RefCountExact
<1>5. \A u \in DictThreads : \A i \in 1..Len(freeing[u]) : freeing[u][i] # d
  BY <1>0, ReferredNotFreed
<1>6. freeing' \in [DictThreads -> Seq(Dicts)] /\ \A u \in DictThreads \ {t} : freeing'[u] = freeing[u]
  BY <1>1 DEF DictTypeOK, DictInv
<1>7. /\ freeing'[t] = <<>> \/ freeing'[t] = <<d>>
      /\ freeing'[t] # <<>> => ref'[d] = 0
  <2>1. freeing'[t] = IF ref[d] - 1 > 0 THEN <<>> ELSE <<d>>
    BY DEF DictInv, DictTypeOK
  <2>2. ref[d] - 1 > 0 \/ ref'[d] = 0
    BY ONLY <1>0, <1>3
  <2> QED BY ONLY <2>1, <2>2
<1>8. NoDangling'
  <2>1. \A i \in 1..Len(freeing'[t]) : freeing'[t][i] \in alive
    BY <1>0, <1>7
  <2> QED BY <1>0, <1>6, <2>1 DEF DictInv, NoDangling, DictTypeOK
<1>9. FreedOnce'
  <2>1. ASSUME NEW u \in DictThreads, NEW i \in 1..Len(freeing'[u])
        PROVE  IF u = t THEN i = 1 /\ freeing'[u][i] = d
               ELSE freeing'[u][i] = freeing[u][i] /\ i \in 1..Len(freeing[u])
    BY <2>1, <1>6, <1>7
  <2>2. ASSUME NEW u \in DictThreads, NEW i \in 1..Len(freeing'[u])
        PROVE  ref'[freeing'[u][i]] = 0
    <3>1. CASE u = t
      BY <3>1, <2>1, <2>2, <1>7
    <3>2. CASE u # t
      <4>1. freeing[u][i] \in alive \ {d} /\ ref[freeing[u][i]] = 0
        BY <3>2, <2>1, <2>2, <1>5 DEF DictInv, NoDangling, FreedOnce
      <4> QED BY <3>2, <2>1, <2>2, <4>1, <1>2
    <3> QED BY <3>1, <3>2
  <2>3. ASSUME NEW u \in DictThreads, NEW v \in DictThreads,
               NEW i \in 1..Len(freeing'[u]), NEW j \in 1..Len(freeing'[v]),
               freeing'[u][i] = freeing'[v][j]
        PROVE  u = v /\ i = j
    BY <2>1, <2>3, <1>5 DEF DictInv, FreedOnce
  <2> QED BY <2>2, <2>3 DEF FreedOnce
<1> QED BY <1>1, <1>4, <1>8, <1>9 DEF DictInv

(* The recursive call of xmlDictFree keeps the invariant.                  *)
LEMMA FreeSubStep ==
  ASSUME DictInv, NEW t \in DictThreads, FreeSub(t)
  PROVE  DictInv'
<1>a. PICK d \in Dicts : d = TopCall(t)
  BY TopFreed DEF FreeSub
<1>b. PICK s \in Dicts : s = sub[d]
  BY <1>a DEF FreeSub, DictInv, DictTypeOK
<1>c. PICK n \in Nat \ {0} : n = Len(freeing[t])
  BY TopFreed DEF FreeSub
<1> USE <1>a, <1>b, <1>c DEF FreeSub
<1>0. /\ n \in Nat \ {0} /\ d = freeing[t][n]
      /\ d \in alive /\ d \in Dicts /\ ref[d] = 0
  BY TopFreed
<1>1. s \in alive /\ s \in Dicts /\ ref[s] \in Nat \ {0} /\ s # d
  <2>1. s \in alive /\ s \in Dicts /\ d \in Heirs(s) /\ ref[s] \in Nat
    BY <1>0 DEF DictInv, NoDangling, DictTypeOK, Heirs
  <2> QED BY <2>1, <1>0, ReferredCounted
<1>2. DictTypeOK'
  <2>1. freeing[t] \in Seq(Dicts) /\ Append(freeing[t], s) \in Seq(Dicts)
    BY <1>1 DEF DictInv, DictTypeOK
  <2>2. freeing'[t] \in Seq(Dicts)
    BY <2>1 DEF DictInv, DictTypeOK
  <2> QED BY <1>0, <1>1, <2>2 DEF DictInv, DictTypeOK
<1>3. ASSUME NEW e \in alive \ {s}
      PROVE  HandlesOf(e)' = HandlesOf(e) /\ Heirs(e)' = Heirs(e) /\ ref'[e] = ref[e]
  BY <1>0, <1>1, <1>3, DictAssumption DEF DictInv, DictTypeOK, HandlesOf, Heirs
<1>4. /\ HandlesOf(s)' = HandlesOf(s) /\ Heirs(s)' = Heirs(s) \ {d}
      /\ d \in Heirs(s) /\ ref'[s] = ref[s] - 1
  BY <1>0, <1>1, DictAssumption DEF DictInv, DictTypeOK, HandlesOf, Heirs
<1>5. RefCountExact'
  <2>1. Cardinality(Heirs(s)') = Cardinality(Heirs(s)) - 1
    BY <1>1, <1>4, CountsFinite, FS_RemoveElement, ZenonT(60) DEF DictInv
  <2>2. ref'[s] = Cardinality(HandlesOf(s)') + Cardinality(Heirs(s)')
    BY <1>1, <1>4, <2>1, CountsFinite DEF DictInv, RefCountExact
  <2> QED BY <1>3, <2>2 DEF DictInv, RefCountExact
<1>6. \A u \in DictThreads : \A i \in 1..Len(freeing[u]) : freeing[u][i] # s
  BY <1>1, ReferredNotFreed, SMTT(60)
<1>7. freeing' \in [DictThreads -> Seq(Dicts)] /\ \A u \in DictThreads \ {t} : freeing'[u] = freeing[u]
  BY <1>2 DEF DictTypeOK, DictInv
<1>8. /\ freeing'[t] = freeing[t] \/ freeing'[t] = Append(freeing[t], s)
      /\ freeing'[t] # freeing[t] => ref'[s] = 0
  BY <1>1, <1>4 DEF DictInv, DictTypeOK
<1>9. ASSUME NEW u \in DictThreads, NEW i \in 1..Len(freeing'[u])
      PROVE  \/ i \in 1..Len(freeing[u]) /\ freeing'[u][i] = freeing[u][i]
             \/ /\ u = t /\ i = n + 1 /\ freeing'[u][i] = s
                /\ ref'[s] = 0
  <2>1. CASE u # t
    BY <2>1, <1>7, <1>9
  <2>2. CASE u = t /\ freeing'[t] = freeing[t]
    BY <2>2, <1>9
  <2>3. CASE u = t /\ freeing'[t] # freeing[t]
    <3>1. freeing[t] \in Seq(Dicts) /\ freeing'[t] = Append(freeing[t], s) /\ ref'[s] = 0
      BY <2>3, <1>8 DEF DictInv, DictTypeOK
    <3> QED BY <2>3, <3>1, <1>0, <1>9
  <2> QED BY <2>1, <2>2, <2>3
<1>10. NoDangling'
  <2>1. \A u \in DictThreads : \A i \in 1..Len(freeing'[u]) : freeing'[u][i] \in alive
    BY <1>1, <1>9 DEF DictInv, NoDangling
  <2> QED BY <1>0, <1>1, <2>1 DEF DictInv, NoDangling, DictTypeOK
<1>11. FreedOnce'
  <2>1. ASSUME NEW u \in DictThreads, NEW i \in 1..Len(freeing'[u])
        PROVE  ref'[freeing'[u][i]] = 0
    <3>1. CASE i \in 1..Len(freeing[u]) /\ freeing'[u][i] = freeing[u][i]
      <4>1. freeing[u][i] \in alive \ {s} /\ ref[freeing[u][i]] = 0
        BY <3>1, <2>1, <1>6 DEF DictInv, NoDangling, FreedOnce
      <4> QED BY <3>1, <4>1, <1>3
    <3> QED BY <3>1, <2>1, <1>9
  <2>2. ASSUME NEW u \in DictThreads, NEW v \in DictThreads,
               NEW i \in 1..Len(freeing'[u]), NEW j \in 1..Len(freeing'[v]),
               freeing'[u][i] = freeing'[v][j]
        PROVE  u = v /\ i = j
    BY <2>2, <1>6, <1>9, SMTT(60) DEF DictInv, FreedOnce
  <2> QED BY <2>1, <2>2, SMTT(60) DEF FreedOnce
<1> QED BY <1>2, <1>5, <1>10, <1>11 DEF DictInv

(* The end of xmlDictFree keeps the invariant.                             *)
LEMMA FreeMemoryStep ==
  ASSUME DictInv, NEW t \in DictThreads, FreeMemory(t)
  PROVE  DictInv'
<1>a. PICK d \in Dicts : d = TopCall(t)
  BY TopFreed DEF FreeMemory
<1>b. PICK n \in Nat \ {0} : n = Len(freeing[t])
  BY TopFreed DEF FreeMemory
<1> USE <1>a, <1>b DEF FreeMemory
<1>0. /\ n \in Nat \ {0} /\ d = freeing[t][n]
      /\ d \in alive /\ d \in Dicts /\ ref[d] = 0
  BY TopFreed
<1>1. HandlesOf(d) = {} /\ Heirs(d) = {}
  BY <1>0, UncountedUnreferred
<1>2. /\ freeing[t] \in Seq(Dicts) /\ SubSeq(freeing[t], 1, n - 1) \in Seq(Dicts)
      /\ Len(SubSeq(freeing[t], 1, n - 1)) = n - 1
      /\ \A i \in 1..(n - 1) : SubSeq(freeing[t], 1, n - 1)[i] = freeing[t][i]
  <2>1. freeing[t] \in Seq(Dicts) /\ n = Len(freeing[t]) /\ n \in Nat \ {0}
    BY <1>b DEF DictInv, DictTypeOK
  <2>2. \A i \in 1..(n - 1) : freeing[t][i] \in Dicts
    BY <2>1
  <2>3. SubSeq(freeing[t], 1, n - 1) = [i \in 1..(n - 1) |-> freeing[t][i]]
    BY <2>1
  <2>4. Len(SubSeq(freeing[t], 1, n - 1)) = n - 1
    BY <2>1
  <2> QED BY <2>1, <2>2, <2>3, <2>4
<1>3. DictTypeOK'
  BY <1>2 DEF DictInv, DictTypeOK
<1>4. RefCountExact'
  <2>1. ASSUME NEW e \in alive \ {d}
        PROVE  HandlesOf(e)' = HandlesOf(e) /\ Heirs(e)' = Heirs(e)
    BY <2>1, <1>0, DictAssumption DEF DictInv, DictTypeOK, HandlesOf, Heirs
  <2> QED BY <2>1 DEF DictInv, RefCountExact
<1>5. ASSUME NEW u \in DictThreads, NEW i \in 1..Len(freeing'[u])
      PROVE  /\ i \in 1..Len(freeing[u]) /\ freeing'[u][i] = freeing[u][i]
             /\ freeing[u][i] # d
  <2>1. CASE u = t
    <3>1. freeing'[t] = SubSeq(freeing[t], 1, n - 1)
      BY DEF DictInv, DictTypeOK
    <3>2. i \in 1..(n - 1) /\ i \in 1..n /\ n \in 1..n /\ i # n
      BY <2>1, <3>1, <1>0, <1>2, <1>5
    <3> QED BY <2>1, <3>1, <3>2, <1>0, <1>2 DEF DictInv, FreedOnce
  <2>2. CASE u # t
    <3>1. freeing'[u] = freeing[u] /\ n \in 1..n
      BY <2>2, <1>0 DEF DictInv, DictTypeOK
    <3> QED BY <2>2, <3>1, <1>0, <1>5 DEF DictInv, FreedOnce
  <2> QED BY <2>1, <2>2
<1>6. NoDangling'
  <2>1. \A h \in Handles : dictOf'[h] \in alive' \cup {NoDict}
    BY <1>1 DEF DictInv, NoDangling, HandlesOf
  <2>2. \A c \in alive' : sub'[c] \in alive' \cup {NoDict}
    BY <1>1 DEF DictInv, NoDangling, Heirs
  <2>3. \A u \in DictThreads : \A i \in 1..Len(freeing'[u]) : freeing'[u][i] \in alive'
    BY <1>5 DEF DictInv, NoDangling
  <2> QED BY <2>1, <2>2, <2>3 DEF NoDangling
<1>7. FreedOnce'
  BY <1>5 DEF DictInv, FreedOnce
<1> QED BY <1>3, <1>4, <1>6, <1>7 DEF DictInv

-----------------------------------------------------------------------------
(* Every step keeps the invariant.                                         *)
LEMMA DictStep == DictInv /\ [DictNext]_dictVars => DictInv'
<1> SUFFICES ASSUME DictInv, [DictNext]_dictVars PROVE DictInv'
  OBVIOUS
<1>1. CASE UNCHANGED dictVars
  BY <1>1 DEF dictVars, DictInv, DictTypeOK, RefCountExact, NoDangling, FreedOnce, HandlesOf, Heirs
<1>2. CASE DictNext
  BY <1>2, CreateStep, CreateSubStep, ReferenceStep, LookupStep,
     FreeDecrementStep, FreeSubStep, FreeMemoryStep DEF DictNext
<1> QED BY <1>1, <1>2

(* The invariant holds always.                                             *)
LEMMA DictInductive == DictSpec => []DictInv
BY DictInitInv, DictStep, PTL DEF DictSpec

(* In every execution of threads that create, share, chain and free        *)
(* dictionaries, the fields keep their types: no counter gets negative.    *)
THEOREM DictType == DictSpec => []DictTypeOK
<1>1. DictInv => DictTypeOK
  BY DEF DictInv
<1> QED BY <1>1, DictInductive, PTL

(* ref_counter is the number of references (dict.c:252-349).               *)
THEOREM DictRefCount == DictSpec => []RefCountExact
<1>1. DictInv => RefCountExact
  BY DEF DictInv
<1> QED BY <1>1, DictInductive, PTL

(* No object, dictionary or running xmlDictFree refers to freed memory     *)
(* (dict.c:319-349).                                                       *)
THEOREM DictNoDangling == DictSpec => []NoDangling
<1>1. DictInv => NoDangling
  BY DEF DictInv
<1> QED BY <1>1, DictInductive, PTL

(* No two calls of xmlDictFree free the same dictionary (dict.c:319-349).  *)
THEOREM DictFreedOnce == DictSpec => []FreedOnce
<1>1. DictInv => FreedOnce
  BY DEF DictInv
<1> QED BY <1>1, DictInductive, PTL

(* The copy of a string that a dictionary in use gave out stays the one it *)
(* gives out: only an xmlDictLookup that finds nothing adds a string, a    *)
(* dictionary in use keeps the one it inherits from, and a new dictionary  *)
(* never takes the address of either (dict.c:666-802).                     *)
THEOREM DictInternStable == DictSpec => InternStable
<1> DEFINE Stable ==
      \A d \in alive : \A s \in Strings :
        (\E h \in Handles : dictOf[h] = d /\ dictOf'[h] = d) /\ Owner(d, s) # NoDict
          => Owner(d, s)' = Owner(d, s)
<1>1. ASSUME DictInv, [DictNext]_dictVars PROVE Stable
  <2> SUFFICES ASSUME NEW d \in alive, NEW s \in Strings, NEW g \in Handles,
                      dictOf[g] = d, dictOf'[g] = d, Owner(d, s) # NoDict
               PROVE  Owner(d, s)' = Owner(d, s)
    OBVIOUS
  <2> USE DictAssumption DEF Owner
  <2>0. d \in Dicts /\ sub[d] \in alive \cup {NoDict} /\ ref[d] > 0
    <3>1. d \in Dicts /\ sub[d] \in alive \cup {NoDict} /\ g \in HandlesOf(d)
      BY <1>1 DEF DictInv, DictTypeOK, NoDangling, HandlesOf
    <3> QED BY <1>1, <3>1, ReferredCounted
  <2>1. ASSUME strings' = strings, sub' = sub PROVE Owner(d, s)' = Owner(d, s)
    BY <2>1
  <2>2. ASSUME NEW h \in Handles, NEW c \in Dicts, xmlDictCreate(h, c)
        PROVE  Owner(d, s)' = Owner(d, s)
    <3>1. d # c /\ sub[d] # c
      BY <2>0, <2>2 DEF xmlDictCreate
    <3> QED BY <1>1, <2>0, <2>2, <3>1 DEF xmlDictCreate, DictInv, DictTypeOK
  <2>3. ASSUME NEW h \in Handles, NEW f \in Handles, NEW c \in Dicts, xmlDictCreateSub(h, c, f)
        PROVE  Owner(d, s)' = Owner(d, s)
    <3>1. d # c /\ sub[d] # c
      BY <2>0, <2>3 DEF xmlDictCreateSub
    <3> QED BY <1>1, <2>0, <2>3, <3>1 DEF xmlDictCreateSub, DictInv, DictTypeOK
  <2>4. ASSUME NEW h \in Handles, NEW r \in Strings, xmlDictLookup(h, r)
        PROVE  Owner(d, s)' = Owner(d, s)
    <3>1. sub' = sub /\ dictOf[h] \in Dicts
      BY <1>1, <2>4 DEF xmlDictLookup, DictInv, DictTypeOK
    <3>2. strings'[dictOf[h]] = strings[dictOf[h]] \cup {r}
      BY <1>1, <2>4, <3>1 DEF xmlDictLookup, DictInv, DictTypeOK
    <3>3. \A e \in Dicts \ {dictOf[h]} : strings'[e] = strings[e]
      BY <1>1, <2>4 DEF xmlDictLookup, DictInv, DictTypeOK
    <3> QED BY <1>1, <2>0, <2>4, <3>1, <3>2, <3>3 DEF xmlDictLookup, DictInv, DictTypeOK
  <2>5. ASSUME NEW t \in DictThreads, FreeSub(t)
        PROVE  Owner(d, s)' = Owner(d, s)
    <3>1. TopCall(t) # d
      BY <1>1, <2>0, <2>5, TopFreed DEF FreeSub
    <3> QED BY <1>1, <2>0, <2>5, <3>1 DEF FreeSub, DictInv, DictTypeOK
  <2>6. CASE UNCHANGED dictVars
    BY <2>1, <2>6 DEF dictVars
  <2>7. ASSUME NEW h \in Handles, NEW f \in Handles, xmlDictReference(h, f)
        PROVE  Owner(d, s)' = Owner(d, s)
    BY <2>1, <2>7 DEF xmlDictReference
  <2>8. ASSUME NEW t \in DictThreads, NEW h \in Handles, FreeDecrement(t, h)
        PROVE  Owner(d, s)' = Owner(d, s)
    BY <2>1, <2>8 DEF FreeDecrement
  <2>9. ASSUME NEW t \in DictThreads, FreeMemory(t)
        PROVE  Owner(d, s)' = Owner(d, s)
    BY <2>1, <2>9 DEF FreeMemory
  <2> QED BY <1>1, <2>2, <2>3, <2>4, <2>5, <2>6, <2>7, <2>8, <2>9 DEF DictNext
<1>2. DictInv /\ [DictNext]_dictVars => [Stable]_dictVars
  BY <1>1
<1> QED BY <1>2, DictInductive, PTL DEF DictSpec, InternStable

-----------------------------------------------------------------------------
(* The catalogs: a file is parsed once.                                    *)

(* The files parsed are the ones in the hash table.                        *)
CatFilesInv ==
  /\ \A f \in DOMAIN catParses : catParses[f] = IF f \in catFiles THEN 1 ELSE 0
  /\ \A n \in catLoaded : CatList(n[1])[n[2]].url \in catFiles

(* Only xmlFetchXMLCatalogFile parses.                                     *)
LEMMA CatOthersLoadNothing ==
  ASSUME NEW t \in CatThreads,
         \/ \E request \in catSetup.requests : CatCall(t, request)
         \/ CatEnter(t) \/ CatCount(t) \/ CatScan(t) \/ CatLook(t)
         \/ CatBack(t) \/ CatLeave(t) \/ CatUncount(t)
  PROVE  UNCHANGED CatLoadVars /\ UNCHANGED catSetup
BY Zenon DEF CatCall, CatEnter, CatCount, CatScan, CatLook, CatBack, CatLeave, CatUncount,
   CatLoadVars, CatCallVars

LEMMA CatFetchFiles ==
  ASSUME CatFilesInv, NEW t \in CatThreads, CatFetch(t)
  PROVE  CatFilesInv'
<1>1. PICK node : node = <<CatTop(t).list, CatTop(t).i>>
  OBVIOUS
<1>2. PICK url : url = CatList(node[1])[node[2]].url
  OBVIOUS
<1>3. url = CatList(CatTop(t).list)[CatTop(t).i].url
  BY <1>1, <1>2
<1> DEFINE fails == ~(node \in catLoaded) /\ ~(url \in catFiles)
                      /\ catSetup.content[url] = CatUnreadable
           parses == ~(node \in catLoaded) /\ ~(url \in catFiles) /\ ~fails
<1>4. /\ catLoaded' = IF fails THEN catLoaded ELSE catLoaded \cup {node}
      /\ catFiles' = IF parses THEN catFiles \cup {url} ELSE catFiles
      /\ catParses' = IF parses THEN [catParses EXCEPT ![url] = @ + 1] ELSE catParses
      /\ catSetup' = catSetup
  BY <1>1, <1>3, Zenon DEF CatFetch, CatInHash, CatCallVars
<1>5. \A f \in DOMAIN catParses : catParses[f] = IF f \in catFiles THEN 1 ELSE 0
  BY DEF CatFilesInv
<1>6. \A n \in catLoaded : CatList(n[1])[n[2]].url \in catFiles
  BY DEF CatFilesInv
<1>7. \A f \in DOMAIN catParses' : catParses'[f] = IF f \in catFiles' THEN 1 ELSE 0
  BY <1>4, <1>5
<1>8. ASSUME NEW n \in catLoaded' PROVE CatList(n[1])[n[2]].url \in catFiles'
  <2>1. CASE n \in catLoaded
    BY <2>1, <1>4, <1>6
  <2>2. CASE n \notin catLoaded
    <3>1. n = node /\ ~fails
      BY <2>2, <1>4
    <3>2. url \in catFiles'
      <4>1. CASE node \in catLoaded
        BY <4>1, <3>1, <2>2
      <4>2. CASE node \notin catLoaded
        BY <4>2, <3>1, <1>4
      <4> QED BY <4>1, <4>2
    <3> QED BY <3>1, <3>2, <1>2
  <2> QED BY <2>1, <2>2
<1>9. \A n \in catLoaded' : CatList(n[1])[n[2]].url' \in catFiles'
  BY <1>8, <1>4 DEF CatList
<1> QED BY <1>7, <1>9 DEF CatFilesInv

(* A file is parsed at most once, however many entries and threads refer   *)
(* to it, and every node with children shares the entries of a file that   *)
(* was parsed (xmlFetchXMLCatalogFile, catalog.c:1382-1450).               *)
THEOREM CatalogParsedOnce == CatSpec => []CatParsedOnce
<1>1. CatInit => CatFilesInv
  BY DEF CatInit, CatFilesInv
<1>2. CatFilesInv /\ [CatNext]_catVars => CatFilesInv'
  <2> SUFFICES ASSUME CatFilesInv, [CatNext]_catVars PROVE CatFilesInv'
    OBVIOUS
  <2>1. ASSUME UNCHANGED CatLoadVars, UNCHANGED catSetup PROVE CatFilesInv'
    BY <2>1 DEF CatLoadVars, CatFilesInv, CatList
  <2>2. CASE UNCHANGED catVars
    BY <2>1, <2>2 DEF catVars, CatLoadVars
  <2>3. CASE CatNext
    <3>1. PICK t \in CatThreads :
            \/ \E request \in catSetup.requests : CatCall(t, request)
            \/ CatEnter(t) \/ CatCount(t) \/ CatScan(t) \/ CatLook(t) \/ CatFetch(t)
            \/ CatBack(t) \/ CatLeave(t) \/ CatUncount(t)
      BY <2>3 DEF CatNext
    <3>2. CASE CatFetch(t)
      BY <3>2, CatFetchFiles
    <3>3. CASE ~CatFetch(t)
      BY <3>1, <3>3, <2>1, CatOthersLoadNothing
    <3> QED BY <3>2, <3>3
  <2> QED BY <2>2, <2>3
<1>3. CatFilesInv => CatParsedOnce
  BY DEF CatFilesInv, CatParsedOnce
<1> QED BY <1>1, <1>2, <1>3, PTL DEF CatSpec

-----------------------------------------------------------------------------
(* The guard against loops.  The calls of a thread are a stack of frames;  *)
(* the lemmas speak of any stack s and any setup c.                        *)

IsStack(s) == s \in Seq({s[i] : i \in DOMAIN s})

LEMMA StackProperties ==
  ASSUME NEW s, IsStack(s)
  PROVE  /\ Len(s) \in Nat /\ DOMAIN s = 1..Len(s)
         /\ s # <<>> => Len(s) >= 1 /\ 1 \in DOMAIN s
<1> DEFINE U == {s[i] : i \in DOMAIN s}
<1>1. s \in Seq(U)
  BY DEF IsStack
<1> HIDE DEF U
<1>2. Len(s) \in Nat /\ DOMAIN s = 1..Len(s)
  BY <1>1, LenProperties
<1>3. s # <<>> => Len(s) # 0
  BY <1>1, EmptySeq
<1> QED BY <1>2, <1>3

(* A sequence of frames is a stack.                                        *)
LEMMA StackOfSeq ==
  ASSUME NEW U, NEW s \in Seq(U)
  PROVE  IsStack(s)
<1> DEFINE V == {s[i] : i \in DOMAIN s}
<1>1. Len(s) \in Nat /\ s \in [1..Len(s) -> U] /\ DOMAIN s = 1..Len(s)
  BY LenProperties
<1>2. \A i \in 1..Len(s) : s[i] \in V
  BY <1>1
<1>3. s \in [1..Len(s) -> V]
  BY <1>1, <1>2
<1> HIDE DEF V
<1>4. s \in Seq(V)
  BY <1>1, <1>3
<1> QED BY <1>4 DEF IsStack, V

LEMMA StackSet ==
  ASSUME NEW s, IsStack(s), s # <<>>, NEW f
  PROVE  LET r == [s EXCEPT ![1] = f]
         IN  /\ IsStack(r) /\ r # <<>> /\ Len(r) = Len(s) /\ r[1] = f
             /\ \A i \in 2..Len(s) : r[i] = s[i]
<1> DEFINE U == {s[i] : i \in DOMAIN s} \cup {f}
           r == [s EXCEPT ![1] = f]
<1>1. Len(s) \in Nat /\ DOMAIN s = 1..Len(s) /\ 1 \in 1..Len(s)
  BY StackProperties
<1>2. s \in Seq(U)
  <2>1. \A i \in 1..Len(s) : s[i] \in U
    BY <1>1
  <2>2. s \in [1..Len(s) -> U]
    <3> DEFINE V == {s[i] : i \in DOMAIN s}
    <3>1. s \in Seq(V)
      BY DEF IsStack
    <3> HIDE DEF V
    <3>2. s \in [1..Len(s) -> V]
      BY <3>1, LenProperties
    <3> HIDE DEF U
    <3> QED BY <3>2, <2>1
  <2> HIDE DEF U
  <2> QED BY <2>2, <1>1
<1>3. f \in U
  OBVIOUS
<1> HIDE DEF U
<1>4. /\ r \in Seq(U) /\ Len(r) = Len(s)
      /\ \A j \in 1..Len(s) : r[j] = IF j = 1 THEN f ELSE s[j]
  BY <1>1, <1>2, <1>3, ExceptSeq
<1>5. IsStack(r)
  BY <1>4, StackOfSeq
<1>6. r # <<>>
  BY <1>4, <1>1, EmptySeq
<1>7. r[1] = f /\ \A i \in 2..Len(s) : r[i] = s[i]
  BY <1>4, <1>1
<1> QED BY <1>4, <1>5, <1>6, <1>7

LEMMA StackPop ==
  ASSUME NEW s, IsStack(s), s # <<>>
  PROVE  LET r == Tail(s)
         IN  /\ IsStack(r) /\ Len(r) = Len(s) - 1
             /\ \A i \in 1..Len(r) : r[i] = s[i + 1]
<1> DEFINE U == {s[i] : i \in DOMAIN s}
<1>1. s \in Seq(U)
  BY DEF IsStack
<1> HIDE DEF U
<1>2. /\ Tail(s) \in Seq(U) /\ Len(Tail(s)) = Len(s) - 1
      /\ \A i \in 1..Len(Tail(s)) : Tail(s)[i] = s[i + 1]
  BY <1>1, HeadTailProperties
<1> QED BY <1>2, StackOfSeq

LEMMA StackPush ==
  ASSUME NEW s, IsStack(s), s # <<>>, NEW f, NEW g
  PROVE  LET r == <<g, f>> \o Tail(s)
         IN  /\ IsStack(r) /\ r # <<>> /\ Len(r) = Len(s) + 1 /\ r[1] = g /\ r[2] = f
             /\ \A i \in 3..Len(r) : r[i] = s[i - 1]
<1> DEFINE q == Tail(s)
           r == <<g, f>> \o q
           U == {q[i] : i \in DOMAIN q} \cup {f, g}
<1>1. /\ IsStack(q) /\ Len(q) = Len(s) - 1 /\ Len(s) \in Nat /\ Len(s) >= 1
      /\ \A i \in 1..Len(q) : q[i] = s[i + 1]
  BY StackPop, StackProperties
<1> HIDE DEF q
<1>2. q \in Seq(U)
  <2> DEFINE V == {q[i] : i \in DOMAIN q}
  <2>1. q \in Seq(V) /\ V \subseteq U
    BY <1>1 DEF IsStack
  <2> HIDE DEF V, U
  <2> QED BY <2>1
<1>3. f \in U /\ g \in U
  OBVIOUS
<1> HIDE DEF U
<1>4. <<g, f>> \in Seq(U) /\ Len(<<g, f>>) = 2 /\ <<g, f>>[1] = g /\ <<g, f>>[2] = f
  BY <1>3
<1> DEFINE p == <<g, f>>
<1> HIDE DEF p
<1>5. /\ p \o q \in Seq(U) /\ Len(p \o q) = 2 + Len(q)
      /\ \A i \in 1..(2 + Len(q)) : (p \o q)[i] = IF i <= 2 THEN p[i] ELSE q[i - 2]
  <2>1. p \in Seq(U) /\ Len(p) = 2
    BY <1>4 DEF p
  <2>2. /\ p \o q \in Seq(U) /\ Len(p \o q) = Len(p) + Len(q)
        /\ \A i \in 1..(Len(p) + Len(q)) :
             (p \o q)[i] = IF i <= Len(p) THEN p[i] ELSE q[i - Len(p)]
    BY <2>1, <1>2, ConcatProperties, Zenon
  <2> QED BY <2>1, <2>2, Zenon
<1>6. r = p \o q
  BY DEF p
<1> HIDE DEF r
<1>7. IsStack(r) /\ Len(r) = Len(s) + 1
  <2>1. IsStack(r)
    BY <1>5, <1>6, StackOfSeq, Zenon
  <2> QED BY <2>1, <1>1, <1>5, <1>6
<1>8. r # <<>>
  BY <1>1, <1>5, <1>6, <1>7, EmptySeq
<1>9. r[1] = p[1] /\ r[2] = p[2]
  BY <1>1, <1>5, <1>6
<1>10. p[1] = g /\ p[2] = f
  BY <1>4 DEF p
<1>11. ASSUME NEW i \in 3..Len(r) PROVE r[i] = s[i - 1]
  <2>1. r[i] = q[i - 2] /\ i - 2 \in 1..Len(q)
    BY <1>1, <1>5, <1>6, <1>7
  <2>2. q[i - 2] = s[(i - 2) + 1] /\ (i - 2) + 1 = i - 1
    BY <2>1, <1>1
  <2> QED BY <2>1, <2>2
<1> QED BY <1>7, <1>8, <1>9, <1>10, <1>11 DEF r, q

(* What the module says of catSetup, for any setup.                        *)
FilesOf(c) == DOMAIN c.content
EntriesOf(c, list) ==
  CASE list = CatRoot -> [i \in DOMAIN c.roots |-> CatOfFile(c.roots[i])]
    [] list[1] = "doc" -> <<CatOfFile(list[2])>>
    [] OTHER -> c.content[list[2]]
RefersIn(c, f, g) == \E x \in Range(c.content[f]) : x.url = g /\ x.type \in CatLeads
AcyclicIn(c) ==
  \A S \in (SUBSET FilesOf(c)) \ {{}} : \E f \in S : \A g \in S : ~RefersIn(c, f, g)

LEMMA SetupOperators ==
  /\ \A list : CatList(list) = EntriesOf(catSetup, list)
  /\ \A f, g : CatRefers(f, g) <=> RefersIn(catSetup, f, g)
  /\ CatAcyclic <=> AcyclicIn(catSetup)
<1>1. \A list : CatList(list) = EntriesOf(catSetup, list)
  BY Zenon DEF CatList, EntriesOf
<1>2. \A f, g : CatRefers(f, g) <=> RefersIn(catSetup, f, g)
  BY Zenon DEF CatRefers, RefersIn
<1>3. CatAcyclic <=> AcyclicIn(catSetup)
  BY <1>2, Zenon DEF CatAcyclic, AcyclicIn, FilesOf
<1> QED BY <1>1, <1>2, <1>3

(* The file that an entry on its way to the next call leads to.            *)
Led(c, fr) ==
  LET url == EntriesOf(c, fr.list)[fr.i].url
  IN  /\ url \in FilesOf(c)
      /\ fr.fn # "list" => RefersIn(c, fr.list[2], url)
      /\ fr.list[1] = "doc" => url = fr.list[2]

Fields == {"fn", "list", "pub", "sys", "at", "i", "tried", "d", "ret"}

(* Calls walk a list of catalogs or the entries of one file.               *)
FrameOK(c, fr) ==
  /\ DOMAIN fr = Fields
  /\ \/ fr.fn = "list" /\ (fr.list = CatRoot \/ \E f \in FilesOf(c) : fr.list = CatDoc(f))
     \/ fr.fn # "list" /\ \E f \in FilesOf(c) : fr.list = CatIn(f)
  /\ fr.at \in {"fetch", "back"} => Led(c, fr)
  /\ fr.at = "scan" => fr.fn # "list"

(* A call for the list `inner` is made by one for the list `outer`: a list *)
(* leads to the entries of its files, and these to files they refer to.    *)
Link(c, inner, outer) ==
  \E f \in FilesOf(c) :
    \/ inner = CatIn(f) /\ outer \in {CatDoc(f), CatRoot}
    \/ \E g \in FilesOf(c) : inner = CatDoc(g) /\ outer = CatIn(f) /\ RefersIn(c, f, g)

(* The calls of a thread form a chain of references that starts at the     *)
(* roots; all but the innermost wait for the next one.                     *)
Chain(c, s) ==
  /\ IsStack(s)
  /\ \A i \in 1..Len(s) : FrameOK(c, s[i])
  /\ \A i \in 2..Len(s) : s[i].at = "back"
  /\ \A i \in 1..(Len(s) - 1) : Link(c, s[i].list, s[i + 1].list)
  /\ Len(s) > 0 => s[Len(s)].list = CatRoot

LEMMA ListsDiffer ==
  /\ \A f : CatRoot # CatDoc(f) /\ CatRoot # CatIn(f) /\ CatDoc(f)[2] = f /\ CatIn(f)[2] = f
  /\ \A f, g : CatDoc(f) # CatIn(g)
  /\ \A f, g : (CatDoc(f) = CatDoc(g) => f = g) /\ (CatIn(f) = CatIn(g) => f = g)
  /\ \A f : CatDoc(f)[1] = "doc" /\ CatIn(f)[1] # "doc"
  /\ CatRoot[1] # "doc"
BY DEF CatRoot, CatDoc, CatIn

LEMMA ChainSet ==
  ASSUME NEW c, NEW s, Chain(c, s), s # <<>>, NEW f, FrameOK(c, f), f.list = s[1].list
  PROVE  Chain(c, [s EXCEPT ![1] = f])
<1> DEFINE r == [s EXCEPT ![1] = f]
<1>1. /\ IsStack(r) /\ r # <<>> /\ Len(r) = Len(s) /\ r[1] = f
      /\ \A i \in 2..Len(s) : r[i] = s[i]
  <2>1. IsStack(s)
    BY DEF Chain
  <2> QED BY <2>1, StackSet
<1> HIDE DEF r
<1>2. Len(s) \in Nat /\ Len(s) >= 1
  BY StackProperties DEF Chain
<1>3. \A i \in 1..Len(s) : r[i].list = s[i].list /\ FrameOK(c, r[i])
  <2> TAKE i \in 1..Len(s)
  <2>1. CASE i = 1
    BY <2>1, <1>1
  <2>2. CASE i # 1
    BY <2>2, <1>1, <1>2 DEF Chain
  <2> QED BY <2>1, <2>2
<1>4. \A i \in 2..Len(r) : r[i].at = "back"
  BY <1>1, <1>2 DEF Chain
<1>5. \A i \in 1..(Len(r) - 1) : Link(c, r[i].list, r[i + 1].list)
  <2> TAKE i \in 1..(Len(r) - 1)
  <2>1. i \in 1..Len(s) /\ i + 1 \in 1..Len(s) /\ i \in 1..(Len(s) - 1)
    BY <1>1, <1>2
  <2>2. Link(c, s[i].list, s[i + 1].list)
    BY <2>1 DEF Chain
  <2> QED BY <2>1, <2>2, <1>3
<1>6. r[Len(r)].list = CatRoot
  BY <1>1, <1>2, <1>3 DEF Chain
<1> QED BY <1>1, <1>3, <1>4, <1>5, <1>6 DEF Chain, r

LEMMA ChainPop ==
  ASSUME NEW c, NEW s, Chain(c, s), s # <<>>
  PROVE  Chain(c, Tail(s))
<1> DEFINE r == Tail(s)
<1>1. /\ IsStack(r) /\ Len(r) = Len(s) - 1
      /\ \A i \in 1..Len(r) : r[i] = s[i + 1]
  BY StackPop DEF Chain
<1> HIDE DEF r
<1>2. Len(s) \in Nat /\ Len(s) >= 1
  BY StackProperties DEF Chain
<1>3. \A i \in 1..Len(r) : FrameOK(c, r[i]) /\ r[i].at = "back"
  BY <1>1, <1>2 DEF Chain
<1>4. ASSUME NEW i \in 1..(Len(r) - 1) PROVE Link(c, r[i].list, r[i + 1].list)
  <2>1. i \in 1..Len(r) /\ i + 1 \in 1..Len(r) /\ i + 1 \in 1..(Len(s) - 1)
    BY <1>1, <1>2
  <2>2. Link(c, s[i + 1].list, s[(i + 1) + 1].list)
    BY <2>1 DEF Chain
  <2>3. r[i] = s[i + 1] /\ r[i + 1] = s[(i + 1) + 1]
    BY <2>1, <1>1
  <2> QED BY <2>2, <2>3
<1>5. Len(r) > 0 => r[Len(r)].list = CatRoot
  BY <1>1, <1>2 DEF Chain
<1> QED BY <1>1, <1>2, <1>3, <1>4, <1>5 DEF Chain, r

LEMMA ChainPush ==
  ASSUME NEW c, NEW s, Chain(c, s), s # <<>>, NEW f, FrameOK(c, f), f.list = s[1].list,
         f.at = "back", NEW g, FrameOK(c, g), Link(c, g.list, f.list)
  PROVE  Chain(c, <<g, f>> \o Tail(s))
<1> DEFINE r == <<g, f>> \o Tail(s)
<1>1. /\ IsStack(r) /\ r # <<>> /\ Len(r) = Len(s) + 1 /\ r[1] = g /\ r[2] = f
      /\ \A i \in 3..Len(r) : r[i] = s[i - 1]
  <2>1. IsStack(s)
    BY DEF Chain
  <2> QED BY <2>1, StackPush
<1> HIDE DEF r
<1>2. Len(s) \in Nat /\ Len(s) >= 1
  BY StackProperties DEF Chain
<1>3. \A i \in 2..Len(r) : r[i].list = s[i - 1].list /\ FrameOK(c, r[i]) /\ r[i].at = "back"
  <2> TAKE i \in 2..Len(r)
  <2>1. CASE i = 2
    BY <2>1, <1>1
  <2>2. CASE i # 2
    <3>1. i \in 3..Len(r) /\ i - 1 \in 2..Len(s) /\ i - 1 \in 1..Len(s)
      BY <2>2, <1>1, <1>2
    <3> QED BY <3>1, <1>1 DEF Chain
  <2> QED BY <2>1, <2>2
<1>4. \A i \in 1..Len(r) : FrameOK(c, r[i])
  BY <1>1, <1>2, <1>3
<1>5. ASSUME NEW i \in 1..(Len(r) - 1) PROVE Link(c, r[i].list, r[i + 1].list)
  <2>1. CASE i = 1
    BY <2>1, <1>1
  <2>2. CASE i # 1
    <3>1. /\ i \in 2..Len(r) /\ i + 1 \in 2..Len(r) /\ i - 1 \in 1..(Len(s) - 1)
          /\ (i - 1) + 1 = (i + 1) - 1
      <4>1. \A m, n \in Nat : \A j \in 1..(m - 1) : m = n + 1 /\ j # 1 =>
              /\ j \in 2..m /\ j + 1 \in 2..m /\ j - 1 \in 1..(n - 1)
              /\ (j - 1) + 1 = (j + 1) - 1
        OBVIOUS
      <4>2. Len(r) \in Nat /\ Len(r) = Len(s) + 1
        BY <1>1, <1>2
      <4> QED BY <4>1, <4>2, <2>2, <1>2, Zenon
    <3>2. Link(c, s[i - 1].list, s[(i - 1) + 1].list)
      BY <3>1 DEF Chain
    <3>3. r[i].list = s[i - 1].list /\ r[i + 1].list = s[(i + 1) - 1].list
      BY <3>1, <1>3
    <3> QED BY <3>1, <3>2, <3>3
  <2> QED BY <2>1, <2>2
<1>6. r[Len(r)].list = CatRoot
  <2>1. Len(r) \in 2..Len(r) /\ Len(r) - 1 = Len(s)
    BY <1>1, <1>2
  <2>2. r[Len(r)].list = s[Len(r) - 1].list
    BY <2>1, <1>3
  <2> QED BY <2>1, <2>2, <1>2 DEF Chain
<1> QED BY <1>1, <1>3, <1>4, <1>5, <1>6 DEF Chain, r

(* Without circles no list is walked twice at the same time.               *)
LEMMA ListsDistinct ==
  ASSUME NEW c, NEW s, Chain(c, s), AcyclicIn(c),
         NEW i \in 1..Len(s), NEW j \in 1..Len(s), i < j, s[i].list = s[j].list
  PROVE  FALSE
<1>1. Len(s) \in Nat /\ i \in Nat /\ j \in Nat
  BY StackProperties DEF Chain
<1>2. \A k \in 1..(Len(s) - 1) : Link(c, s[k].list, s[k + 1].list)
  BY DEF Chain
<1>3. \A k \in 1..(Len(s) - 1) :
        \E f \in FilesOf(c) : s[k].list = CatIn(f) \/ s[k].list = CatDoc(f)
  BY <1>2, Zenon DEF Link
<1>4. j # Len(s)
  <2> SUFFICES ASSUME j = Len(s) PROVE FALSE
    OBVIOUS
  <2>1. s[i].list = CatRoot
    BY <1>1 DEF Chain
  <2>2. i \in 1..(Len(s) - 1)
    BY <1>1
  <2>3. PICK f : s[i].list = CatIn(f) \/ s[i].list = CatDoc(f)
    BY <1>3, <2>2
  <2> QED BY <2>1, <2>3, ListsDiffer
<1>5. i..j \subseteq 1..(Len(s) - 1) /\ i \in i..j
  BY <1>1, <1>4
<1> DEFINE S == {s[k].list[2] : k \in i..j}
<1>6. S \subseteq FilesOf(c) /\ S # {}
  <2>1. ASSUME NEW k \in i..j PROVE s[k].list[2] \in FilesOf(c)
    <3>1. PICK f \in FilesOf(c) : s[k].list = CatIn(f) \/ s[k].list = CatDoc(f)
      BY <1>3, <1>5
    <3> QED BY <3>1, ListsDiffer
  <2> QED BY <2>1, <1>5
<1>7. PICK f \in S : \A g \in S : ~RefersIn(c, f, g)
  <2> HIDE DEF S
  <2>1. S \in (SUBSET FilesOf(c)) \ {{}}
    BY <1>6
  <2> QED BY <2>1 DEF AcyclicIn
(* A call for the entries of f calls for a file f refers to.               *)
<1>8. ASSUME NEW k \in (i + 1)..j, s[k].list = CatIn(f) PROVE FALSE
  <2>1. k - 1 \in i..j /\ k - 1 \in 1..(Len(s) - 1) /\ (k - 1) + 1 = k
    BY <1>1, <1>5
  <2>2. Link(c, s[k - 1].list, CatIn(f))
    BY <2>1, <1>2, <1>8
  <2>3. PICK e \in FilesOf(c) :
          \/ CatIn(f) \in {CatDoc(e), CatRoot}
          \/ \E g \in FilesOf(c) :
               s[k - 1].list = CatDoc(g) /\ CatIn(f) = CatIn(e) /\ RefersIn(c, e, g)
    BY <2>2, Zenon DEF Link
  <2>4. PICK g \in FilesOf(c) : s[k - 1].list = CatDoc(g) /\ f = e /\ RefersIn(c, e, g)
    BY <2>3, ListsDiffer
  <2>5. g \in S
    <3>1. s[k - 1].list[2] = g
      BY <2>4, ListsDiffer
    <3> QED BY <3>1, <2>1
  <2> QED BY <2>4, <2>5, <1>7
<1>9. s[i].list # CatIn(f)
  BY <1>8, <1>1
(* A list of catalogs with f calls for the entries of f.                   *)
<1>10. ASSUME NEW k \in (i + 1)..j, s[k].list = CatDoc(f) PROVE FALSE
  <2>1. k - 1 \in i..j /\ k - 1 \in 1..(Len(s) - 1) /\ (k - 1) + 1 = k
    BY <1>1, <1>5
  <2>2. Link(c, s[k - 1].list, CatDoc(f))
    BY <2>1, <1>2, <1>10
  <2>3. s[k - 1].list = CatIn(f)
    BY <2>2, ListsDiffer, Zenon DEF Link
  <2>4. k - 1 # i
    BY <2>3, <1>9
  <2>5. k - 1 \in (i + 1)..j
    BY <2>1, <2>4, <1>1
  <2> QED BY <2>3, <2>5, <1>8
<1>11. PICK k \in i..j : f = s[k].list[2]
  BY <1>7
<1>12. s[k].list = CatIn(f) \/ s[k].list = CatDoc(f)
  <2>1. PICK g \in FilesOf(c) : s[k].list = CatIn(g) \/ s[k].list = CatDoc(g)
    BY <1>3, <1>5
  <2> QED BY <2>1, <1>11, ListsDiffer
<1>13. CASE k = i
  BY <1>13, <1>12, <1>9, <1>10, <1>1
<1>14. CASE k # i
  <2>1. k \in (i + 1)..j
    BY <1>14, <1>1
  <2> QED BY <2>1, <1>8, <1>10, <1>12
<1> QED BY <1>13, <1>14

(* The calls that have incremented the counter of a list and will          *)
(* decrement it.                                                           *)
FrameLive(kind, fr) == fr.at \notin {"enter", "count"} /\ CatCounts(kind, fr)
Live(kind, s, l) == {i \in DOMAIN s : s[i].list = l /\ FrameLive(kind, s[i])}

LEMMA LiveFinite ==
  ASSUME NEW kind, NEW s, IsStack(s), NEW l
  PROVE  /\ IsFiniteSet(Live(kind, s, l)) /\ Cardinality(Live(kind, s, l)) \in Nat
         /\ Live(kind, s, l) \subseteq 1..Len(s)
<1>1. Len(s) \in Nat /\ DOMAIN s = 1..Len(s)
  BY StackProperties
<1>2. Live(kind, s, l) \subseteq 1..Len(s) /\ IsFiniteSet(1..Len(s))
  BY <1>1, FS_Interval DEF Live
<1> HIDE DEF Live
<1>3. IsFiniteSet(Live(kind, s, l))
  BY <1>2, FS_Subset
<1> QED BY <1>2, <1>3, FS_CardinalityType

LEMMA LiveSet ==
  ASSUME NEW kind, NEW s, IsStack(s), s # <<>>, NEW f, f.list = s[1].list, NEW l,
         FrameLive(kind, f) <=> FrameLive(kind, s[1])
  PROVE  Live(kind, [s EXCEPT ![1] = f], l) = Live(kind, s, l)
<1> DEFINE r == [s EXCEPT ![1] = f]
<1>1. /\ IsStack(r) /\ Len(r) = Len(s) /\ r[1] = f
      /\ \A i \in 2..Len(s) : r[i] = s[i]
  BY StackSet
<1> HIDE DEF r
<1>2. DOMAIN r = 1..Len(s) /\ DOMAIN s = 1..Len(s) /\ Len(s) \in Nat
  BY <1>1, StackProperties
<1>3. \A i \in 1..Len(s) : (r[i].list = l /\ FrameLive(kind, r[i])
                              <=> s[i].list = l /\ FrameLive(kind, s[i]))
  <2> TAKE i \in 1..Len(s)
  <2>1. CASE i = 1
    BY <2>1, <1>1
  <2>2. CASE i # 1
    BY <2>2, <1>1, <1>2
  <2> QED BY <2>1, <2>2
<1> QED BY <1>2, <1>3, Zenon DEF Live, r

LEMMA LiveGain ==
  ASSUME NEW kind, NEW s, IsStack(s), s # <<>>, NEW f, f.list = s[1].list, NEW l,
         FrameLive(kind, f), ~FrameLive(kind, s[1])
  PROVE  Cardinality(Live(kind, [s EXCEPT ![1] = f], l))
           = Cardinality(Live(kind, s, l)) + (IF f.list = l THEN 1 ELSE 0)
<1> DEFINE r == [s EXCEPT ![1] = f]
           A == Live(kind, s, l)
           B == Live(kind, r, l)
<1>1. /\ IsStack(r) /\ Len(r) = Len(s) /\ r[1] = f
      /\ \A i \in 2..Len(s) : r[i] = s[i]
  BY StackSet
<1> HIDE DEF r
<1>2. DOMAIN r = 1..Len(s) /\ DOMAIN s = 1..Len(s) /\ Len(s) \in Nat /\ 1 \in 1..Len(s)
  BY <1>1, StackProperties
<1>3. IsFiniteSet(A) /\ Cardinality(A) \in Nat /\ 1 \notin A
  <2>1. 1 \notin A
    BY DEF Live
  <2> QED BY <2>1, LiveFinite
<1>4. ASSUME NEW i \in 1..Len(s), i # 1
      PROVE  (r[i].list = l /\ FrameLive(kind, r[i])
                <=> s[i].list = l /\ FrameLive(kind, s[i]))
  BY <1>1, <1>2, <1>4
<1>5. CASE f.list = l
  <2>1. B = A \cup {1}
    BY <1>1, <1>2, <1>4, <1>5, Zenon DEF Live
  <2> HIDE DEF A, B
  <2>2. Cardinality(B) = Cardinality(A) + 1
    BY <2>1, <1>3, FS_AddElement
  <2> QED BY <2>2, <1>5 DEF A, B, r
<1>6. CASE f.list # l
  <2>1. B = A
    BY <1>1, <1>2, <1>4, <1>6, Zenon DEF Live
  <2> HIDE DEF A, B
  <2>2. Cardinality(B) = Cardinality(A) + 0
    BY <2>1, <1>3
  <2> QED BY <2>2, <1>6 DEF A, B, r
<1> QED BY <1>5, <1>6

(* Numbering the frames from one later or earlier keeps their number.      *)
LEMMA ShiftCardinality ==
  ASSUME NEW S, S \subseteq Int, IsFiniteSet(S), NEW k \in Int
  PROVE  /\ IsFiniteSet({i + k : i \in S})
         /\ Cardinality({i + k : i \in S}) = Cardinality(S)
<1> DEFINE T == {i + k : i \in S}
           h == [i \in S |-> i + k]
<1>1. h \in [S -> T] /\ \A i \in S : h[i] = i + k
  OBVIOUS
<1>2. \A y \in T : \E i \in S : h[i] = y
  OBVIOUS
<1>3. \A i, j \in S : h[i] = h[j] => i = j
  OBVIOUS
<1> HIDE DEF h
<1>4. h \in Bijection(S, T)
  <2> HIDE DEF T
  <2>1. IsInjective(h)
    BY <1>1, <1>3 DEF IsInjective
  <2> QED BY <2>1, <1>1, <1>2 DEF Bijection, Injection, Surjection
<1>5. ExistsBijection(S, T)
  BY <1>4 DEF ExistsBijection
<1> HIDE DEF T
<1>6. IsFiniteSet(T) /\ Cardinality(T) = Cardinality(S)
  BY <1>5, FS_Bijection
<1> QED BY <1>6 DEF T

LEMMA LivePop ==
  ASSUME NEW kind, NEW s, IsStack(s), s # <<>>, NEW l
  PROVE  Cardinality(Live(kind, Tail(s), l))
           = Cardinality(Live(kind, s, l))
               - (IF s[1].list = l /\ FrameLive(kind, s[1]) THEN 1 ELSE 0)
<1> DEFINE r == Tail(s)
           A == Live(kind, s, l)
           B == Live(kind, r, l)
<1>1. /\ IsStack(r) /\ Len(r) = Len(s) - 1
      /\ \A i \in 1..Len(r) : r[i] = s[i + 1]
  BY StackPop
<1> HIDE DEF r
<1>2. /\ DOMAIN r = 1..(Len(s) - 1) /\ DOMAIN s = 1..Len(s)
      /\ Len(s) \in Nat /\ Len(s) >= 1 /\ 1 \in 1..Len(s)
  BY <1>1, StackProperties
<1>3. IsFiniteSet(B) /\ B \subseteq Int /\ IsFiniteSet(A) /\ Cardinality(A) \in Nat
  <2>1. B \subseteq 1..Len(r) /\ IsFiniteSet(B) /\ IsFiniteSet(A) /\ Cardinality(A) \in Nat
    BY <1>1, LiveFinite
  <2> QED BY <2>1, <1>1, <1>2
<1>4. A \ {1} = {i + 1 : i \in B}
  <2>1. ASSUME NEW i \in B PROVE i + 1 \in A \ {1}
    BY <2>1, <1>1, <1>2 DEF Live
  <2>2. ASSUME NEW i \in A \ {1} PROVE i - 1 \in B /\ i = (i - 1) + 1
    <3>1. i \in 2..Len(s) /\ s[i].list = l /\ FrameLive(kind, s[i])
      BY <2>2, <1>2 DEF Live
    <3>2. i - 1 \in 1..Len(r) /\ (i - 1) + 1 = i /\ i - 1 \in DOMAIN r
      BY <3>1, <1>1, <1>2
    <3>3. r[i - 1] = s[i]
      BY <3>2, <1>1
    <3> QED BY <3>1, <3>2, <3>3, Zenon DEF Live
  <2> HIDE DEF A, B
  <2> QED BY <2>1, <2>2
<1>5. 1 \in A <=> s[1].list = l /\ FrameLive(kind, s[1])
  BY <1>2 DEF Live
<1> HIDE DEF A, B
<1>6. Cardinality(A \ {1}) = IF 1 \in A THEN Cardinality(A) - 1 ELSE Cardinality(A)
  BY <1>3, FS_RemoveElement
<1>7. Cardinality(A \ {1}) = Cardinality(B)
  <2>1. 1 \in Int
    OBVIOUS
  <2>2. Cardinality({i + 1 : i \in B}) = Cardinality(B)
    BY <2>1, <1>3, ShiftCardinality, Zenon
  <2> QED BY <2>2, <1>4
<1>8. Cardinality(B)
        = Cardinality(A) - (IF s[1].list = l /\ FrameLive(kind, s[1]) THEN 1 ELSE 0)
  BY <1>3, <1>5, <1>6, <1>7
<1> QED BY <1>8 DEF A, B, r

LEMMA LivePush ==
  ASSUME NEW kind, NEW s, IsStack(s), s # <<>>, NEW f, f.list = s[1].list, NEW l,
         FrameLive(kind, f) <=> FrameLive(kind, s[1]), NEW g, g.at = "enter"
  PROVE  Cardinality(Live(kind, <<g, f>> \o Tail(s), l)) = Cardinality(Live(kind, s, l))
<1> DEFINE r == <<g, f>> \o Tail(s)
           A == Live(kind, s, l)
           B == Live(kind, r, l)
<1>1. /\ IsStack(r) /\ Len(r) = Len(s) + 1 /\ r[1] = g /\ r[2] = f
      /\ \A i \in 3..Len(r) : r[i] = s[i - 1]
  BY StackPush
<1> HIDE DEF r
<1>2. /\ DOMAIN r = 1..(Len(s) + 1) /\ DOMAIN s = 1..Len(s)
      /\ Len(s) \in Nat /\ Len(s) >= 1 /\ 1 \in 1..Len(s)
  BY <1>1, StackProperties
<1>3. IsFiniteSet(A) /\ A \subseteq Int
  <2>1. A \subseteq 1..Len(s) /\ IsFiniteSet(A)
    BY LiveFinite
  <2> QED BY <2>1, <1>2
<1>4. ASSUME NEW i \in 1..Len(s)
      PROVE  /\ i + 1 \in DOMAIN r
             /\ (r[i + 1].list = l /\ FrameLive(kind, r[i + 1])
                   <=> s[i].list = l /\ FrameLive(kind, s[i]))
  <2>1. i + 1 \in DOMAIN r
    BY <1>2
  <2>2. CASE i = 1
    <3>1. r[i + 1] = f /\ s[i] = s[1]
      BY <2>2, <1>1
    <3> QED BY <3>1, <2>1
  <2>3. CASE i # 1
    <3>1. i + 1 \in 3..Len(r) /\ (i + 1) - 1 = i
      BY <2>3, <1>1, <1>2
    <3>2. r[i + 1] = s[i]
      BY <3>1, <1>1
    <3> QED BY <3>2, <2>1
  <2> QED BY <2>2, <2>3
<1>5. B = {i + 1 : i \in A}
  <2>1. ASSUME NEW i \in A PROVE i + 1 \in B
    BY <1>4, <1>2, Zenon DEF Live
  <2>2. ASSUME NEW k \in B PROVE \E i \in A : k = i + 1
    <3>1. k \in 1..(Len(s) + 1) /\ r[k].list = l /\ FrameLive(kind, r[k])
      BY <1>2, Zenon DEF Live
    <3>2. k # 1
      BY <3>1, <1>1 DEF FrameLive
    <3>3. k - 1 \in 1..Len(s) /\ (k - 1) + 1 = k
      BY <3>1, <3>2, <1>2
    <3>4. k - 1 \in A
      BY <3>1, <3>3, <1>2, <1>4, Zenon DEF Live
    <3> QED BY <3>3, <3>4
  <2> HIDE DEF A, B
  <2> QED BY <2>1, <2>2
<1> HIDE DEF A, B
<1>6. Cardinality(B) = Cardinality(A)
  <2>1. 1 \in Int
    OBVIOUS
  <2>2. Cardinality({i + 1 : i \in A}) = Cardinality(A)
    BY <2>1, <1>3, ShiftCardinality, Zenon
  <2> QED BY <2>2, <1>5
<1> QED BY <1>6 DEF A, B, r

(* Without circles at most one call holds the counter of a list.           *)
LEMMA LiveOnce ==
  ASSUME NEW c, NEW s, Chain(c, s), AcyclicIn(c), NEW kind, NEW l
  PROVE  Cardinality(Live(kind, s, l)) <= 1
<1>1. /\ IsFiniteSet(Live(kind, s, l)) /\ Cardinality(Live(kind, s, l)) \in Nat
      /\ Live(kind, s, l) \subseteq 1..Len(s) /\ Len(s) \in Nat
  BY LiveFinite, StackProperties DEF Chain
<1>2. ASSUME NEW i \in Live(kind, s, l), NEW j \in Live(kind, s, l) PROVE i = j
  <2>1. s[i].list = s[j].list /\ i \in 1..Len(s) /\ j \in 1..Len(s)
    BY <1>1, <1>2 DEF Live
  <2>2. ~(i < j) /\ ~(j < i)
    BY <2>1, ListsDistinct
  <2> QED BY <2>1, <2>2, <1>1
<1> DEFINE A == Live(kind, s, l)
<1> HIDE DEF A
<1>3. IsFiniteSet(A) /\ \A i, j \in A : i = j
  BY <1>1, <1>2 DEF A
<1>4. CASE A = {}
  BY <1>4, FS_EmptySet DEF A
<1>5. CASE A # {}
  <2>1. PICK i : A = {i}
    BY <1>3, <1>5
  <2>2. Cardinality({i}) = 1
    BY FS_Singleton
  <2>3. Cardinality(A) = 1
    BY <2>1, <2>2
  <2> QED BY <2>3 DEF A
<1> QED BY <1>4, <1>5

(* The counter that a frame is about to write was read from catDepth.      *)
TopOK(kind, counters, fr) ==
  /\ fr.at \in {"count", "uncount"} => CatCounts(kind, fr) /\ fr.d = counters[fr.list]
  /\ fr.at = "count" => fr.d <= CatMaxDepth

ListsOf(c) ==
  {CatRoot} \cup {CatDoc(f) : f \in FilesOf(c)} \cup {CatIn(f) : f \in FilesOf(c)}

(* A counter is never below the number of calls that hold it, it stays     *)
(* within its bound, and without circles it is that number.                *)
Balanced(c, kind, s, counters) ==
  /\ DOMAIN counters = ListsOf(c)
  /\ \A l \in DOMAIN counters :
       /\ counters[l] \in Int /\ counters[l] <= CatMaxDepth + 1
       /\ Cardinality(Live(kind, s, l)) <= counters[l]
       /\ AcyclicIn(c) => counters[l] = Cardinality(Live(kind, s, l))

GuardInv(c, kind, s, counters) ==
  /\ Chain(c, s)
  /\ s # <<>> => TopOK(kind, counters, s[1])
  /\ Balanced(c, kind, s, counters)

LEMMA FrameLists ==
  ASSUME NEW c, NEW fr, FrameOK(c, fr)
  PROVE  fr.list \in ListsOf(c)
BY Zenon DEF FrameOK, ListsOf

LEMMA ChainTop ==
  ASSUME NEW c, NEW s, Chain(c, s), s # <<>>
  PROVE  IsStack(s) /\ FrameOK(c, s[1])
BY StackProperties DEF Chain

LEMMA GuardSet ==
  ASSUME NEW c, NEW kind, NEW s, NEW counters, GuardInv(c, kind, s, counters), s # <<>>,
         NEW f, FrameOK(c, f), f.list = s[1].list, TopOK(kind, counters, f),
         FrameLive(kind, f) <=> FrameLive(kind, s[1])
  PROVE  GuardInv(c, kind, [s EXCEPT ![1] = f], counters)
<1> DEFINE r == [s EXCEPT ![1] = f]
<1>1. Chain(c, s) /\ IsStack(s) /\ Balanced(c, kind, s, counters)
  BY ChainTop DEF GuardInv
<1>2. Chain(c, r)
  BY <1>1, ChainSet
<1>3. r[1] = f
  BY <1>1, StackSet
<1>4. \A l : Live(kind, r, l) = Live(kind, s, l)
  BY <1>1, LiveSet
<1> HIDE DEF r
<1>5. Balanced(c, kind, r, counters)
  BY <1>1, <1>4 DEF Balanced
<1> QED BY <1>2, <1>3, <1>5 DEF GuardInv, r

LEMMA GuardPop ==
  ASSUME NEW c, NEW kind, NEW s, NEW counters, GuardInv(c, kind, s, counters), s # <<>>,
         FrameLive(kind, s[1]) => ~AcyclicIn(c)
  PROVE  GuardInv(c, kind, Tail(s), counters)
<1> DEFINE r == Tail(s)
<1>1. Chain(c, s) /\ IsStack(s) /\ Balanced(c, kind, s, counters)
  BY ChainTop DEF GuardInv
<1>2. Chain(c, r) /\ IsStack(r)
  <2>1. Chain(c, r)
    BY <1>1, ChainPop
  <2> QED BY <2>1 DEF Chain
<1>3. r # <<>> => TopOK(kind, counters, r[1])
  <2> SUFFICES ASSUME r # <<>> PROVE TopOK(kind, counters, r[1])
    OBVIOUS
  <2>1. 1 \in 1..Len(r) /\ Len(r) = Len(s) - 1 /\ Len(s) \in Nat
    BY <1>1, <1>2, StackPop, StackProperties
  <2>2. r[1] = s[1 + 1] /\ 1 + 1 \in 2..Len(s)
    BY <2>1, <1>1, StackPop
  <2>3. r[1].at = "back"
    BY <2>2, <1>1 DEF Chain
  <2> QED BY <2>3 DEF TopOK
<1>4. \A l : Cardinality(Live(kind, r, l))
               = Cardinality(Live(kind, s, l))
                   - (IF s[1].list = l /\ FrameLive(kind, s[1]) THEN 1 ELSE 0)
  BY <1>1, LivePop
<1>5. \A l : Cardinality(Live(kind, s, l)) \in Nat
  BY <1>1, LiveFinite
<1> HIDE DEF r
<1>6. Balanced(c, kind, r, counters)
  BY <1>1, <1>4, <1>5 DEF Balanced
<1> QED BY <1>2, <1>3, <1>6 DEF GuardInv, r

LEMMA GuardPush ==
  ASSUME NEW c, NEW kind, NEW s, NEW counters, GuardInv(c, kind, s, counters), s # <<>>,
         NEW f, FrameOK(c, f), f.list = s[1].list, f.at = "back",
         FrameLive(kind, f) <=> FrameLive(kind, s[1]),
         NEW g, FrameOK(c, g), g.at = "enter", Link(c, g.list, f.list)
  PROVE  GuardInv(c, kind, <<g, f>> \o Tail(s), counters)
<1> DEFINE r == <<g, f>> \o Tail(s)
<1>1. Chain(c, s) /\ IsStack(s) /\ Balanced(c, kind, s, counters)
  BY ChainTop DEF GuardInv
<1>2. Chain(c, r)
  BY <1>1, ChainPush
<1>3. r[1] = g
  BY <1>1, StackPush
<1>4. TopOK(kind, counters, g)
  BY DEF TopOK
<1>5. \A l : Cardinality(Live(kind, r, l)) = Cardinality(Live(kind, s, l))
  BY <1>1, LivePush
<1> HIDE DEF r
<1>6. Balanced(c, kind, r, counters)
  BY <1>1, <1>5 DEF Balanced
<1> QED BY <1>2, <1>3, <1>4, <1>6 DEF GuardInv, r

LEMMA GuardCount ==
  ASSUME NEW c, NEW kind, NEW s, NEW counters, GuardInv(c, kind, s, counters), s # <<>>,
         s[1].at = "count", NEW f, FrameOK(c, f), f.list = s[1].list,
         f.at \notin {"count", "uncount"}, FrameLive(kind, f)
  PROVE  GuardInv(c, kind, [s EXCEPT ![1] = f], [counters EXCEPT ![s[1].list] = s[1].d + 1])
<1> DEFINE r == [s EXCEPT ![1] = f]
           e == [counters EXCEPT ![s[1].list] = s[1].d + 1]
<1>1. Chain(c, s) /\ IsStack(s) /\ Balanced(c, kind, s, counters) /\ TopOK(kind, counters, s[1])
  BY ChainTop DEF GuardInv
<1>2. Chain(c, r) /\ r[1] = f
  BY <1>1, ChainSet, StackSet
<1>3. TopOK(kind, e, f)
  BY DEF TopOK
<1>4. \A l : Cardinality(Live(kind, r, l))
               = Cardinality(Live(kind, s, l)) + (IF f.list = l THEN 1 ELSE 0)
  <2>1. ~FrameLive(kind, s[1])
    BY DEF FrameLive
  <2> QED BY <1>1, <2>1, LiveGain
<1>5. \A l : Cardinality(Live(kind, s, l)) \in Nat
  BY <1>1, LiveFinite
<1>6. s[1].list \in DOMAIN counters /\ s[1].d = counters[s[1].list] /\ s[1].d <= CatMaxDepth
  BY <1>1, FrameLists DEF Balanced, TopOK
<1> HIDE DEF r
<1>7. Balanced(c, kind, r, e)
  <2>1. DOMAIN e = ListsOf(c)
    BY <1>1 DEF Balanced
  <2>2. ASSUME NEW l \in DOMAIN e
        PROVE  /\ e[l] \in Int /\ e[l] <= CatMaxDepth + 1
               /\ Cardinality(Live(kind, r, l)) <= e[l]
               /\ AcyclicIn(c) => e[l] = Cardinality(Live(kind, r, l))
    <3>1. /\ l \in DOMAIN counters /\ counters[l] \in Int /\ counters[l] <= CatMaxDepth + 1
          /\ Cardinality(Live(kind, s, l)) <= counters[l]
          /\ AcyclicIn(c) => counters[l] = Cardinality(Live(kind, s, l))
      BY <1>1, <2>1 DEF Balanced
    <3>2. CASE l = s[1].list
      <4>1. e[l] = counters[l] + 1 /\ counters[l] <= CatMaxDepth
        BY <3>1, <3>2, <1>6
      <4>2. Cardinality(Live(kind, r, l)) = Cardinality(Live(kind, s, l)) + 1
        BY <3>2, <1>4
      <4> HIDE DEF e
      <4> QED BY <4>1, <4>2, <3>1, <1>5, CatAssumption
    <3>3. CASE l # s[1].list
      <4>1. e[l] = counters[l]
        BY <3>1, <3>3
      <4>2. Cardinality(Live(kind, r, l)) = Cardinality(Live(kind, s, l))
        BY <3>3, <1>4, <1>5
      <4> HIDE DEF e
      <4> QED BY <4>1, <4>2, <3>1
    <3> QED BY <3>2, <3>3
  <2> HIDE DEF e
  <2> QED BY <2>1, <2>2 DEF Balanced
<1> QED BY <1>2, <1>3, <1>7 DEF GuardInv, r

LEMMA GuardUncount ==
  ASSUME NEW c, NEW kind, NEW s, NEW counters, GuardInv(c, kind, s, counters), s # <<>>,
         s[1].at = "uncount"
  PROVE  GuardInv(c, kind, Tail(s), [counters EXCEPT ![s[1].list] = s[1].d - 1])
<1> DEFINE r == Tail(s)
           e == [counters EXCEPT ![s[1].list] = s[1].d - 1]
<1>1. Chain(c, s) /\ IsStack(s) /\ Balanced(c, kind, s, counters) /\ TopOK(kind, counters, s[1])
  BY ChainTop DEF GuardInv
<1>2. Chain(c, r) /\ IsStack(r)
  <2>1. Chain(c, r)
    BY <1>1, ChainPop
  <2> QED BY <2>1 DEF Chain
<1>3. r # <<>> => TopOK(kind, e, r[1])
  <2> SUFFICES ASSUME r # <<>> PROVE TopOK(kind, e, r[1])
    OBVIOUS
  <2>1. 1 \in 1..Len(r) /\ Len(r) = Len(s) - 1 /\ Len(s) \in Nat
    BY <1>1, <1>2, StackPop, StackProperties
  <2>2. r[1] = s[1 + 1] /\ 1 + 1 \in 2..Len(s)
    BY <2>1, <1>1, StackPop
  <2>3. r[1].at = "back"
    BY <2>2, <1>1 DEF Chain
  <2> QED BY <2>3 DEF TopOK
<1>4. \A l : Cardinality(Live(kind, r, l))
               = Cardinality(Live(kind, s, l)) - (IF s[1].list = l THEN 1 ELSE 0)
  <2>1. FrameLive(kind, s[1])
    BY <1>1 DEF FrameLive, TopOK
  <2> QED BY <1>1, <2>1, LivePop
<1>5. \A l : Cardinality(Live(kind, s, l)) \in Nat
  BY <1>1, LiveFinite
<1>6. s[1].list \in DOMAIN counters /\ s[1].d = counters[s[1].list]
  BY <1>1, ChainTop, FrameLists DEF Balanced, TopOK
<1> HIDE DEF r
<1>7. Balanced(c, kind, r, e)
  <2>1. DOMAIN e = ListsOf(c)
    BY <1>1 DEF Balanced
  <2>2. ASSUME NEW l \in DOMAIN e
        PROVE  /\ e[l] \in Int /\ e[l] <= CatMaxDepth + 1
               /\ Cardinality(Live(kind, r, l)) <= e[l]
               /\ AcyclicIn(c) => e[l] = Cardinality(Live(kind, r, l))
    <3>1. /\ l \in DOMAIN counters /\ counters[l] \in Int /\ counters[l] <= CatMaxDepth + 1
          /\ Cardinality(Live(kind, s, l)) <= counters[l]
          /\ AcyclicIn(c) => counters[l] = Cardinality(Live(kind, s, l))
      BY <1>1, <2>1 DEF Balanced
    <3>2. CASE l = s[1].list
      <4>1. e[l] = counters[l] - 1
        BY <3>1, <3>2, <1>6
      <4>2. Cardinality(Live(kind, r, l)) = Cardinality(Live(kind, s, l)) - 1
        BY <3>2, <1>4
      <4> HIDE DEF e
      <4> QED BY <4>1, <4>2, <3>1, <1>5, CatAssumption
    <3>3. CASE l # s[1].list
      <4>1. e[l] = counters[l]
        BY <3>1, <3>3
      <4>2. Cardinality(Live(kind, r, l)) = Cardinality(Live(kind, s, l))
        BY <3>3, <1>4, <1>5
      <4> HIDE DEF e
      <4> QED BY <4>1, <4>2, <3>1
    <3> QED BY <3>2, <3>3
  <2> HIDE DEF e
  <2> QED BY <2>1, <2>2 DEF Balanced
<1> QED BY <1>2, <1>3, <1>7 DEF GuardInv, r

(* The first call of a search.                                             *)
LEMMA GuardCall ==
  ASSUME NEW c, NEW kind, NEW counters, GuardInv(c, kind, <<>>, counters), NEW k,
         NEW pub, NEW sys
  PROVE  GuardInv(c, k, <<CatFrame("list", CatRoot, pub, sys)>>, counters)
<1> DEFINE f == CatFrame("list", CatRoot, pub, sys)
<1>1. f.at = "enter" /\ f.fn = "list" /\ f.list = CatRoot /\ DOMAIN f = Fields
  BY DEF CatFrame, Fields
<1> HIDE DEF f
<1>2. FrameOK(c, f)
  BY <1>1 DEF FrameOK
<1> DEFINE r == <<f>>
<1>3. r \in Seq({f}) /\ Len(r) = 1 /\ r[1] = f /\ DOMAIN r = 1..1
  OBVIOUS
<1> HIDE DEF r
<1>4. IsStack(r)
  BY <1>3, StackOfSeq
<1>5. Chain(c, r)
  BY <1>1, <1>2, <1>3, <1>4 DEF Chain
<1>6. TopOK(k, counters, r[1])
  BY <1>1, <1>3 DEF TopOK
<1>7. \A l : Live(k, r, l) = {} /\ Live(kind, <<>>, l) = {}
  <2>1. \A l : Live(k, r, l) = {}
    BY <1>1, <1>3 DEF Live, FrameLive
  <2>2. \A l : Live(kind, <<>>, l) = {}
    BY DEF Live
  <2> QED BY <2>1, <2>2
<1>8. Balanced(c, k, r, counters)
  BY <1>7 DEF Balanced, GuardInv
<1> QED BY <1>5, <1>6, <1>8 DEF GuardInv, r, f

(* The state of the search of a thread that has the catalogs for itself.   *)
CatGuard(t) ==
  /\ catSetup \in CatSetups /\ DOMAIN catStack = CatThreads /\ t \in CatThreads
  /\ GuardInv(catSetup, CatKind(t), catStack[t], catDepth)

(* The top frame of a thread inside a call.                                *)
LEMMA TopFrame ==
  ASSUME NEW t, CatGuard(t), catStack[t] # <<>>
  PROVE  /\ FrameOK(catSetup, CatTop(t)) /\ DOMAIN CatTop(t) = Fields
         /\ TopOK(CatKind(t), catDepth, CatTop(t))
         /\ CatTop(t).list \in DOMAIN catDepth /\ catDepth[CatTop(t).list] \in Int
<1>1. Chain(catSetup, catStack[t]) /\ Balanced(catSetup, CatKind(t), catStack[t], catDepth)
  BY DEF CatGuard, GuardInv
<1>2. FrameOK(catSetup, CatTop(t))
  BY <1>1, ChainTop DEF CatTop
<1>3. CatTop(t).list \in ListsOf(catSetup)
  BY <1>2, FrameLists
<1> QED BY <1>1, <1>2, <1>3 DEF CatGuard, GuardInv, CatTop, FrameOK, Balanced

(* A step that replaces the top frame, removes it, or adds one above it.   *)
LEMMA StackSteps ==
  ASSUME NEW t, CatGuard(t), NEW f, NEW g, NEW ret
  PROVE  /\ CatGoTo(t, f) => catStack'[t] = [catStack[t] EXCEPT ![1] = f]
         /\ CatReturn(t, ret) => catStack'[t] = Tail(catStack[t])
BY DEF CatGuard, CatGoTo, CatReturn

LEMMA StepSet ==
  ASSUME NEW t, CatGuard(t), catStack[t] # <<>>, UNCHANGED <<catSetup, catReq, catDepth>>,
         NEW f, catStack'[t] = [catStack[t] EXCEPT ![1] = f],
         FrameOK(catSetup, f), f.list = CatTop(t).list, TopOK(CatKind(t), catDepth, f),
         FrameLive(CatKind(t), f) <=> FrameLive(CatKind(t), CatTop(t))
  PROVE  GuardInv(catSetup, CatKind(t), catStack[t], catDepth)'
<1>1. GuardInv(catSetup, CatKind(t), [catStack[t] EXCEPT ![1] = f], catDepth)
  BY GuardSet DEF CatGuard, CatTop
<1> QED BY <1>1 DEF CatKind

LEMMA StepPop ==
  ASSUME NEW t, CatGuard(t), catStack[t] # <<>>, UNCHANGED <<catSetup, catReq, catDepth>>,
         catStack'[t] = Tail(catStack[t]),
         FrameLive(CatKind(t), CatTop(t)) => ~AcyclicIn(catSetup)
  PROVE  GuardInv(catSetup, CatKind(t), catStack[t], catDepth)'
<1>1. GuardInv(catSetup, CatKind(t), Tail(catStack[t]), catDepth)
  BY GuardPop DEF CatGuard, CatTop
<1> QED BY <1>1 DEF CatKind

LEMMA EnterGuard ==
  ASSUME NEW t, CatGuard(t), CatEnter(t)
  PROVE  GuardInv(catSetup, CatKind(t), catStack[t], catDepth)'
<1> DEFINE fr == CatTop(t)
           d == catDepth[fr.list]
           counts == CatCounts(CatKind(t), fr)
<1>1. /\ catStack[t] # <<>> /\ fr.at = "enter"
      /\ UNCHANGED <<catSetup, catReq, catDepth>>
  BY DEF CatEnter, CatAt, CatCallVars
<1>2. FrameOK(catSetup, fr) /\ DOMAIN fr = Fields /\ d \in Int
  BY <1>1, TopFrame
<1>3. ~FrameLive(CatKind(t), fr)
  BY <1>1 DEF FrameLive
<1>4. \/ ~counts /\ fr.fn = "list" /\ CatGoTo(t, [fr EXCEPT !.at = "look"])
      \/ CatReturn(t, CatNone)
      \/ /\ counts \/ fr.fn # "list"
         /\ ~CatTooDeep(d)
         /\ CatGoTo(t, [fr EXCEPT !.at = IF counts THEN "count" ELSE "scan", !.d = d])
  BY Zenon DEF CatEnter
<1>5. CASE ~counts /\ fr.fn = "list" /\ CatGoTo(t, [fr EXCEPT !.at = "look"])
  <2>1. PICK f : f = [fr EXCEPT !.at = "look"]
    OBVIOUS
  <2>2. /\ DOMAIN f = Fields /\ f.at = "look" /\ f.fn = fr.fn /\ f.list = fr.list
    BY <2>1, <1>2 DEF Fields
  <2> HIDE DEF fr
  <2>3. FrameOK(catSetup, f) /\ TopOK(CatKind(t), catDepth, f)
    BY <2>2, <1>2 DEF FrameOK, TopOK
  <2>4. ~FrameLive(CatKind(t), f)
    BY <2>2, <1>5 DEF FrameLive, CatCounts
  <2>5. catStack'[t] = [catStack[t] EXCEPT ![1] = f]
    BY <2>1, <1>5, StackSteps
  <2> QED BY <1>1, <1>3, <2>2, <2>3, <2>4, <2>5, StepSet DEF fr
<1>6. CASE CatReturn(t, CatNone)
  BY <1>1, <1>3, <1>6, StackSteps, StepPop
<1>7. CASE /\ counts \/ fr.fn # "list"
           /\ ~CatTooDeep(d)
           /\ CatGoTo(t, [fr EXCEPT !.at = IF counts THEN "count" ELSE "scan", !.d = d])
  <2>1. PICK f : f = [fr EXCEPT !.at = IF counts THEN "count" ELSE "scan", !.d = d]
    OBVIOUS
  <2>2. /\ DOMAIN f = Fields /\ f.fn = fr.fn /\ f.list = fr.list /\ f.d = d
        /\ f.at = IF counts THEN "count" ELSE "scan"
    BY <2>1, <1>2 DEF Fields
  <2>3. d <= CatMaxDepth
    BY <1>7, <1>2, CatAssumption DEF CatTooDeep
  <2>4. CatCounts(CatKind(t), f) <=> counts
    BY <2>2 DEF CatCounts
  <2>5. counts => f.at = "count"
    BY <2>2
  <2>6. ~counts => f.at = "scan" /\ f.fn # "list"
    BY <2>2, <1>7
  <2>7. FrameOK(catSetup, f)
    <3> HIDE DEF counts, d, fr
    <3> QED BY <2>2, <2>5, <2>6, <1>2 DEF FrameOK
  <2>8. TopOK(CatKind(t), catDepth, f)
    <3>1. catDepth[f.list] = d
      BY <2>2
    <3> HIDE DEF counts, d, fr
    <3> QED BY <3>1, <2>2, <2>3, <2>4, <2>5, <2>6 DEF TopOK
  <2>9. ~FrameLive(CatKind(t), f)
    BY <2>4, <2>5 DEF FrameLive
  <2>10. catStack'[t] = [catStack[t] EXCEPT ![1] = f]
    BY <2>1, <1>7, StackSteps
  <2> QED BY <1>1, <1>3, <2>2, <2>7, <2>8, <2>9, <2>10, StepSet
<1> QED BY <1>4, <1>5, <1>6, <1>7

LEMMA CountGuard ==
  ASSUME NEW t, CatGuard(t), CatCount(t)
  PROVE  GuardInv(catSetup, CatKind(t), catStack[t], catDepth)'
<1> DEFINE fr == CatTop(t)
<1>1. /\ catStack[t] # <<>> /\ fr.at = "count" /\ UNCHANGED <<catSetup, catReq>>
      /\ catDepth' = [catDepth EXCEPT ![fr.list] = fr.d + 1]
      /\ CatGoTo(t, [fr EXCEPT !.at = IF fr.fn = "list" THEN "look" ELSE "scan"])
  BY DEF CatCount, CatAt, CatCallVars
<1>2. FrameOK(catSetup, fr) /\ DOMAIN fr = Fields /\ TopOK(CatKind(t), catDepth, fr)
  BY <1>1, TopFrame
<1>3. PICK f : f = [fr EXCEPT !.at = IF fr.fn = "list" THEN "look" ELSE "scan"]
  OBVIOUS
<1>4. /\ DOMAIN f = Fields /\ f.fn = fr.fn /\ f.list = fr.list
      /\ f.at = IF fr.fn = "list" THEN "look" ELSE "scan"
  BY <1>3, <1>2 DEF Fields
<1>5. FrameOK(catSetup, f)
  <2> HIDE DEF fr
  <2> QED BY <1>2, <1>4 DEF FrameOK
<1>6. FrameLive(CatKind(t), f) /\ f.at \notin {"count", "uncount"}
  BY <1>1, <1>2, <1>4 DEF FrameLive, TopOK, CatCounts
<1>7. catStack'[t] = [catStack[t] EXCEPT ![1] = f]
  BY <1>1, <1>3, StackSteps
<1>8. GuardInv(catSetup, CatKind(t), [catStack[t] EXCEPT ![1] = f],
               [catDepth EXCEPT ![catStack[t][1].list] = catStack[t][1].d + 1])
  BY <1>1, <1>4, <1>5, <1>6, GuardCount DEF CatGuard, CatTop
<1> QED BY <1>1, <1>7, <1>8 DEF CatTop, CatKind

LEMMA UncountGuard ==
  ASSUME NEW t, CatGuard(t), CatUncount(t)
  PROVE  GuardInv(catSetup, CatKind(t), catStack[t], catDepth)'
<1> DEFINE fr == CatTop(t)
<1>1. /\ catStack[t] # <<>> /\ fr.at = "uncount" /\ UNCHANGED <<catSetup, catReq>>
      /\ catDepth' = [catDepth EXCEPT ![fr.list] = fr.d - 1]
      /\ CatReturn(t, fr.ret)
  BY DEF CatUncount, CatAt, CatCallVars
<1>2. catStack'[t] = Tail(catStack[t])
  BY <1>1, StackSteps
<1>3. GuardInv(catSetup, CatKind(t), Tail(catStack[t]),
               [catDepth EXCEPT ![catStack[t][1].list] = catStack[t][1].d - 1])
  BY <1>1, GuardUncount DEF CatGuard, CatTop
<1> QED BY <1>1, <1>2, <1>3 DEF CatTop, CatKind

LEMMA LeaveGuard ==
  ASSUME NEW t, CatGuard(t), CatLeave(t)
  PROVE  GuardInv(catSetup, CatKind(t), catStack[t], catDepth)'
<1> DEFINE fr == CatTop(t)
           counts == CatCounts(CatKind(t), fr)
<1>1. /\ catStack[t] # <<>> /\ fr.at = "leave"
      /\ UNCHANGED <<catSetup, catReq, catDepth>>
      /\ \/ counts /\ CatGoTo(t, [fr EXCEPT !.at = "uncount", !.d = catDepth[fr.list]])
         \/ ~counts /\ CatReturn(t, fr.ret)
  BY DEF CatLeave, CatAt, CatCallVars
<1>2. FrameOK(catSetup, fr) /\ DOMAIN fr = Fields
  BY <1>1, TopFrame
<1>3. CASE counts /\ CatGoTo(t, [fr EXCEPT !.at = "uncount", !.d = catDepth[fr.list]])
  <2>1. PICK f : f = [fr EXCEPT !.at = "uncount", !.d = catDepth[fr.list]]
    OBVIOUS
  <2>2. /\ DOMAIN f = Fields /\ f.fn = fr.fn /\ f.list = fr.list
        /\ f.at = "uncount" /\ f.d = catDepth[f.list]
    BY <2>1, <1>2 DEF Fields
  <2>3. FrameOK(catSetup, f)
    <3> HIDE DEF fr
    <3> QED BY <2>2, <1>2 DEF FrameOK
  <2>4. /\ TopOK(CatKind(t), catDepth, f) /\ FrameLive(CatKind(t), f)
        /\ FrameLive(CatKind(t), fr)
    BY <2>2, <1>1, <1>3 DEF TopOK, FrameLive, CatCounts
  <2>5. catStack'[t] = [catStack[t] EXCEPT ![1] = f]
    BY <2>1, <1>3, StackSteps
  <2> QED BY <1>1, <2>2, <2>3, <2>4, <2>5, StepSet
<1>4. CASE ~counts /\ CatReturn(t, fr.ret)
  <2>1. ~FrameLive(CatKind(t), fr)
    BY <1>4 DEF FrameLive
  <2> QED BY <1>1, <1>4, <2>1, StackSteps, StepPop
<1> QED BY <1>1, <1>3, <1>4

(* A scan ends the call, or says which entries to try.                     *)
LEMMA ScanResult ==
  ASSUME NEW fr, DOMAIN fr = Fields, fr.fn # "list", NEW f,
         f \in {CatScanExt(fr), CatScanUri(fr)}
  PROVE  /\ DOMAIN f = Fields /\ f.list = fr.list /\ f.fn # "list"
         /\ f.at \in {"look", "leave"}
<1>1. \/ \E x \in {"system", "public", "next", "uri"} : f = [fr EXCEPT !.fn = x, !.at = "look"]
      \/ \E ret : f = [fr EXCEPT !.ret = ret, !.at = "leave"]
      \/ f = [fr EXCEPT !.at = "leave"]
  BY Zenon DEF CatScanExt, CatScanUri
<1>2. ASSUME NEW x \in {"system", "public", "next", "uri"},
             f = [fr EXCEPT !.fn = x, !.at = "look"]
      PROVE  /\ DOMAIN f = Fields /\ f.list = fr.list /\ f.fn # "list"
             /\ f.at \in {"look", "leave"}
  BY <1>2 DEF Fields
<1>3. ASSUME NEW ret, f = [fr EXCEPT !.ret = ret, !.at = "leave"]
      PROVE  /\ DOMAIN f = Fields /\ f.list = fr.list /\ f.fn # "list"
             /\ f.at \in {"look", "leave"}
  BY <1>3 DEF Fields
<1>4. CASE f = [fr EXCEPT !.at = "leave"]
  BY <1>4 DEF Fields
<1> QED BY <1>1, <1>2, <1>3, <1>4

LEMMA ScanGuard ==
  ASSUME NEW t, CatGuard(t), CatScan(t)
  PROVE  GuardInv(catSetup, CatKind(t), catStack[t], catDepth)'
<1> DEFINE fr == CatTop(t)
<1>1. /\ catStack[t] # <<>> /\ fr.at = "scan"
      /\ UNCHANGED <<catSetup, catReq, catDepth>>
      /\ CatGoTo(t, IF CatKind(t) = "ext" THEN CatScanExt(fr) ELSE CatScanUri(fr))
  BY DEF CatScan, CatAt, CatCallVars
<1>2. FrameOK(catSetup, fr) /\ DOMAIN fr = Fields
  BY <1>1, TopFrame
<1>3. fr.fn # "list"
  BY <1>1, <1>2 DEF FrameOK
<1>4. PICK f \in {CatScanExt(fr), CatScanUri(fr)} :
        f = IF CatKind(t) = "ext" THEN CatScanExt(fr) ELSE CatScanUri(fr)
  BY Zenon
<1>5. /\ DOMAIN f = Fields /\ f.list = fr.list /\ f.fn # "list"
      /\ f.at \in {"look", "leave"}
  BY <1>2, <1>3, ScanResult
<1>6. catStack'[t] = [catStack[t] EXCEPT ![1] = f]
  BY <1>1, <1>4, StackSteps
<1>7. FrameLive(CatKind(t), f) <=> FrameLive(CatKind(t), fr)
  BY <1>1, <1>3, <1>5 DEF FrameLive, CatCounts
<1>8. FrameOK(catSetup, f) /\ TopOK(CatKind(t), catDepth, f)
  <2> HIDE DEF fr
  <2> QED BY <1>2, <1>3, <1>5 DEF FrameOK, TopOK
<1> QED BY <1>1, <1>5, <1>6, <1>7, <1>8, StepSet

(* What the entries that a frame tries lead to.                            *)
LEMMA TriesLead ==
  ASSUME NEW fr, catSetup \in CatSetups, FrameOK(catSetup, fr), fr.i \in CatTries(fr)
  PROVE  Led(catSetup, fr)
<1> DEFINE c == catSetup
           list == EntriesOf(c, fr.list)
           url == list[fr.i].url
<1>1. /\ fr.i \in DOMAIN list
      /\ fr.fn # "list" => list[fr.i].type \in CatLeads
  <2>1. CatList(fr.list) = list
    BY SetupOperators
  <2>2. CASE fr.fn = "list"
    BY <2>1, <2>2 DEF CatTries, CatOf
  <2>3. CASE fr.fn = "next"
    BY <2>1, <2>3 DEF CatTries, CatOf, CatLeads
  <2>4. CASE fr.fn = "system"
    BY <2>1, <2>4 DEF CatTries, CatOf, CatMatching, CatLeads
  <2>5. CASE fr.fn = "public"
    BY <2>1, <2>5 DEF CatTries, CatOf, CatMatching, CatPublicDelegates, CatLeads
  <2>6. CASE fr.fn \notin {"list", "next", "system", "public"}
    BY <2>1, <2>6 DEF CatTries, CatOf, CatMatching, CatLeads
  <2> QED BY <2>2, <2>3, <2>4, <2>5, <2>6
<1>2. CASE fr.list = CatRoot
  <2>1. list = [i \in DOMAIN c.roots |-> CatOfFile(c.roots[i])]
    BY <1>2, ListsDiffer DEF EntriesOf
  <2>2. fr.i \in DOMAIN c.roots /\ list[fr.i] = CatOfFile(c.roots[fr.i])
    BY <1>1, <2>1
  <2>3. url = c.roots[fr.i]
    BY <2>2 DEF CatOfFile
  <2>4. url \in FilesOf(c)
    BY <2>2, <2>3, CatAssumption DEF FilesOf
  <2>5. fr.fn = "list" /\ fr.list[1] # "doc"
    BY <1>2, ListsDiffer DEF FrameOK
  <2> QED BY <2>4, <2>5 DEF Led
<1>3. ASSUME NEW f \in FilesOf(c), fr.list = CatDoc(f) PROVE Led(c, fr)
  <2>1. fr.list # CatRoot /\ fr.list[1] = "doc" /\ fr.list[2] = f /\ fr.fn = "list"
    BY <1>3, ListsDiffer DEF FrameOK
  <2>2. list = <<CatOfFile(f)>>
    BY <2>1 DEF EntriesOf
  <2>3. list[fr.i] = CatOfFile(f)
    BY <1>1, <2>2
  <2>4. url = f
    BY <2>3 DEF CatOfFile
  <2> QED BY <2>1, <2>4 DEF Led
<1>4. ASSUME NEW f \in FilesOf(c), fr.list = CatIn(f) PROVE Led(c, fr)
  <2>1. fr.list # CatRoot /\ fr.list[1] # "doc" /\ fr.list[2] = f /\ fr.fn # "list"
    BY <1>4, ListsDiffer DEF FrameOK
  <2>2. list = c.content[f]
    BY <2>1 DEF EntriesOf
  <2>3. url \in FilesOf(c)
    BY <1>1, <2>1, <2>2, CatAssumption DEF FilesOf
  <2>4. RefersIn(c, f, url)
    BY <1>1, <2>1, <2>2 DEF RefersIn, Range
  <2> QED BY <2>1, <2>3, <2>4 DEF Led
<1> QED BY <1>2, <1>3, <1>4, Zenon DEF FrameOK

(* The call for the children of an entry.                                  *)
LEMMA InvokeGuard ==
  ASSUME NEW t, CatGuard(t), catStack[t] # <<>>, UNCHANGED <<catSetup, catReq, catDepth>>,
         CatTop(t).at \in {"look", "fetch"}, Led(catSetup, CatTop(t)),
         NEW w, DOMAIN w = Fields, w.fn = CatTop(t).fn, w.list = CatTop(t).list,
         w.i = CatTop(t).i, CatInvoke(t, w)
  PROVE  GuardInv(catSetup, CatKind(t), catStack[t], catDepth)'
<1> DEFINE fr == CatTop(t)
           c == catSetup
<1>1. FrameOK(c, fr)
  BY TopFrame
<1>2. PICK f : f = [w EXCEPT !.at = "back"]
  OBVIOUS
<1>3. /\ DOMAIN f = Fields /\ f.at = "back"
      /\ f.fn = fr.fn /\ f.list = fr.list /\ f.i = fr.i
  BY <1>2 DEF Fields
<1>4. PICK g : g = CatInner(w)
  OBVIOUS
<1>5. PICK url : url = EntriesOf(c, fr.list)[fr.i].url
  OBVIOUS
<1>6. CatList(w.list)[w.i].url = url
  BY <1>5, SetupOperators
<1>7. /\ url \in FilesOf(c)
      /\ fr.fn # "list" => RefersIn(c, fr.list[2], url)
      /\ fr.list[1] = "doc" => url = fr.list[2]
  BY <1>5 DEF Led
<1>8. /\ DOMAIN g = Fields /\ g.at = "enter"
      /\ fr.fn = "list" => g.fn = "file" /\ g.list = CatIn(url)
      /\ fr.fn # "list" => g.fn = "list" /\ g.list = CatDoc(url)
  <2>1. CASE fr.fn = "list"
    <3>1. g = CatFrame("file", CatIn(url), w.pub, w.sys)
      BY <1>4, <1>6, <2>1 DEF CatInner
    <3> QED BY <3>1, <2>1 DEF CatFrame, Fields
  <2>2. CASE fr.fn # "list"
    <3>1. PICK p, q : g = CatFrame("list", CatDoc(url), p, q)
      BY <1>4, <1>6, <2>2 DEF CatInner
    <3> QED BY <3>1, <2>2 DEF CatFrame, Fields
  <2> QED BY <2>1, <2>2
<1>9. catStack'[t] = <<g, f>> \o Tail(catStack[t])
  BY <1>2, <1>4 DEF CatInvoke, CatGuard
<1>10. FrameLive(CatKind(t), f) <=> FrameLive(CatKind(t), fr)
  BY <1>3 DEF FrameLive, CatCounts
<1> HIDE DEF fr, c
<1>11. FrameOK(c, f)
  <2>1. Led(c, f)
    BY <1>3, <1>5, <1>7, Zenon DEF Led
  <2> QED BY <2>1, <1>1, <1>3 DEF FrameOK
<1>12. FrameOK(c, g)
  BY <1>7, <1>8 DEF FrameOK
<1>13. Link(c, g.list, f.list)
  <2>1. CASE fr.fn = "list"
    <3>1. fr.list \in {CatDoc(url), CatRoot}
      BY <2>1, <1>1, <1>7, ListsDiffer DEF FrameOK
    <3> QED BY <3>1, <2>1, <1>3, <1>7, <1>8 DEF Link
  <2>2. CASE fr.fn # "list"
    <3>1. PICK e \in FilesOf(c) : fr.list = CatIn(e)
      BY <2>2, <1>1 DEF FrameOK
    <3>2. RefersIn(c, e, url)
      BY <3>1, <2>2, <1>7, ListsDiffer
    <3> QED BY <3>1, <3>2, <2>2, <1>3, <1>7, <1>8 DEF Link
  <2> QED BY <2>1, <2>2
<1>14. GuardInv(c, CatKind(t), <<g, f>> \o Tail(catStack[t]), catDepth)
  BY <1>3, <1>8, <1>10, <1>11, <1>12, <1>13, GuardPush DEF CatGuard, CatTop, fr, c
<1> QED BY <1>9, <1>14 DEF CatKind, c

LEMMA LookGuard ==
  ASSUME NEW t, CatGuard(t), CatLook(t)
  PROVE  GuardInv(catSetup, CatKind(t), catStack[t], catDepth)'
<1> DEFINE fr == CatTop(t)
<1>1. /\ catStack[t] # <<>> /\ fr.at = "look"
      /\ UNCHANGED <<catSetup, catReq, catDepth>>
  BY DEF CatLook, CatAt, CatCallVars
<1>2. FrameOK(catSetup, fr) /\ DOMAIN fr = Fields /\ catSetup \in CatSetups
  BY <1>1, TopFrame DEF CatGuard
<1>3. \/ \E ret : CatGoTo(t, [fr EXCEPT !.at = "leave", !.ret = ret])
      \/ CatGoTo(t, [fr EXCEPT !.i = @ + 1])
      \/ \E tried : /\ fr.i \in CatTries(fr)
                    /\ \/ CatInvoke(t, [fr EXCEPT !.tried = tried])
                       \/ CatGoTo(t, [[fr EXCEPT !.tried = tried] EXCEPT !.at = "fetch"])
  BY Zenon DEF CatLook
<1>4. ASSUME NEW f, DOMAIN f = Fields, f.list = fr.list, f.fn = fr.fn,
             f.at \in {"look", "leave", "fetch"}, f.at = "fetch" => Led(catSetup, f),
             CatGoTo(t, f)
      PROVE  GuardInv(catSetup, CatKind(t), catStack[t], catDepth)'
  <2>1. catStack'[t] = [catStack[t] EXCEPT ![1] = f]
    BY <1>4, StackSteps
  <2>2. FrameLive(CatKind(t), f) <=> FrameLive(CatKind(t), fr)
    BY <1>1, <1>4 DEF FrameLive, CatCounts
  <2>3. FrameOK(catSetup, f) /\ TopOK(CatKind(t), catDepth, f)
    <3> HIDE DEF fr
    <3> QED BY <1>2, <1>4 DEF FrameOK, TopOK
  <2> QED BY <1>1, <1>4, <2>1, <2>2, <2>3, StepSet
<1>5. ASSUME NEW ret, CatGoTo(t, [fr EXCEPT !.at = "leave", !.ret = ret])
      PROVE  GuardInv(catSetup, CatKind(t), catStack[t], catDepth)'
  <2>1. PICK f : f = [fr EXCEPT !.at = "leave", !.ret = ret]
    OBVIOUS
  <2>2. DOMAIN f = Fields /\ f.list = fr.list /\ f.fn = fr.fn /\ f.at = "leave"
    BY <2>1, <1>2 DEF Fields
  <2>3. CatGoTo(t, f)
    BY <2>1, <1>5
  <2> QED BY <2>2, <2>3, <1>4
<1>6. CASE CatGoTo(t, [fr EXCEPT !.i = @ + 1])
  <2>1. PICK f : f = [fr EXCEPT !.i = @ + 1]
    OBVIOUS
  <2>2. DOMAIN f = Fields /\ f.list = fr.list /\ f.fn = fr.fn /\ f.at = "look"
    BY <2>1, <1>1, <1>2 DEF Fields
  <2>3. CatGoTo(t, f)
    BY <2>1, <1>6
  <2> QED BY <2>2, <2>3, <1>4
<1>7. ASSUME NEW tried, fr.i \in CatTries(fr),
             \/ CatInvoke(t, [fr EXCEPT !.tried = tried])
             \/ CatGoTo(t, [[fr EXCEPT !.tried = tried] EXCEPT !.at = "fetch"])
      PROVE  GuardInv(catSetup, CatKind(t), catStack[t], catDepth)'
  <2>1. Led(catSetup, fr)
    BY <1>2, <1>7, TriesLead
  <2>2. PICK w : w = [fr EXCEPT !.tried = tried]
    OBVIOUS
  <2>3. DOMAIN w = Fields /\ w.fn = fr.fn /\ w.list = fr.list /\ w.i = fr.i
    BY <2>2, <1>2 DEF Fields
  <2>4. CASE CatInvoke(t, w)
    BY <2>1, <2>3, <2>4, <1>1, InvokeGuard
  <2>5. CASE CatGoTo(t, [w EXCEPT !.at = "fetch"])
    <3>1. PICK f : f = [w EXCEPT !.at = "fetch"]
      OBVIOUS
    <3>2. /\ DOMAIN f = Fields /\ f.list = fr.list /\ f.fn = fr.fn /\ f.i = fr.i
          /\ f.at = "fetch"
      BY <3>1, <2>3 DEF Fields
    <3>3. Led(catSetup, f)
      BY <3>2, <2>1, Zenon DEF Led
    <3>4. CatGoTo(t, f)
      BY <3>1, <2>5
    <3> QED BY <3>2, <3>3, <3>4, <1>4
  <2> QED BY <1>7, <2>2, <2>4, <2>5
<1> QED BY <1>3, <1>5, <1>6, <1>7

LEMMA FetchGuard ==
  ASSUME NEW t, CatGuard(t), CatFetch(t)
  PROVE  GuardInv(catSetup, CatKind(t), catStack[t], catDepth)'
<1> DEFINE fr == CatTop(t)
<1>1. /\ catStack[t] # <<>> /\ fr.at = "fetch"
      /\ UNCHANGED <<catSetup, catReq, catDepth>>
  BY DEF CatFetch, CatAt, CatCallVars
<1>2. FrameOK(catSetup, fr) /\ DOMAIN fr = Fields
  BY <1>1, TopFrame
<1>3. \/ CatGoTo(t, [fr EXCEPT !.at = "look", !.i = @ + 1])
      \/ CatInvoke(t, fr)
  BY Zenon DEF CatFetch
<1>4. CASE CatGoTo(t, [fr EXCEPT !.at = "look", !.i = @ + 1])
  <2>1. PICK f : f = [fr EXCEPT !.at = "look", !.i = @ + 1]
    OBVIOUS
  <2>2. DOMAIN f = Fields /\ f.list = fr.list /\ f.fn = fr.fn /\ f.at = "look"
    BY <2>1, <1>2 DEF Fields
  <2>3. catStack'[t] = [catStack[t] EXCEPT ![1] = f]
    BY <2>1, <1>4, StackSteps
  <2>4. FrameLive(CatKind(t), f) <=> FrameLive(CatKind(t), fr)
    BY <1>1, <2>2 DEF FrameLive, CatCounts
  <2>5. FrameOK(catSetup, f) /\ TopOK(CatKind(t), catDepth, f)
    <3> HIDE DEF fr
    <3> QED BY <1>2, <2>2 DEF FrameOK, TopOK
  <2> QED BY <1>1, <2>2, <2>3, <2>4, <2>5, StepSet
<1>5. CASE CatInvoke(t, fr)
  <2>1. Led(catSetup, fr)
    BY <1>1, <1>2 DEF FrameOK
  <2> QED BY <1>1, <1>2, <1>5, <2>1, InvokeGuard
<1> QED BY <1>3, <1>4, <1>5

(* A search that ends without a decrement has found a circle.              *)
LEMMA BackGuard ==
  ASSUME NEW t, CatGuard(t), CatBack(t)
  PROVE  GuardInv(catSetup, CatKind(t), catStack[t], catDepth)'
<1> DEFINE fr == CatTop(t)
           counter == IF fr.fn = "list" THEN CatIn(CatList(fr.list)[fr.i].url) ELSE fr.list
<1>1. /\ catStack[t] # <<>> /\ fr.at = "back"
      /\ UNCHANGED <<catSetup, catReq, catDepth>>
  BY DEF CatBack, CatAt, CatCallVars
<1>2. FrameOK(catSetup, fr) /\ DOMAIN fr = Fields /\ fr.list \in DOMAIN catDepth
  BY <1>1, TopFrame
<1>3. \/ \E ret : CatGoTo(t, [fr EXCEPT !.at = "leave", !.ret = ret])
      \/ CatReturn(t, CatNone) /\ CatTooDeep(catDepth[counter])
      \/ CatGoTo(t, [fr EXCEPT !.at = "look", !.i = @ + 1])
  BY Zenon DEF CatBack
<1>4. ASSUME NEW f, DOMAIN f = Fields, f.list = fr.list, f.fn = fr.fn,
             f.at \in {"look", "leave"}, CatGoTo(t, f)
      PROVE  GuardInv(catSetup, CatKind(t), catStack[t], catDepth)'
  <2>1. catStack'[t] = [catStack[t] EXCEPT ![1] = f]
    BY <1>4, StackSteps
  <2>2. FrameLive(CatKind(t), f) <=> FrameLive(CatKind(t), fr)
    BY <1>1, <1>4 DEF FrameLive, CatCounts
  <2>3. FrameOK(catSetup, f) /\ TopOK(CatKind(t), catDepth, f)
    <3> HIDE DEF fr
    <3> QED BY <1>2, <1>4 DEF FrameOK, TopOK
  <2> QED BY <1>1, <1>4, <2>1, <2>2, <2>3, StepSet
<1>5. ASSUME NEW ret, CatGoTo(t, [fr EXCEPT !.at = "leave", !.ret = ret])
      PROVE  GuardInv(catSetup, CatKind(t), catStack[t], catDepth)'
  <2>1. PICK f : f = [fr EXCEPT !.at = "leave", !.ret = ret]
    OBVIOUS
  <2>2. DOMAIN f = Fields /\ f.list = fr.list /\ f.fn = fr.fn /\ f.at = "leave"
    BY <2>1, <1>2 DEF Fields
  <2>3. CatGoTo(t, f)
    BY <2>1, <1>5
  <2> QED BY <2>2, <2>3, <1>4
<1>6. CASE CatGoTo(t, [fr EXCEPT !.at = "look", !.i = @ + 1])
  <2>1. PICK f : f = [fr EXCEPT !.at = "look", !.i = @ + 1]
    OBVIOUS
  <2>2. DOMAIN f = Fields /\ f.list = fr.list /\ f.fn = fr.fn /\ f.at = "look"
    BY <2>1, <1>2 DEF Fields
  <2>3. CatGoTo(t, f)
    BY <2>1, <1>6
  <2> QED BY <2>2, <2>3, <1>4
<1>7. CASE CatReturn(t, CatNone) /\ CatTooDeep(catDepth[counter])
  <2>1. PICK l : l = counter
    OBVIOUS
  <2>2. Balanced(catSetup, CatKind(t), catStack[t], catDepth) /\ Chain(catSetup, catStack[t])
    BY DEF CatGuard, GuardInv
  <2>3. l \in DOMAIN catDepth
    <3>1. CASE fr.fn = "list"
      <4>1. Led(catSetup, fr)
        BY <1>1, <1>2 DEF FrameOK
      <4>2. PICK url : url = EntriesOf(catSetup, fr.list)[fr.i].url
        OBVIOUS
      <4>3. url \in FilesOf(catSetup)
        BY <4>1, <4>2 DEF Led
      <4>4. l = CatIn(url)
        BY <2>1, <3>1, <4>2, SetupOperators
      <4> QED BY <4>3, <4>4, <2>2, Zenon DEF Balanced, ListsOf
    <3>2. CASE fr.fn # "list"
      BY <2>1, <3>2, <1>2
    <3> QED BY <3>1, <3>2
  <2>4. catDepth[l] > CatMaxDepth
    BY <1>7, <2>1 DEF CatTooDeep
  <2>5. ~AcyclicIn(catSetup)
    <3> SUFFICES ASSUME AcyclicIn(catSetup) PROVE FALSE
      OBVIOUS
    <3>1. catDepth[l] \in Int /\ catDepth[l] = Cardinality(Live(CatKind(t), catStack[t], l))
      BY <2>2, <2>3 DEF Balanced
    <3>2. Cardinality(Live(CatKind(t), catStack[t], l)) <= 1
      BY <2>2, LiveOnce
    <3> QED BY <3>1, <3>2, <2>4, CatAssumption
  <2> QED BY <1>1, <1>7, <2>5, StackSteps, StepPop
<1> QED BY <1>3, <1>5, <1>6, <1>7

-----------------------------------------------------------------------------
(* The whole: a thread that is alone finds the counters as it left them.   *)
Alone(t) == \A u \in CatThreads \ {t} : catSetup.calls[u] = 0

CatGuardInv ==
  /\ catSetup \in CatSetups
  /\ DOMAIN catStack = CatThreads /\ DOMAIN catCalls = CatThreads
  /\ \A t \in CatThreads : catCalls[t] \in Nat
  /\ \A t \in CatThreads : Alone(t) =>
       /\ \A u \in CatThreads \ {t} : catStack[u] = <<>>
       /\ GuardInv(catSetup, CatKind(t), catStack[t], catDepth)

LEMMA GuardInit == CatInit => CatGuardInv
<1> SUFFICES ASSUME CatInit PROVE CatGuardInv
  OBVIOUS
<1>1. /\ catSetup \in CatSetups /\ catStack = [t \in CatThreads |-> <<>>]
      /\ catCalls = [t \in CatThreads |-> 0]
      /\ catDepth = [l \in ListsOf(catSetup) |-> 0]
  BY Zenon DEF CatInit, ListsOf, FilesOf
<1>2. ASSUME NEW t \in CatThreads
      PROVE  GuardInv(catSetup, CatKind(t), catStack[t], catDepth)
  <2>1. catStack[t] = <<>>
    BY <1>1
  <2>2. Chain(catSetup, <<>>)
    <3>1. <<>> \in Seq({}) /\ Len(<<>>) = 0
      BY EmptySeq
    <3>2. IsStack(<<>>)
      BY <3>1, StackOfSeq
    <3> QED BY <3>1, <3>2 DEF Chain
  <2>3. \A l : Cardinality(Live(CatKind(t), <<>>, l)) = 0
    <3>1. \A l : Live(CatKind(t), <<>>, l) = {}
      BY DEF Live
    <3> QED BY <3>1, FS_EmptySet
  <2>4. DOMAIN catDepth = ListsOf(catSetup) /\ \A l \in DOMAIN catDepth : catDepth[l] = 0
    BY <1>1
  <2>5. Balanced(catSetup, CatKind(t), <<>>, catDepth)
    BY <2>3, <2>4, CatAssumption DEF Balanced
  <2> QED BY <2>1, <2>2, <2>5 DEF GuardInv
<1> QED BY <1>1, <1>2 DEF CatGuardInv

(* A step of a thread changes its own stack only.                          *)
LEMMA OwnStack ==
  ASSUME CatGuardInv, NEW v \in CatThreads,
         \/ CatEnter(v) \/ CatCount(v) \/ CatScan(v) \/ CatLook(v) \/ CatFetch(v)
         \/ CatBack(v) \/ CatLeave(v) \/ CatUncount(v)
  PROVE  /\ DOMAIN catStack' = CatThreads
         /\ \A u \in CatThreads \ {v} : catStack'[u] = catStack[u]
         /\ catStack[v] # <<>> /\ UNCHANGED <<catSetup, catCalls>>
<1>1. catStack[v] # <<>> /\ UNCHANGED <<catSetup, catCalls>>
  BY Zenon DEF CatEnter, CatCount, CatScan, CatLook, CatFetch, CatBack, CatLeave,
     CatUncount, CatAt, CatCallVars
<1>2. \/ \E f : CatGoTo(v, f)
      \/ \E ret : CatReturn(v, ret)
      \/ \E f : CatInvoke(v, f)
  <2>1. CASE CatEnter(v)
    BY <2>1, Zenon DEF CatEnter
  <2>2. CASE CatCount(v)
    BY <2>2, Zenon DEF CatCount
  <2>3. CASE CatScan(v)
    BY <2>3, Zenon DEF CatScan
  <2>4. CASE CatLook(v)
    BY <2>4, Zenon DEF CatLook
  <2>5. CASE CatFetch(v)
    BY <2>5, Zenon DEF CatFetch
  <2>6. CASE CatBack(v)
    BY <2>6, Zenon DEF CatBack
  <2>7. CASE CatLeave(v)
    BY <2>7, Zenon DEF CatLeave
  <2>8. CASE CatUncount(v)
    BY <2>8, Zenon DEF CatUncount
  <2> QED BY <2>1, <2>2, <2>3, <2>4, <2>5, <2>6, <2>7, <2>8
<1>3. \E q : catStack' = [catStack EXCEPT ![v] = q]
  <2>1. ASSUME NEW f, CatGoTo(v, f) PROVE \E q : catStack' = [catStack EXCEPT ![v] = q]
    <3>1. catStack' = [catStack EXCEPT ![v] = [catStack[v] EXCEPT ![1] = f]]
      BY <2>1 DEF CatGoTo
    <3> QED BY <3>1, Zenon
  <2>2. ASSUME NEW ret, CatReturn(v, ret) PROVE \E q : catStack' = [catStack EXCEPT ![v] = q]
    <3>1. catStack' = [catStack EXCEPT ![v] = Tail(catStack[v])]
      BY <2>2 DEF CatReturn
    <3> QED BY <3>1, Zenon
  <2>3. ASSUME NEW f, CatInvoke(v, f) PROVE \E q : catStack' = [catStack EXCEPT ![v] = q]
    <3>1. catStack' = [catStack EXCEPT ![v] =
                         <<CatInner(f), [f EXCEPT !.at = "back"]>> \o Tail(catStack[v])]
      BY <2>3 DEF CatInvoke
    <3> QED BY <3>1, Zenon
  <2> QED BY <1>2, <2>1, <2>2, <2>3
<1>4. PICK q : catStack' = [catStack EXCEPT ![v] = q]
  BY <1>3
<1>5. DOMAIN catStack = CatThreads
  BY DEF CatGuardInv
<1>6. DOMAIN catStack' = CatThreads /\ \A u \in CatThreads \ {v} : catStack'[u] = catStack[u]
  BY <1>4, <1>5
<1> QED BY <1>1, <1>6

LEMMA GuardStep == CatGuardInv /\ [CatNext]_catVars => CatGuardInv'
<1> SUFFICES ASSUME CatGuardInv, [CatNext]_catVars PROVE CatGuardInv'
  OBVIOUS
<1>1. ASSUME UNCHANGED catVars PROVE CatGuardInv'
  BY <1>1 DEF catVars, CatGuardInv, Alone, CatKind
<1>2. ASSUME NEW v \in CatThreads, NEW request, CatCall(v, request) PROVE CatGuardInv'
  <2>1. /\ catStack[v] = <<>> /\ catCalls[v] < catSetup.calls[v]
        /\ catCalls' = [catCalls EXCEPT ![v] = @ + 1]
        /\ catStack' = [catStack EXCEPT
                          ![v] = <<CatFrame("list", CatRoot, request.pub, request.sys)>>]
        /\ UNCHANGED <<catSetup, catDepth>>
    BY <1>2 DEF CatCall
  <2>2. /\ DOMAIN catStack = CatThreads /\ DOMAIN catCalls = CatThreads
        /\ catSetup \in CatSetups /\ \A t \in CatThreads : catCalls[t] \in Nat
    BY DEF CatGuardInv
  <2>3. /\ DOMAIN catStack' = CatThreads /\ DOMAIN catCalls' = CatThreads
        /\ \A u \in CatThreads \ {v} : catStack'[u] = catStack[u]
        /\ catStack'[v] = <<CatFrame("list", CatRoot, request.pub, request.sys)>>
    BY <2>1, <2>2
  <2>4. \A t \in CatThreads : catCalls'[t] \in Nat
    BY <2>1, <2>2
  <2>5. ASSUME NEW t \in CatThreads, Alone(t)
        PROVE  /\ \A u \in CatThreads \ {t} : catStack'[u] = <<>>
               /\ GuardInv(catSetup, CatKind(t), catStack[t], catDepth)'
    <3>1. v = t
      BY <2>1, <2>2, <2>5 DEF Alone
    <3>2. /\ \A u \in CatThreads \ {t} : catStack[u] = <<>>
          /\ GuardInv(catSetup, CatKind(t), catStack[t], catDepth)
      BY <2>5 DEF CatGuardInv
    <3>3. PICK k : k = CatKind(t)'
      OBVIOUS
    <3>4. GuardInv(catSetup, k, <<CatFrame("list", CatRoot, request.pub, request.sys)>>,
                   catDepth)
      BY <3>1, <3>2, <2>1, GuardCall
    <3> QED BY <3>1, <3>2, <3>3, <3>4, <2>1, <2>3
  <2>6. ASSUME NEW t \in CatThreads PROVE Alone(t)' => Alone(t)
    BY <2>1 DEF Alone
  <2> QED BY <2>1, <2>2, <2>3, <2>4, <2>5, <2>6 DEF CatGuardInv
<1>3. ASSUME NEW v \in CatThreads,
             \/ CatEnter(v) \/ CatCount(v) \/ CatScan(v) \/ CatLook(v) \/ CatFetch(v)
             \/ CatBack(v) \/ CatLeave(v) \/ CatUncount(v)
      PROVE  CatGuardInv'
  <2>1. /\ DOMAIN catStack' = CatThreads
        /\ \A u \in CatThreads \ {v} : catStack'[u] = catStack[u]
        /\ catStack[v] # <<>> /\ UNCHANGED <<catSetup, catCalls>>
    BY <1>3, OwnStack
  <2>2. ASSUME NEW t \in CatThreads, Alone(t)
        PROVE  /\ \A u \in CatThreads \ {t} : catStack'[u] = <<>>
               /\ GuardInv(catSetup, CatKind(t), catStack[t], catDepth)'
    <3>1. /\ \A u \in CatThreads \ {t} : catStack[u] = <<>>
          /\ CatGuard(t)
      BY <2>2 DEF CatGuardInv, CatGuard
    <3>2. v = t
      BY <3>1, <2>1
    <3>3. GuardInv(catSetup, CatKind(t), catStack[t], catDepth)'
      BY <1>3, <3>1, <3>2, EnterGuard, CountGuard, ScanGuard, LookGuard, FetchGuard,
         BackGuard, LeaveGuard, UncountGuard, Zenon
    <3> QED BY <3>1, <3>2, <3>3, <2>1
  <2>3. ASSUME NEW t \in CatThreads PROVE Alone(t)' => Alone(t)
    BY <2>1 DEF Alone
  <2>4. /\ catSetup' \in CatSetups /\ DOMAIN catCalls' = CatThreads
        /\ \A t \in CatThreads : catCalls'[t] \in Nat
    BY <2>1 DEF CatGuardInv
  <2> QED BY <2>1, <2>2, <2>3, <2>4 DEF CatGuardInv
<1> QED BY <1>1, <1>2, <1>3, Zenon DEF CatNext

(* The invariant bounds the calls that walk a list: the one that is about  *)
(* to increment the counter is not counted yet.                            *)
LEMMA GuardBounds ==
  ASSUME NEW c, NEW kind, NEW s, NEW counters, GuardInv(c, kind, s, counters),
         NEW l \in DOMAIN counters
  PROVE  Cardinality({i \in DOMAIN s : /\ s[i].list = l /\ s[i].at # "enter"
                                       /\ CatCounts(kind, s[i])}) <= CatMaxDepth + 1
<1> DEFINE A == Live(kind, s, l)
           B == {i \in DOMAIN s : /\ s[i].list = l /\ s[i].at # "enter"
                                  /\ CatCounts(kind, s[i])}
<1>1. Chain(c, s) /\ IsStack(s)
  BY DEF GuardInv, Chain
<1>2. /\ counters[l] \in Int /\ counters[l] <= CatMaxDepth + 1 /\ Cardinality(A) <= counters[l]
      /\ IsFiniteSet(A) /\ Cardinality(A) \in Nat
  BY <1>1, LiveFinite DEF GuardInv, Balanced
<1>3. DOMAIN s = 1..Len(s) /\ Len(s) \in Nat /\ \A i \in 2..Len(s) : s[i].at = "back"
  BY <1>1, StackProperties DEF Chain
<1>4. CASE s # <<>> /\ s[1].at = "count" /\ s[1].list = l
  <2>1. counters[l] <= CatMaxDepth
    BY <1>4 DEF GuardInv, TopOK
  <2>2. B \subseteq A \cup {1}
    <3>1. ASSUME NEW i \in B, i # 1 PROVE i \in A
      <4>1. i \in 2..Len(s)
        BY <3>1, <1>3
      <4>2. s[i].at = "back"
        BY <4>1, <1>3
      <4> QED BY <3>1, <4>2 DEF Live, FrameLive
    <3> QED BY <3>1
  <2> HIDE DEF A, B
  <2>3. IsFiniteSet(A \cup {1}) /\ Cardinality(A \cup {1}) <= Cardinality(A) + 1
    <3>1. /\ IsFiniteSet(A \cup {1})
          /\ Cardinality(A \cup {1}) = IF 1 \in A THEN Cardinality(A) ELSE Cardinality(A) + 1
      BY <1>2, FS_AddElement
    <3>2. CASE 1 \in A
      BY <3>1, <3>2, <1>2
    <3>3. CASE 1 \notin A
      BY <3>1, <3>3, <1>2
    <3> QED BY <3>1, <3>2, <3>3
  <2>4. IsFiniteSet(B) /\ Cardinality(B) <= Cardinality(A \cup {1})
    BY <2>2, <2>3, FS_Subset
  <2>5. Cardinality(B) \in Nat /\ Cardinality(A \cup {1}) \in Nat
    BY <2>3, <2>4, FS_CardinalityType
  <2>6. Cardinality(B) <= CatMaxDepth + 1
    BY <2>1, <2>3, <2>4, <2>5, <1>2, CatAssumption
  <2> QED BY <2>6 DEF B
<1>5. CASE ~(s # <<>> /\ s[1].at = "count" /\ s[1].list = l)
  <2>1. B \subseteq A
    <3>1. ASSUME NEW i \in B PROVE i \in A
      <4>1. s # <<>>
        BY <3>1
      <4>2. CASE i = 1
        BY <4>1, <4>2, <3>1, <1>5 DEF Live, FrameLive
      <4>3. CASE i # 1
        <5>1. i \in 2..Len(s)
          BY <4>3, <3>1, <1>3
        <5>2. s[i].at = "back"
          BY <5>1, <1>3
        <5> QED BY <3>1, <5>2 DEF Live, FrameLive
      <4> QED BY <4>2, <4>3
    <3> QED BY <3>1
  <2> HIDE DEF A, B
  <2>2. IsFiniteSet(B) /\ Cardinality(B) <= Cardinality(A)
    BY <2>1, <1>2, FS_Subset
  <2>3. Cardinality(B) \in Nat
    BY <2>2, FS_CardinalityType
  <2>4. Cardinality(B) <= CatMaxDepth + 1
    BY <2>2, <2>3, <1>2, CatAssumption
  <2> QED BY <2>4 DEF B
<1> QED BY <1>4, <1>5

(* For any catalogs, any requests and any MAX_CATAL_DEPTH: a circle is     *)
(* followed MAX_CATAL_DEPTH + 1 times at most, and catalogs without one    *)
(* leave every counter at zero, on all paths through xmlCatalogXMLResolve  *)
(* and its relatives (catalog.c:1594-2106).                                *)
THEOREM CatalogLoopGuard == CatSpec => []CatLoopGuard
<1>1. CatGuardInv => CatLoopGuard
  <2> SUFFICES ASSUME CatGuardInv, NEW t \in CatThreads, Alone(t)
               PROVE  /\ \A l \in DOMAIN catDepth :
                           Cardinality({i \in DOMAIN catStack[t] :
                                /\ catStack[t][i].list = l /\ catStack[t][i].at # "enter"
                                /\ CatCounts(CatKind(t), catStack[t][i])})
                             <= CatMaxDepth + 1
                      /\ CatAcyclic /\ catStack[t] = <<>>
                           => \A l \in DOMAIN catDepth : catDepth[l] = 0
    BY Zenon DEF CatLoopGuard, Alone
  <2>1. GuardInv(catSetup, CatKind(t), catStack[t], catDepth)
    BY DEF CatGuardInv
  <2>2. \A l \in DOMAIN catDepth :
          Cardinality({i \in DOMAIN catStack[t] :
               /\ catStack[t][i].list = l /\ catStack[t][i].at # "enter"
               /\ CatCounts(CatKind(t), catStack[t][i])}) <= CatMaxDepth + 1
    BY <2>1, GuardBounds
  <2>3. ASSUME CatAcyclic, catStack[t] = <<>>, NEW l \in DOMAIN catDepth
        PROVE  catDepth[l] = 0
    <3>1. AcyclicIn(catSetup)
      BY <2>3, SetupOperators
    <3>2. catDepth[l] = Cardinality(Live(CatKind(t), <<>>, l))
      BY <2>1, <2>3, <3>1 DEF GuardInv, Balanced
    <3>3. Live(CatKind(t), <<>>, l) = {}
      BY DEF Live
    <3> QED BY <3>2, <3>3, FS_EmptySet
  <2> QED BY <2>2, <2>3
<1> QED BY <1>1, GuardInit, GuardStep, PTL DEF CatSpec
=============================================================================
