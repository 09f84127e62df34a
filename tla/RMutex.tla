------------------------------- MODULE RMutex -------------------------------
(***************************************************************************)
(* The re-entrant mutex of threads.c (xmlRMutex, POSIX build): an inner    *)
(* pthread mutex `lock`, a recursion count `held`, the owner `tid`, a      *)
(* count of `waiters` and a condition variable `cv`.  xmlLockLibrary and   *)
(* the catalog code use it.  pthread_mutex_lock, pthread_cond_wait and     *)
(* pthread_cond_signal are external: a wait releases the inner mutex and   *)
(* suspends the thread in one step, may end spuriously, and re-acquires    *)
(* the inner mutex before it returns.                                      *)
(***************************************************************************)
EXTENDS Integers, FiniteSets

CONSTANTS
  Threads,   \* the threads that use the mutex
  NoThread,  \* the zeroed pthread_t: no owner
  MaxDepth   \* bound on the recursion of one thread (the code has none)

ASSUME ThreadsAssumption == IsFiniteSet(Threads) /\ NoThread \notin Threads
ASSUME DepthAssumption == MaxDepth \in Nat \ {0}

VARIABLES
  lock,      \* owner of the inner pthread mutex, or NoThread
  held,      \* tok->held
  tid,       \* tok->tid
  waiters,   \* tok->waiters
  cv,        \* the threads suspended in pthread_cond_wait
  pc,        \* where each thread is
  depth      \* how many locks the thread's own code believes it holds

vars == <<lock, held, tid, waiters, cv, pc, depth>>

PCs == {"run", "locking", "suspended", "woken", "recheck", "unlocking"}

Init ==
  /\ lock = NoThread
  /\ held = 0
  /\ tid = NoThread
  /\ waiters = 0
  /\ cv = {}
  /\ pc = [t \in Threads |-> "run"]
  /\ depth = [t \in Threads |-> 0]

-----------------------------------------------------------------------------
(* Taking and leaving the inner mutex.                                     *)

AcquireInner(t, from, to) ==
  /\ pc[t] = from
  /\ lock = NoThread
  /\ lock' = t
  /\ pc' = [pc EXCEPT ![t] = to]

ReleaseInner(t, to) ==
  /\ lock' = NoThread
  /\ pc' = [pc EXCEPT ![t] = to]

(* The thread becomes the owner: tid = self, held = 1, unlock, return.     *)
TakeOwnership(t) ==
  /\ tid' = t
  /\ held' = 1
  /\ depth' = [depth EXCEPT ![t] = 1]
  /\ ReleaseInner(t, "run")

(* pthread_cond_wait: release the inner mutex and suspend.                 *)
Suspend(t) ==
  /\ cv' = cv \cup {t}
  /\ ReleaseInner(t, "suspended")

-----------------------------------------------------------------------------
(* xmlRMutexLock.                                                          *)

LockEnter(t) ==
  /\ depth[t] < MaxDepth
  /\ AcquireInner(t, "run", "locking")
  /\ UNCHANGED <<held, tid, waiters, cv, depth>>

LockFree(t) ==
  /\ pc[t] = "locking"
  /\ held = 0
  /\ TakeOwnership(t)
  /\ UNCHANGED <<waiters, cv>>

LockRecursive(t) ==
  /\ pc[t] = "locking"
  /\ held > 0
  /\ tid = t
  /\ held' = held + 1
  /\ depth' = [depth EXCEPT ![t] = @ + 1]
  /\ ReleaseInner(t, "run")
  /\ UNCHANGED <<tid, waiters, cv>>

(* Mutant: the waiter is not counted.                                      *)
LockContendedUncounted(t) ==
  /\ pc[t] = "locking"
  /\ held > 0
  /\ tid # t
  /\ Suspend(t)
  /\ UNCHANGED <<held, tid, waiters, depth>>

LockContended(t) ==
  /\ pc[t] = "locking"
  /\ held > 0
  /\ tid # t
  /\ waiters' = waiters + 1
  /\ Suspend(t)
  /\ UNCHANGED <<held, tid, depth>>

(* pthread_cond_wait may return without a signal.                          *)
SpuriousWakeup(t) ==
  /\ t \in cv
  /\ cv' = cv \ {t}
  /\ pc' = [pc EXCEPT ![t] = "woken"]
  /\ UNCHANGED <<lock, held, tid, waiters, depth>>

Reacquire(t) ==
  /\ AcquireInner(t, "woken", "recheck")
  /\ UNCHANGED <<held, tid, waiters, cv, depth>>

(* while (tok->held) pthread_cond_wait(...)                                *)
WaitAgain(t) ==
  /\ pc[t] = "recheck"
  /\ held > 0
  /\ Suspend(t)
  /\ UNCHANGED <<held, tid, waiters, depth>>

(* Mutant: `if` instead of `while` around pthread_cond_wait.               *)
WaitDoneUnchecked(t) ==
  /\ pc[t] = "recheck"
  /\ waiters' = waiters - 1
  /\ TakeOwnership(t)
  /\ UNCHANGED cv

WaitDone(t) ==
  /\ pc[t] = "recheck"
  /\ held = 0
  /\ waiters' = waiters - 1
  /\ TakeOwnership(t)
  /\ UNCHANGED cv

-----------------------------------------------------------------------------
(* xmlRMutexUnlock.  A thread unlocks only what it locked.                 *)

UnlockEnter(t) ==
  /\ depth[t] > 0
  /\ AcquireInner(t, "run", "unlocking")
  /\ UNCHANGED <<held, tid, waiters, cv, depth>>

UnlockInner(t) ==
  /\ pc[t] = "unlocking"
  /\ held > 1
  /\ held' = held - 1
  /\ depth' = [depth EXCEPT ![t] = @ - 1]
  /\ ReleaseInner(t, "run")
  /\ UNCHANGED <<tid, waiters, cv>>

(* Mutant: the last waiter is not signalled.                               *)
SignalOffByOne(t) ==
  IF waiters > 1 /\ cv # {}
  THEN \E w \in cv :
         /\ cv' = cv \ {w}
         /\ pc' = [pc EXCEPT ![w] = "woken", ![t] = "run"]
  ELSE /\ pc' = [pc EXCEPT ![t] = "run"]
       /\ UNCHANGED cv

(* pthread_cond_signal wakes one suspended thread, if there is one.        *)
Signal(t) ==
  IF waiters > 0 /\ cv # {}
  THEN \E w \in cv :
         /\ cv' = cv \ {w}
         /\ pc' = [pc EXCEPT ![w] = "woken", ![t] = "run"]
  ELSE /\ pc' = [pc EXCEPT ![t] = "run"]
       /\ UNCHANGED cv

UnlockLast(t) ==
  /\ pc[t] = "unlocking"
  /\ held = 1
  /\ held' = 0
  /\ tid' = NoThread
  /\ depth' = [depth EXCEPT ![t] = @ - 1]
  /\ lock' = NoThread
  /\ Signal(t)
  /\ UNCHANGED waiters

-----------------------------------------------------------------------------
Unlock(t) == UnlockEnter(t) \/ UnlockInner(t) \/ UnlockLast(t)

(* Steps inside xmlRMutexLock once it was called.                          *)
LockStep(t) ==
  \/ LockFree(t) \/ LockRecursive(t) \/ LockContended(t)
  \/ Reacquire(t) \/ WaitAgain(t) \/ WaitDone(t)

Next ==
  \E t \in Threads :
    \/ LockEnter(t) \/ LockStep(t) \/ SpuriousWakeup(t) \/ Unlock(t)

(* The scheduler runs every runnable thread, and a thread that holds the   *)
(* mutex releases it in the end (every lock in the library is paired with  *)
(* an unlock on all paths).  Nothing obliges a thread to call lock, and    *)
(* spurious wakeups are never assumed.                                     *)
Fairness == \A t \in Threads : WF_vars(LockStep(t)) /\ WF_vars(Unlock(t))

Spec == Init /\ [][Next]_vars /\ Fairness

-----------------------------------------------------------------------------
(* xmlRMutex has its type in every reachable state.                        *)
TypeOK ==
  /\ lock \in Threads \cup {NoThread}
  /\ held \in Nat
  /\ tid \in Threads \cup {NoThread}
  /\ waiters \in Nat
  /\ cv \subseteq Threads
  /\ pc \in [Threads -> PCs]
  /\ depth \in [Threads -> Nat]

(* Two threads never both believe they hold the mutex, and the recursion   *)
(* count of the owner is exactly tok->held: an unlock by one call level    *)
(* can never free the mutex under another (threads.c:233-283).             *)
MutualExclusion ==
  \A t \in Threads :
    depth[t] > 0 => /\ tid = t
                    /\ held = depth[t]

(* No lost wakeup: when the mutex is free and a thread is suspended on the *)
(* condition variable, some thread was woken and has yet to look at held.  *)
(* It rests on waiters counting every thread between its first wait and    *)
(* its acquisition, also while another thread barges in.                   *)
NoLostWakeup ==
  held = 0 /\ cv # {} => \E t \in Threads : pc[t] \in {"woken", "recheck"}

(* A free mutex with a suspended thread is acquired by someone again.      *)
WaitersProgress == (held = 0 /\ cv # {}) ~> (held > 0)

=============================================================================
