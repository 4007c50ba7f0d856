-------------------------- MODULE WaitGroupProofs --------------------------
(***************************************************************************)
(* The WaitGroup of src/waitgroup.cpp, proved for every finite set of      *)
(* tasks, every set of waiters and every number of spins.                  *)
(*                                                                         *)
(* The inductive invariant adds four facts to the properties: what a      *)
(* waiter still waits for is pending, the mutex is held exactly by the     *)
(* waiter between Lock and its release, a waiter polls a bounded number of *)
(* times, and a waiter that has seen a       *)
(* non-zero counter is covered by a notification to come even before it    *)
(* sleeps, because the notifier needs the mutex the waiter holds.          *)
(***************************************************************************)
EXTENDS WaitGroup, FiniteSetTheorems, TLAPS

AwaitedIsPending == \A w \in Waiters : awaited[w] \subseteq Pending

MutexHeld == \A w \in Waiters : waiter[w] \in {"check", "suspend"} <=> mtx = w

WakeupCovered ==
  (\E w \in Waiters : waiter[w] \in {"suspend", "asleep"}) /\ counter = 0
    => \E t \in Tasks : task[t] = "zero"

SpinsBounded ==
  \A w \in Waiters : waiter[w] = "spin" => spins[w] < kMaxSpinIterations

IInv ==
  /\ TypeOK /\ SpinsBounded /\ CounterExact /\ AwaitedIsPending
  /\ WaitMeansDone /\ MutexHeld /\ WakeupCovered

-----------------------------------------------------------------------------
(* What the number of pending tasks says about them. *)
LEMMA PendingCount ==
  /\ IsFiniteSet(Pending)
  /\ Cardinality(Pending) \in Nat
  /\ Cardinality(Pending) = 0 => Pending = {}
<1>1. Pending \subseteq Tasks
  BY DEF Pending
<1> QED
  BY <1>1, WaitGroupAssumption, FS_Subset, FS_CardinalityType, FS_EmptySet

(* Add makes one more task pending. *)
LEMMA PendingGrows ==
  ASSUME TypeOK, NEW t \in Tasks, Add(t)
  PROVE  /\ Pending' = Pending \cup {t}
         /\ Cardinality(Pending') = Cardinality(Pending) + 1
<1>1. Pending' = Pending \cup {t} /\ t \notin Pending
  BY DEF TypeOK, Add, Pending
<1> QED
  BY <1>1, PendingCount, FS_AddElement

(* Done makes one pending task finished. *)
LEMMA PendingShrinks ==
  ASSUME TypeOK, NEW t \in Tasks, Done(t)
  PROVE  /\ Pending' = Pending \ {t}
         /\ Cardinality(Pending') = Cardinality(Pending) - 1
<1>1. Pending' = Pending \ {t} /\ t \in Pending
  BY DEF TypeOK, Done, Pending
<1> QED
  BY <1>1, PendingCount, FS_RemoveElement

(* No other step changes the set. *)
LEMMA PendingFixed ==
  ASSUME TypeOK,
         \/ UNCHANGED task
         \/ \E t \in Tasks : Go(t) \/ NotifyAll(t)
  PROVE  Pending' = Pending
BY DEF TypeOK, Go, NotifyAll, Pending

-----------------------------------------------------------------------------
LEMMA InitInvariant == Init => IInv
<1> SUFFICES ASSUME Init PROVE IInv
  OBVIOUS
<1>1. Pending = {}
  BY DEF Init, Pending
<1>2. TypeOK
  BY WaitGroupAssumption DEF Init, TypeOK
<1>3. CounterExact
  BY <1>1, FS_EmptySet DEF Init, CounterExact
<1>4. SpinsBounded /\ AwaitedIsPending /\ WaitMeansDone /\ MutexHeld /\ WakeupCovered
  BY WaitGroupAssumption
  DEF Init, SpinsBounded, AwaitedIsPending, WaitMeansDone, MutexHeld, WakeupCovered
<1> QED
  BY <1>2, <1>3, <1>4 DEF IInv

LEMMA TypeStep == TypeOK /\ SpinsBounded /\ [Next]_vars => TypeOK' /\ SpinsBounded'
<1> DEFINE Good == TypeOK /\ SpinsBounded
<1> SUFFICES ASSUME Good, [Next]_vars PROVE Good'
  OBVIOUS
<1> USE WaitGroupAssumption DEF TypeOK, SpinsBounded
<1>1. ASSUME NEW t \in Tasks, Add(t) PROVE Good'
  BY <1>1 DEF Add
<1>2. ASSUME NEW t \in Tasks, Go(t) PROVE Good'
  BY <1>2 DEF Go
<1>3. ASSUME NEW t \in Tasks, Done(t) PROVE Good'
  BY <1>3 DEF Done
<1>4. ASSUME NEW t \in Tasks, NotifyAll(t) PROVE Good'
  BY <1>4 DEF NotifyAll, Woken
<1>5. ASSUME NEW w \in Waiters, Wait(w) PROVE Good'
  BY <1>5 DEF Wait, Pending
<1>6. ASSUME NEW w \in Waiters, Spin(w) PROVE Good'
  BY <1>6 DEF Spin, LastSpin
<1>7. ASSUME NEW w \in Waiters, Lock(w) PROVE Good'
  BY <1>7 DEF Lock
<1>8. ASSUME NEW w \in Waiters, Check(w) PROVE Good'
  BY <1>8 DEF Check
<1>9. ASSUME NEW w \in Waiters, Suspend(w) PROVE Good'
  BY <1>9 DEF Suspend
<1>10. ASSUME NEW w \in Waiters, Resume(w) PROVE Good'
  BY <1>10 DEF Resume
<1>11. CASE UNCHANGED vars
  BY <1>11 DEF vars
<1> QED
  BY <1>1, <1>2, <1>3, <1>4, <1>5, <1>6, <1>7, <1>8, <1>9, <1>10, <1>11
  DEF Next, TaskStep, WaiterStep

LEMMA CountStep == IInv /\ [Next]_vars => CounterExact' /\ AwaitedIsPending'
<1> SUFFICES ASSUME IInv, [Next]_vars
             PROVE  CounterExact' /\ AwaitedIsPending'
  OBVIOUS
<1> USE DEF IInv, CounterExact, AwaitedIsPending
<1>1. ASSUME NEW t \in Tasks, Add(t) PROVE CounterExact' /\ AwaitedIsPending'
  BY <1>1, PendingGrows DEF Add
<1>2. ASSUME NEW t \in Tasks, Go(t) \/ NotifyAll(t)
      PROVE  CounterExact' /\ AwaitedIsPending'
  BY <1>2, PendingFixed DEF Go, NotifyAll
<1>3. ASSUME NEW t \in Tasks, Done(t) PROVE CounterExact' /\ AwaitedIsPending'
  <2>1. CounterExact'
    BY <1>3, PendingShrinks DEF Done
  <2>2. AwaitedIsPending'
    BY <1>3, PendingShrinks DEF Done
  <2> QED
    BY <2>1, <2>2
<1>4. ASSUME NEW w \in Waiters, Wait(w) PROVE CounterExact' /\ AwaitedIsPending'
  <2>1. Pending' = Pending
    BY <1>4, PendingFixed DEF Wait
  <2> QED
    BY <1>4, <2>1 DEF Wait, TypeOK
<1>5. ASSUME NEW w \in Waiters, WaiterStep(w)
      PROVE  CounterExact' /\ AwaitedIsPending'
  <2>1. UNCHANGED <<counter, task, awaited>>
    BY <1>5 DEF WaiterStep, Spin, Lock, Check, Suspend, Resume
  <2> QED
    BY <2>1, PendingFixed
<1>6. CASE UNCHANGED vars
  BY <1>6, PendingFixed DEF vars
<1> QED
  BY <1>1, <1>2, <1>3, <1>4, <1>5, <1>6 DEF Next, TaskStep

(* A waiter returns only at a moment when nothing is pending. *)
LEMMA WaitStep == IInv /\ [Next]_vars => WaitMeansDone'
<1> SUFFICES ASSUME IInv, [Next]_vars,
                    NEW w \in Waiters, waiter'[w] = "returned"
             PROVE  awaited'[w] = {}
  BY DEF WaitMeansDone
<1> USE DEF IInv, TypeOK, WaitMeansDone
<1>1. counter = 0 => awaited[w] = {}
  BY PendingCount DEF CounterExact, AwaitedIsPending
<1>2. ASSUME NEW t \in Tasks, Add(t) \/ TaskStep(t)
      PROVE  awaited'[w] = {}
  <2>1. awaited'[w] \subseteq awaited[w]
    BY <1>2 DEF Add, TaskStep, Go, Done, NotifyAll, Woken
  <2>2. waiter[w] = "returned"
    BY <1>2 DEF Add, TaskStep, Go, Done, NotifyAll, Woken
  <2> QED
    BY <2>1, <2>2
<1>3. ASSUME NEW v \in Waiters, Wait(v) \/ WaiterStep(v)
      PROVE  awaited'[w] = {}
  <2>1. CASE v = w
    BY <1>1, <1>3, <2>1 DEF Wait, WaiterStep, Spin, Lock, Check, Suspend, Resume
  <2>2. CASE v # w
    BY <1>3, <2>2 DEF Wait, WaiterStep, Spin, Lock, Check, Suspend, Resume
  <2> QED
    BY <2>1, <2>2
<1>4. CASE UNCHANGED vars
  BY <1>4 DEF vars
<1> QED
  BY <1>2, <1>3, <1>4 DEF Next

LEMMA MutexStep == IInv /\ [Next]_vars => MutexHeld'
<1> SUFFICES ASSUME IInv, [Next]_vars PROVE MutexHeld'
  OBVIOUS
<1> USE WaitGroupAssumption DEF IInv, TypeOK, MutexHeld
<1>1. ASSUME NEW t \in Tasks, Add(t) \/ TaskStep(t) PROVE MutexHeld'
  BY <1>1 DEF Add, TaskStep, Go, Done, NotifyAll, Woken
<1>2. ASSUME NEW w \in Waiters, Wait(w) \/ Spin(w) \/ Resume(w) PROVE MutexHeld'
  BY <1>2 DEF Wait, Spin, Resume
<1>3. ASSUME NEW w \in Waiters, Lock(w) PROVE MutexHeld'
  BY <1>3 DEF Lock
<1>4. ASSUME NEW w \in Waiters, Check(w) PROVE MutexHeld'
  BY <1>4 DEF Check
<1>5. ASSUME NEW w \in Waiters, Suspend(w) PROVE MutexHeld'
  BY <1>5 DEF Suspend
<1>6. CASE UNCHANGED vars
  BY <1>6 DEF vars
<1> QED
  BY <1>1, <1>2, <1>3, <1>4, <1>5, <1>6 DEF Next, WaiterStep

(* NotifyAll finds the mutex free, so no waiter is between its check and   *)
(* its sleep.                                                              *)
LEMMA WakeupStep == IInv /\ [Next]_vars => WakeupCovered'
<1> SUFFICES ASSUME IInv, [Next]_vars,
                    NEW w \in Waiters, waiter'[w] \in {"suspend", "asleep"},
                    counter' = 0
             PROVE  \E t \in Tasks : task'[t] = "zero"
  BY DEF WakeupCovered
<1> USE WaitGroupAssumption DEF IInv, TypeOK, WakeupCovered
<1>1. ASSUME NEW t \in Tasks, Add(t)
      PROVE  \E u \in Tasks : task'[u] = "zero"
  <2>1. counter + 1 # 0
    BY PendingCount DEF CounterExact
  <2> QED
    BY <1>1, <2>1 DEF Add
<1>2. ASSUME NEW t \in Tasks, Go(t)
      PROVE  \E u \in Tasks : task'[u] = "zero"
  BY <1>2 DEF Go
<1>3. ASSUME NEW t \in Tasks, Done(t)
      PROVE  \E u \in Tasks : task'[u] = "zero"
  BY <1>3 DEF Done
<1>4. ASSUME NEW t \in Tasks, NotifyAll(t)
      PROVE  \E u \in Tasks : task'[u] = "zero"
  <2>1. waiter[w] # "suspend" /\ waiter[w] # "asleep"
    BY <1>4 DEF NotifyAll, Woken, MutexHeld
  <2> QED
    BY <1>4, <2>1 DEF NotifyAll, Woken
<1>5. ASSUME NEW v \in Waiters, Wait(v) \/ WaiterStep(v)
      PROVE  \E u \in Tasks : task'[u] = "zero"
  BY <1>5 DEF Wait, WaiterStep, Spin, Lock, Check, Suspend, Resume
<1>6. CASE UNCHANGED vars
  BY <1>6 DEF vars
<1> QED
  BY <1>1, <1>2, <1>3, <1>4, <1>5, <1>6 DEF Next, TaskStep

LEMMA StepInvariant == IInv /\ [Next]_vars => IInv'
BY TypeStep, CountStep, WaitStep, MutexStep, WakeupStep DEF IInv

LEMMA Invariance == Spec => []IInv
BY InitInvariant, StepInvariant, PTL DEF Spec

-----------------------------------------------------------------------------
(* Every variable keeps its type. *)
THEOREM TypeCorrect == Spec => []TypeOK
<1>1. IInv => TypeOK
  BY DEF IInv
<1> QED
  BY <1>1, Invariance, PTL

(* Wait() returns only when every task that was unfinished when it was     *)
(* called has called Done() (Wait, Go, Done).                              *)
THEOREM WaitIsABarrier == Spec => []WaitMeansDone
<1>1. IInv => WaitMeansDone
  BY DEF IInv
<1> QED
  BY <1>1, Invariance, PTL

(* The counter is the number of tasks that were added and are not done,    *)
(* so Add() never throws on a negative counter.                            *)
THEOREM CounterIsExact == Spec => []CounterExact
<1>1. IInv => CounterExact
  BY DEF IInv
<1> QED
  BY <1>1, Invariance, PTL

(* A waiter asleep on a zero counter still has a notification to come.     *)
THEOREM NoWakeupIsLost == Spec => []NoLostWakeup
<1>1. IInv => NoLostWakeup
  BY DEF IInv, WakeupCovered, NoLostWakeup
<1> QED
  BY <1>1, Invariance, PTL
=============================================================================
