----------------------------- MODULE WaitGroup -----------------------------
(***************************************************************************)
(* WaitGroup (src/waitgroup.cpp): an atomic counter of unfinished          *)
(* coroutines, and a coroutine mutex and condition variable on which       *)
(* Wait() sleeps once it has spun in vain.                                 *)
(*                                                                         *)
(* Decoder, Video, Audio and Play each own a WaitGroup: open() or start()  *)
(* calls Go(), close() or stop() calls Wait(), and the same object serves  *)
(* the next open().  So one process, the Owner, starts the tasks and waits *)
(* for them, round after round; the other waiters may call Wait() at any   *)
(* time.  One action is one access to the counter or one operation on the  *)
(* mutex.  A task that throws ends like one that returns: the guard object *)
(* calls Done() on every path.                                             *)
(***************************************************************************)
EXTENDS Integers, FiniteSets

CONSTANTS
  Tasks,              \* the coroutines that Go() can start, each of them once
  Waiters,            \* the processes that call Wait()
  Owner,              \* the waiter that calls Go()
  NoOne,              \* the mutex is free
  kMaxSpinIterations  \* how often Wait() polls before it takes the mutex

ASSUME WaitGroupAssumption ==
  /\ IsFiniteSet(Tasks)
  /\ Owner \in Waiters
  /\ NoOne \notin Waiters
  /\ kMaxSpinIterations \in Nat \ {0}

VARIABLES
  counter,    \* counter_
  mtx,        \* the holder of mtx_
  task,       \* how far each coroutine is
  waiter,     \* where each waiter is
  spins,      \* polls done in this call of Wait()
  awaited     \* history: tasks unfinished since before this call of Wait()

vars == <<counter, mtx, task, waiter, spins, awaited>>

(* The tasks that Add(1) has counted and Done() has not. *)
Pending == {t \in Tasks : task[t] \in {"added", "running"}}

Init ==
  /\ counter = 0 /\ mtx = NoOne
  /\ task = [t \in Tasks |-> "none"]
  /\ waiter = [w \in Waiters |-> "idle"]
  /\ spins = [w \in Waiters |-> 0]
  /\ awaited = [w \in Waiters |-> {}]

-----------------------------------------------------------------------------
(* Go(f) counts first and starts the coroutine afterwards. *)
Add(t) ==
  /\ waiter[Owner] = "idle" /\ task[t] = "none"
  /\ counter' = counter + 1
  /\ task' = [task EXCEPT ![t] = "added"]
  /\ waiter' = [waiter EXCEPT ![Owner] = "go"]
  /\ UNCHANGED <<mtx, spins, awaited>>

Go(t) ==
  /\ waiter[Owner] = "go" /\ task[t] = "added"
  /\ task' = [task EXCEPT ![t] = "running"]
  /\ waiter' = [waiter EXCEPT ![Owner] = "idle"]
  /\ UNCHANGED <<counter, mtx, spins, awaited>>

(* Mutant: without the guard object, a task that throws skips Done(). *)
DoneUnlessThrown(t) ==
  /\ task[t] = "running"
  /\ \E thrown \in BOOLEAN : counter' = IF thrown THEN counter ELSE counter - 1
  /\ task' = [task EXCEPT ![t] = IF counter' = 0 THEN "zero" ELSE "finished"]
  /\ awaited' = [w \in Waiters |-> awaited[w] \ {t}]
  /\ UNCHANGED <<mtx, waiter, spins>>

(* f returns or throws, and ~Guard calls Done(): fetch_add(-1). *)
Done(t) ==
  /\ task[t] = "running"
  /\ counter' = counter - 1
  /\ task' = [task EXCEPT ![t] = IF counter - 1 = 0 THEN "zero" ELSE "finished"]
  /\ awaited' = [w \in Waiters |-> awaited[w] \ {t}]
  /\ UNCHANGED <<mtx, waiter, spins>>

(* cv_.notify_all: where each waiter is afterwards. *)
WokenOne(w) ==      \* Mutant: notify_one.
  LET one == {CHOOSE v \in Waiters : waiter[v] = "asleep"
                                    \/ \A u \in Waiters : waiter[u] # "asleep"}
  IN  IF w \in one /\ waiter[w] = "asleep" THEN "lock" ELSE waiter[w]
WokenReturns(w) ==  \* Mutant: cv_.wait(lock) without the predicate.
  IF waiter[w] = "asleep" THEN "returned" ELSE waiter[w]
Woken(w) == IF waiter[w] = "asleep" THEN "lock" ELSE waiter[w]

(* Mutant: notify_all without the mutex. *)
NotifyAllUnlocked(t) ==
  /\ task[t] = "zero"
  /\ task' = [task EXCEPT ![t] = "finished"]
  /\ waiter' = [w \in Waiters |-> Woken(w)]
  /\ UNCHANGED <<counter, mtx, spins, awaited>>

(* The Done() that reached zero takes the mutex and wakes every waiter. *)
NotifyAll(t) ==
  /\ task[t] = "zero" /\ mtx = NoOne
  /\ task' = [task EXCEPT ![t] = "finished"]
  /\ waiter' = [w \in Waiters |-> Woken(w)]
  /\ UNCHANGED <<counter, mtx, spins, awaited>>

-----------------------------------------------------------------------------
Wait(w) ==
  /\ waiter[w] = "idle"
  /\ waiter' = [waiter EXCEPT ![w] = "spin"]
  /\ spins' = [spins EXCEPT ![w] = 0]
  /\ awaited' = [awaited EXCEPT ![w] = Pending]
  /\ UNCHANGED <<counter, mtx, task>>

(* The last poll of the loop. *)
LastSpinLate(w) == spins[w] = kMaxSpinIterations  \* Mutant: one poll too many.
LastSpin(w) == spins[w] + 1 = kMaxSpinIterations

Spin(w) ==
  /\ waiter[w] = "spin"
  /\ waiter' = [waiter EXCEPT ![w] =
       IF counter = 0 THEN "returned"
       ELSE IF LastSpin(w) THEN "lock" ELSE "spin"]
  /\ spins' = [spins EXCEPT ![w] = spins[w] + 1]
  /\ UNCHANGED <<counter, mtx, task, awaited>>

(* The mutex, on entry to the slow path and again after a notification. *)
Lock(w) ==
  /\ waiter[w] = "lock" /\ mtx = NoOne
  /\ mtx' = w
  /\ waiter' = [waiter EXCEPT ![w] = "check"]
  /\ UNCHANGED <<counter, task, spins, awaited>>

(* The predicate of cv_.wait; when it holds, Wait() returns and unlocks. *)
Check(w) ==
  /\ waiter[w] = "check"
  /\ \/ counter = 0 /\ mtx' = NoOne /\ waiter' = [waiter EXCEPT ![w] = "returned"]
     \/ counter # 0 /\ UNCHANGED mtx /\ waiter' = [waiter EXCEPT ![w] = "suspend"]
  /\ UNCHANGED <<counter, task, spins, awaited>>

(* cv_.wait releases the mutex and sleeps, as one step. *)
Suspend(w) ==
  /\ waiter[w] = "suspend"
  /\ mtx' = NoOne
  /\ waiter' = [waiter EXCEPT ![w] = "asleep"]
  /\ UNCHANGED <<counter, task, spins, awaited>>

(* The caller of Wait() goes on; it may call Go() or Wait() again. *)
Resume(w) ==
  /\ waiter[w] = "returned"
  /\ waiter' = [waiter EXCEPT ![w] = "idle"]
  /\ UNCHANGED <<counter, mtx, task, spins, awaited>>

-----------------------------------------------------------------------------
TaskStep(t) == Go(t) \/ Done(t) \/ NotifyAll(t)
WaiterStep(w) == Spin(w) \/ Lock(w) \/ Check(w) \/ Suspend(w) \/ Resume(w)

Next ==
  \/ \E t \in Tasks : Add(t) \/ TaskStep(t)
  \/ \E w \in Waiters : Wait(w) \/ WaiterStep(w)

Spec == Init /\ [][Next]_vars

(* Every coroutine that can run is scheduled, and every task ends.  The    *)
(* mutex need not be fair.                                                 *)
FairSpec ==
  /\ Spec
  /\ \A t \in Tasks : WF_vars(TaskStep(t))
  /\ \A w \in Waiters : WF_vars(WaiterStep(w))

-----------------------------------------------------------------------------
(* Properties *)

TypeOK ==
  /\ counter \in Int
  /\ mtx \in Waiters \cup {NoOne}
  /\ task \in [Tasks -> {"none", "added", "running", "zero", "finished"}]
  /\ waiter \in [Waiters -> {"idle", "go", "spin", "lock", "check", "suspend",
                             "asleep", "returned"}]
  /\ spins \in [Waiters -> 0 .. kMaxSpinIterations]
  /\ awaited \in [Waiters -> SUBSET Tasks]

(* Wait() returns only when every task that was unfinished when it was     *)
(* called has called Done(), whichever path it took and whatever           *)
(* notification of an earlier round woke it (Wait, Go, Add).               *)
WaitMeansDone == \A w \in Waiters : waiter[w] = "returned" => awaited[w] = {}

(* The counter never counts a task too many or too few, so it is never     *)
(* negative and Add() never throws: Go() counts a task before the task can *)
(* call Done().                                                            *)
CounterExact == counter = Cardinality(Pending)

(* No wakeup is lost: a waiter never sleeps on a counter that is zero      *)
(* unless the Done() that brought it to zero has still to notify.          *)
NoLostWakeup ==
  (\E w \in Waiters : waiter[w] = "asleep") /\ counter = 0
    => \E t \in Tasks : task[t] = "zero"

(* Every call of Wait() returns, since every task ends (Wait, NotifyAll).  *)
WaitReturns ==
  \A w \in Waiters : (waiter[w] = "spin") ~> (waiter[w] = "returned")
=============================================================================
