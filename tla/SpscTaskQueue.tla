--------------------------- MODULE SpscTaskQueue ---------------------------
(***************************************************************************)
(* SpscTaskQueue of src/src/runtime/thread_pool.cc: the ring through which *)
(* the launching thread hands tasks to one worker.  The ring itself is     *)
(* lock-free; pending_ counts the tasks that are pushed and not yet        *)
(* claimed, and is -1 while the worker sleeps (or is about to sleep) on    *)
(* the condition variable.                                                 *)
(*                                                                         *)
(* A step is one access to a shared variable.  mutex_ and cv_ are modelled *)
(* by what they guarantee: cv_.wait releases the mutex and starts to wait  *)
(* in one step, and a waiter may also wake up spuriously.  A task is       *)
(* abstracted to its position in the order of the calls of Push.           *)
(***************************************************************************)
EXTENDS Integers

CONSTANTS
  kRingSize,   \* slots of buffer_ (2 in the code)
  MaxPush      \* bound: the calls of Push in a behaviour

\* int8_t pending_ can count the tasks of a ring of at most 128 slots.
ASSUME RingAssumption == kRingSize \in 2..128

ASSUME MaxPushAssumption == MaxPush \in Nat

VARIABLES
  buffer_,     \* slot -> the task last stored in it (0: never written)
  head_, tail_,
  pending_,    \* int8_t
  exit_now_,
  mutex_,      \* TRUE while the worker holds it
  ppc,         \* where the pushing thread is
  cpc,         \* where the popping thread (the worker) is
  pushed,      \* tasks whose Push has started
  output,      \* the task Pop has copied out
  popped       \* calls of Pop that returned TRUE

ring == <<buffer_, head_, tail_>>
vars == <<buffer_, head_, tail_, pending_, exit_now_, mutex_, ppc, cpc,
          pushed, output, popped>>

Slots == 0 .. kRingSize - 1

\* Arithmetic of std::atomic<int8_t>: fetch_add and fetch_sub wrap around.
Int8(n) == ((n + 128) % 256) - 128

Init ==
  /\ buffer_ = [s \in Slots |-> 0]
  /\ head_ = 0
  /\ tail_ = 0
  /\ pending_ = 0
  /\ exit_now_ = FALSE
  /\ mutex_ = FALSE
  /\ ppc = "idle"
  /\ cpc = "spin"
  /\ pushed = 0
  /\ output = 0
  /\ popped = 0

----------------------------------------------------------------------------
(* The pushing thread. *)

\* Push is called with the next task.
PushBegin ==
  /\ ppc = "idle"
  /\ ~exit_now_
  /\ pushed < MaxPush
  /\ pushed' = pushed + 1
  /\ ppc' = "enqueue"
  /\ UNCHANGED <<ring, pending_, exit_now_, mutex_, cpc, output, popped>>

\* A mutant of EnqueueStore: the next slot instead of this one.
EnqueueStoreNext ==
  /\ ppc = "enqueue"
  /\ ~exit_now_
  /\ (tail_ + 1) % kRingSize # head_
  /\ buffer_' = [buffer_ EXCEPT ![(tail_ + 1) % kRingSize] = pushed]
  /\ ppc' = "publish"
  /\ UNCHANGED <<head_, tail_, pending_, exit_now_, mutex_, cpc, pushed,
                 output, popped>>

\* Enqueue finds a free slot and stores the task in it; while it returns FALSE
\* (the ring is full) Push yields and calls it again.
EnqueueStore ==
  /\ ppc = "enqueue"
  /\ ~exit_now_
  /\ (tail_ + 1) % kRingSize # head_
  /\ buffer_' = [buffer_ EXCEPT ![tail_] = pushed]
  /\ ppc' = "publish"
  /\ UNCHANGED <<head_, tail_, pending_, exit_now_, mutex_, cpc, pushed,
                 output, popped>>

\* The release store that makes the task visible.
EnqueuePublish ==
  /\ ppc = "publish"
  /\ tail_' = (tail_ + 1) % kRingSize
  /\ ppc' = "add"
  /\ UNCHANGED <<buffer_, head_, pending_, exit_now_, mutex_, cpc, pushed,
                 output, popped>>

\* pending_.fetch_add(1): the value -1 says that the worker has to be notified.
PushAdd ==
  /\ ppc = "add"
  /\ pending_' = Int8(pending_ + 1)
  /\ ppc' = IF pending_ = -1 THEN "notify" ELSE "idle"
  /\ UNCHANGED <<ring, exit_now_, mutex_, cpc, pushed, output, popped>>

\* What cv_.notify_one() does to the worker (as a mutant of PushNotify: without
\* the mutex).
NotifyOne ==
  /\ ppc = "notify"
  /\ cpc' = IF cpc = "waiting" THEN "lock" ELSE cpc
  /\ ppc' = "idle"
  /\ UNCHANGED <<ring, pending_, exit_now_, mutex_, pushed, output, popped>>

\* The worker was asleep, or about to be: notify it, under the mutex.
PushNotify ==
  /\ ~mutex_
  /\ NotifyOne

\* The owner of the pool terminates the worker, between two calls of Push.
SignalForKill ==
  /\ ppc = "idle"
  /\ ~mutex_
  /\ ~exit_now_
  /\ exit_now_' = TRUE
  /\ cpc' = IF cpc = "waiting" THEN "lock" ELSE cpc
  /\ UNCHANGED <<ring, pending_, mutex_, ppc, pushed, output, popped>>

----------------------------------------------------------------------------
(* The worker, in Pop. *)

\* The busy wait ends (at once, when a task is pending) and pending_ is
\* decremented: from 0, the worker has to sleep.
PopClaim ==
  /\ cpc = "spin"
  /\ pending_' = Int8(pending_ - 1)
  /\ cpc' = IF pending_ = 0 THEN "lock" ELSE "check"
  /\ UNCHANGED <<ring, exit_now_, mutex_, ppc, pushed, output, popped>>

\* The worker acquires the mutex, on entry or after it was woken up.
PopLock ==
  /\ cpc = "lock"
  /\ ~mutex_
  /\ mutex_' = TRUE
  /\ cpc' = "test"
  /\ UNCHANGED <<ring, pending_, exit_now_, ppc, pushed, output, popped>>

\* Mutants of PopTestTrue: a wait without a predicate; pending_ is decremented
\* once more after the wait.
PopTestNothing ==
  /\ cpc = "test"
  /\ mutex_' = FALSE
  /\ cpc' = "check"
  /\ UNCHANGED <<ring, pending_, exit_now_, ppc, pushed, output, popped>>

PopTestClaim ==
  /\ cpc = "test"
  /\ pending_ >= 0 \/ exit_now_
  /\ pending_' = Int8(pending_ - 1)
  /\ mutex_' = FALSE
  /\ cpc' = "check"
  /\ UNCHANGED <<ring, exit_now_, ppc, pushed, output, popped>>

\* The predicate of cv_.wait holds: the lock goes out of scope.
PopTestTrue ==
  /\ cpc = "test"
  /\ pending_ >= 0 \/ exit_now_
  /\ mutex_' = FALSE
  /\ cpc' = "check"
  /\ UNCHANGED <<ring, pending_, exit_now_, ppc, pushed, output, popped>>

\* The predicate does not hold; the worker still owns the mutex.
PopTestFalse ==
  /\ cpc = "test"
  /\ ~(pending_ >= 0 \/ exit_now_)
  /\ cpc' = "sleep"
  /\ UNCHANGED <<ring, pending_, exit_now_, mutex_, ppc, pushed, output, popped>>

\* cv_.wait releases the mutex and waits.
PopSleep ==
  /\ cpc = "sleep"
  /\ mutex_' = FALSE
  /\ cpc' = "waiting"
  /\ UNCHANGED <<ring, pending_, exit_now_, ppc, pushed, output, popped>>

\* A condition variable may wake up without a notification.
PopSpuriousWakeup ==
  /\ cpc = "waiting"
  /\ cpc' = "lock"
  /\ UNCHANGED <<ring, pending_, exit_now_, mutex_, ppc, pushed, output, popped>>

\* After the wait: Pop returns FALSE when the worker has to exit.
PopCheckExit ==
  /\ cpc = "check"
  /\ cpc' = IF exit_now_ THEN "exited" ELSE "take"
  /\ UNCHANGED <<ring, pending_, exit_now_, mutex_, ppc, pushed, output, popped>>

\* A mutant of PopTake: the newest task instead of the oldest.
PopTakeLast ==
  /\ cpc = "take"
  /\ output' = buffer_[(tail_ - 1) % kRingSize]
  /\ cpc' = "advance"
  /\ UNCHANGED <<ring, pending_, exit_now_, mutex_, ppc, pushed, popped>>

\* The task at the head of the ring is copied out (the ICHECK that the ring is
\* not empty is the invariant SanityCheck).
PopTake ==
  /\ cpc = "take"
  /\ output' = buffer_[head_]
  /\ cpc' = "advance"
  /\ UNCHANGED <<ring, pending_, exit_now_, mutex_, ppc, pushed, popped>>

\* The release store that frees the slot; Pop returns TRUE, and RunWorker calls
\* it again after it has run the task.
PopAdvance ==
  /\ cpc = "advance"
  /\ head_' = (head_ + 1) % kRingSize
  /\ popped' = popped + 1
  /\ cpc' = "spin"
  /\ UNCHANGED <<buffer_, tail_, pending_, exit_now_, mutex_, ppc, pushed, output>>

\* The worker is joined; nothing else happens to this queue.
Terminated ==
  /\ cpc = "exited"
  /\ ppc = "idle"
  /\ UNCHANGED vars

----------------------------------------------------------------------------
Producer == \/ EnqueueStore
            \/ EnqueuePublish
            \/ PushAdd
            \/ PushNotify

Consumer == \/ PopClaim
            \/ PopLock
            \/ PopTestTrue
            \/ PopTestFalse
            \/ PopSleep
            \/ PopCheckExit
            \/ PopTake
            \/ PopAdvance

Next == \/ PushBegin
        \/ Producer
        \/ SignalForKill
        \/ Consumer
        \/ PopSpuriousWakeup
        \/ Terminated

\* The operating system schedules both threads.  Nothing forces a caller to
\* push or to kill, and nothing provides spurious wake-ups.
Fairness == WF_vars(Producer) /\ WF_vars(Consumer)

Spec == Init /\ [][Next]_vars

FairSpec == Spec /\ Fairness

----------------------------------------------------------------------------
(* Properties. *)

TypeOK ==
  /\ buffer_ \in [Slots -> 0 .. MaxPush]
  /\ head_ \in Slots
  /\ tail_ \in Slots
  /\ pending_ \in -128 .. 127
  /\ exit_now_ \in BOOLEAN
  /\ mutex_ \in BOOLEAN
  /\ ppc \in {"idle", "enqueue", "publish", "add", "notify"}
  /\ cpc \in {"spin", "lock", "test", "sleep", "waiting", "check", "take",
              "advance", "exited"}
  /\ pushed \in 0 .. MaxPush
  /\ output \in 0 .. MaxPush
  /\ popped \in Nat

\* Pop never reaches its copy with an empty ring: the ICHECK at line 194 holds,
\* although pending_ and tail_ are changed at different times.
SanityCheck == cpc = "take" => tail_ # head_

\* The task that Pop returns is the next one in the order of the calls of Push:
\* none is lost, repeated, reordered or overwritten before it was copied out.
InOrder == cpc = "advance" => output = popped + 1

\* No wake-up is lost: a worker asleep on cv_ while there is a task for it (or
\* it has to exit) has a notification on its way.
NoLostWakeup ==
  cpc = "waiting" /\ (pending_ >= 0 \/ exit_now_) => ppc = "notify"

\* pending_ never wraps around its eight bits, and is at least -1: the test of
\* Push for -1 is the only one that can find the worker asleep.
PendingInRange == pending_ \in -1 .. kRingSize - 1
============================================================================
