----------------------------- MODULE ThreadPool -----------------------------
(***************************************************************************)
(* ThreadPool and ParallelLauncher of src/src/runtime/thread_pool.cc, with *)
(* TVMBackendParallelLaunch and TVMBackendParallelBarrier.  Pool and       *)
(* launcher are thread-local, so one launching ("main") thread is all      *)
(* there is.  Task t of a launch is run by worker t, except task 0, which  *)
(* the main thread runs itself when exclude_worker0_ is set: lane t is the *)
(* place where task t runs.  The queues between main and workers are those *)
(* of TaskQueue with the capacity of the ring (one task).                  *)
(*                                                                         *)
(* A task is abstracted to the calls of the barrier it makes, after which  *)
(* it returns 0 or fails.  The launcher is not locked: a step is one access*)
(* to a variable that several threads use.                                 *)
(***************************************************************************)
EXTENDS Integers, FiniteSets, FiniteSetsExt

CONSTANTS
  num_workers_,      \* size of the pool (MaxConcurrency when it was created)
  big_count_, little_count_,  \* cores of each kind, see ThreadGroup
  Barriers,          \* barrier calls of a task
  FailAt,            \* a task may fail after so many barriers
  FailLanes,         \* the tasks that may fail
  Configs,           \* arguments of config_threadpool: [mode, nthreads, cpus]
  NumTasks,          \* num_task arguments of TVMBackendParallelLaunch
  MaxLaunch          \* bound: the launches of a behaviour

ASSUME WorkersAssumption == num_workers_ \in Nat \ {0}

ASSUME TaskAssumption ==
  /\ Barriers \in Nat
  /\ FailAt \subseteq 0 .. Barriers
  /\ NumTasks \subseteq Nat
  /\ MaxLaunch \in Nat

ASSUME ConfigAssumption ==
  /\ big_count_ \in Nat
  /\ little_count_ \in Nat
  /\ Configs \subseteq [mode : {"big", "little", "specify", "default"},
                        nthreads : Nat, cpus : Nat]

Lanes == 0 .. num_workers_ - 1

VARIABLES
  \* ParallelLauncher
  num_pending_, has_error_,
  par_errors_,       \* tasks whose error string is not empty
  par_size,          \* par_errors_.size()
  sync_counter_,     \* lane -> its barrier counter
  sync_size,         \* counters that sync_counter_ was allocated for
  num_task,          \* env.num_task
  \* ThreadPool
  exclude_worker0_,  \* from TVM_EXCLUDE_WORKER0; constant
  num_workers_used_, max_concurrency,
  queues_,           \* lane -> TRUE while its queue holds a task
  killed, exited,    \* lanes whose queue is killed, whose worker has left
  \* the threads
  mpc,               \* where the main thread is in Launch
  pushing,           \* the index of its loop over the queues
  lane,              \* lane -> where its thread is in the task
  old_counter, peer, \* lane -> the locals of the barrier
  \* observations
  passed,            \* lane -> barriers its task has passed
  runs,              \* lane -> tasks started on it in this launch
  failed,            \* tasks of this launch that returned an error
  result,            \* what the last Launch returned
  blamed,            \* tasks named in its error message
  tasks,             \* the tasks of the last launch
  launches

launcher == <<num_pending_, has_error_, par_errors_, par_size, sync_size,
              num_task>>
pool == <<exclude_worker0_, num_workers_used_, max_concurrency, queues_, killed,
          exited>>
main == <<mpc, pushing, result, blamed, tasks, launches>>
body == <<lane, old_counter, peer, passed, runs, failed, sync_counter_>>
vars == <<launcher, pool, main, body>>

\* The worker (or main, for task 0) has no task.
Idle(t) == lane[t] = "idle"

Init ==
  /\ num_pending_ = 0
  /\ has_error_ = FALSE
  /\ par_errors_ = {}
  /\ par_size = 0
  /\ sync_counter_ = [t \in Lanes |-> 0]
  /\ sync_size = 0
  /\ num_task = 0
  /\ exclude_worker0_ \in BOOLEAN
  /\ num_workers_used_ = Min({num_workers_, big_count_})
  /\ max_concurrency = 0
  /\ queues_ = [t \in Lanes |-> FALSE]
  /\ killed = {}
  /\ exited = {}
  /\ mpc = "idle"
  /\ pushing = 0
  /\ lane = [t \in Lanes |-> "idle"]
  /\ old_counter = [t \in Lanes |-> 0]
  /\ peer = [t \in Lanes |-> 0]
  /\ passed = [t \in Lanes |-> 0]
  /\ runs = [t \in Lanes |-> 0]
  /\ failed = {}
  /\ result = 0
  /\ blamed = {}
  /\ tasks = {}
  /\ launches = 0

----------------------------------------------------------------------------
(* The main thread. *)

\* threading::MaxConcurrency: the thread-local setting, or the machine's.
MaxConcurrency == IF max_concurrency # 0 THEN max_concurrency ELSE num_workers_

\* runtime.config_threadpool: how many of the workers are used from now on:
\* what the call asks for, capped by the workers there are.  (By default that is
\* MaxConcurrency, which Configure has just set to the number of the cpus.)
Wanted(c) ==
  CASE c.nthreads # 0       -> c.nthreads
    [] c.mode = "big"       -> big_count_
    [] c.mode = "little"    -> little_count_
    [] c.mode = "specify"   -> c.cpus
    [] OTHER                -> IF c.cpus # 0 THEN c.cpus ELSE num_workers_

Configured(c) == Min({num_workers_, Wanted(c)})

Configure ==
  /\ mpc = "idle"
  /\ \E c \in Configs :
        /\ max_concurrency' = c.cpus
        /\ num_workers_used_' = Configured(c)
  /\ UNCHANGED <<launcher, exclude_worker0_, queues_, killed, exited, main, body>>

\* The counters of the barrier are allocated only when the error strings have
\* to grow, and those grow by one more than the tasks need.
Reshape(n) ==
  /\ par_size'  = IF n > par_size THEN n + 1 ELSE par_size
  /\ sync_size' = IF n > par_size THEN n ELSE sync_size

\* The barrier counters at the start of a launch of n tasks, which the mutant
\* does not reset.
KeepCounters(n) == sync_counter_

ZeroCounters(n) == [t \in Lanes |-> IF t < n THEN 0 ELSE sync_counter_[t]]

\* TVMBackendParallelLaunch on a pool of several workers: Launch with need_sync
\* set, up to the first Push.  0 stands for all the workers in use; more tasks
\* than those fail the ICHECK and launch nothing.
Launch ==
  /\ mpc = "idle"
  /\ MaxConcurrency # 1
  /\ launches < MaxLaunch
  /\ \E n \in {IF a = 0 THEN num_workers_used_ ELSE a : a \in NumTasks} :
        /\ n <= num_workers_used_
        /\ num_pending_' = n
        /\ num_task' = n
        /\ tasks' = 0 .. n - 1
        /\ Reshape(n)
        /\ sync_counter_' = ZeroCounters(n)
  /\ has_error_' = FALSE
  /\ pushing' = IF exclude_worker0_ THEN 1 ELSE 0
  /\ mpc' = "push"
  /\ launches' = launches + 1
  /\ passed' = [t \in Lanes |-> 0]
  /\ runs' = [t \in Lanes |-> 0]
  /\ failed' = {}
  /\ UNCHANGED <<par_errors_, pool, result, blamed, lane, old_counter, peer>>

\* The loop over the queues; Push blocks while the queue holds a task.
PushTask ==
  /\ mpc = "push"
  /\ pushing < num_task
  /\ ~queues_[pushing]
  /\ queues_' = [queues_ EXCEPT ![pushing] = TRUE]
  /\ pushing' = pushing + 1
  /\ UNCHANGED <<launcher, exclude_worker0_, num_workers_used_, max_concurrency,
                 killed, exited, mpc, result, blamed, tasks, launches, body>>

\* The loop ends; the main thread turns to task 0, or to WaitForJobs.
PushedAll ==
  /\ mpc = "push"
  /\ pushing >= num_task
  /\ mpc' = "wait"
  /\ lane' = IF exclude_worker0_ THEN [lane EXCEPT ![0] = "run"] ELSE lane
  /\ runs' = IF exclude_worker0_ THEN [runs EXCEPT ![0] = @ + 1] ELSE runs
  /\ UNCHANGED <<launcher, pool, pushing, result, blamed, tasks, launches, old_counter,
                 peer, passed, failed, sync_counter_>>

\* The main thread is at WaitForJobs, not in its own task.
AtWait == mpc = "wait" /\ (exclude_worker0_ => Idle(0))

\* The loop of WaitForJobs ends; in the mutant, one job early.
AlmostDone == num_pending_ <= 1

JobsDone == num_pending_ = 0

\* WaitForJobs finds no job pending and no error.
WaitReturnsOk ==
  /\ AtWait
  /\ JobsDone
  /\ ~has_error_
  /\ result' = 0
  /\ blamed' = {}
  /\ mpc' = "idle"
  /\ UNCHANGED <<launcher, pool, pushing, tasks, launches, body>>

\* WaitForJobs finds an error: it reports the strings it finds, and clears them.
WaitReturnsError ==
  /\ AtWait
  /\ JobsDone
  /\ has_error_
  /\ result' = -1
  /\ blamed' = par_errors_
  /\ par_errors_' = {}
  /\ mpc' = "idle"
  /\ UNCHANGED <<num_pending_, has_error_, par_size, sync_size, num_task, pool,
                 pushing, tasks, launches, body>>

\* TVMBackendParallelLaunch when a single thread may run: flambda is called, and
\* what it returns is dropped.
LaunchInline ==
  /\ mpc = "idle"
  /\ MaxConcurrency = 1
  /\ launches < MaxLaunch
  /\ launches' = launches + 1
  /\ tasks' = {0}
  /\ runs' = [t \in Lanes |-> IF t = 0 THEN 1 ELSE 0]
  /\ passed' = [t \in Lanes |-> 0]
  /\ \E f \in SUBSET (FailLanes \intersect {0}) : failed' = f
  /\ result' = 0
  /\ blamed' = {}
  /\ UNCHANGED <<launcher, pool, mpc, pushing, lane, old_counter, peer, sync_counter_>>

\* The queues that Reset kills; in the mutant, those in use.
UsedQueues == {t \in Lanes : t < num_workers_used_}

AllQueues == Lanes

\* ThreadPool::Reset: kill the queues and join the workers ...
Reset ==
  /\ mpc = "idle"
  /\ killed' = AllQueues
  /\ mpc' = "join"
  /\ exited' = IF exclude_worker0_ THEN {0} ELSE {}
  /\ UNCHANGED <<launcher, exclude_worker0_, num_workers_used_, max_concurrency,
                 queues_, pushing, result, blamed, tasks, launches, body>>

\* ... then make new queues and workers.
Reinit ==
  /\ mpc = "join"
  /\ exited = Lanes
  /\ killed' = {}
  /\ exited' = {}
  /\ queues_' = [t \in Lanes |-> FALSE]
  /\ num_workers_used_' = Min({num_workers_, big_count_})
  /\ mpc' = "idle"
  /\ UNCHANGED <<launcher, exclude_worker0_, max_concurrency, pushing, result, blamed,
                 tasks, launches, body>>

----------------------------------------------------------------------------
(* The lanes. *)

\* RunWorker: Pop returns the task in the queue of lane t.
PopTask(t) ==
  /\ Idle(t)
  /\ t \notin exited
  /\ queues_[t]
  /\ queues_' = [queues_ EXCEPT ![t] = FALSE]
  /\ lane' = [lane EXCEPT ![t] = "run"]
  /\ runs' = [runs EXCEPT ![t] = @ + 1]
  /\ UNCHANGED <<launcher, exclude_worker0_, num_workers_used_, max_concurrency,
                 killed, exited, main, old_counter, peer, passed, failed, sync_counter_>>

\* Pop returns FALSE: the worker ends.
WorkerExits(t) ==
  /\ Idle(t)
  /\ t \in killed \ exited
  /\ exited' = exited \union {t}
  /\ UNCHANGED <<launcher, exclude_worker0_, num_workers_used_, max_concurrency,
                 queues_, killed, main, body>>

\* A counter beyond the allocated ones is memory of something else: a load from
\* it may return anything.
Loads(t) == IF t < sync_size THEN {sync_counter_[t]} ELSE 0 .. Barriers

\* The barrier counts the arrival of task t.
BarrierArrive(t) ==
  /\ lane[t] = "run"
  /\ passed[t] < Barriers
  /\ \E v \in Loads(t) : old_counter' = [old_counter EXCEPT ![t] = v]
  /\ sync_counter_' = [sync_counter_ EXCEPT ![t] = @ + 1]
  /\ peer' = [peer EXCEPT ![t] = 0]
  /\ lane' = [lane EXCEPT ![t] = "spin"]
  /\ UNCHANGED <<launcher, pool, main, passed, runs, failed>>

\* Mutants of PeerArrived: the peer may be one barrier behind, or has to be one
\* ahead.
PeerNotBehind(t) == \E v \in Loads(peer[t]) : v >= old_counter[t]

PeerAhead(t) == \E v \in Loads(peer[t]) : v > old_counter[t] + 1

\* The peer that task t looks at has arrived at the same barrier.
PeerArrived(t) == \E v \in Loads(peer[t]) : v > old_counter[t]

\* One peer after the other is seen to have arrived.
BarrierPeer(t) ==
  /\ lane[t] = "spin"
  /\ peer[t] < num_task
  /\ \/ peer[t] = t
     \/ PeerArrived(t)
  /\ peer' = [peer EXCEPT ![t] = @ + 1]
  /\ UNCHANGED <<launcher, pool, main, lane, old_counter, passed, runs, failed,
                 sync_counter_>>

BarrierPass(t) ==
  /\ lane[t] = "spin"
  /\ peer[t] >= num_task
  /\ lane' = [lane EXCEPT ![t] = "run"]
  /\ passed' = [passed EXCEPT ![t] = @ + 1]
  /\ UNCHANGED <<launcher, pool, main, old_counter, peer, runs, failed,
                 sync_counter_>>

\* flambda returns 0: SignalJobFinish.
SignalJobFinish(t) ==
  /\ lane[t] = "run"
  /\ passed[t] = Barriers
  /\ num_pending_' = num_pending_ - 1
  /\ lane' = [lane EXCEPT ![t] = "idle"]
  /\ UNCHANGED <<has_error_, par_errors_, par_size, sync_size, num_task, pool,
                 main, old_counter, peer, passed, runs, failed, sync_counter_>>

\* flambda fails: SignalJobError counts the job as finished ...
SignalJobError(t) ==
  /\ lane[t] = "run"
  /\ t \in FailLanes
  /\ passed[t] \in FailAt
  /\ failed' = failed \union {t}
  /\ num_pending_' = num_pending_ - 1
  /\ lane' = [lane EXCEPT ![t] = "record"]
  /\ UNCHANGED <<has_error_, par_errors_, par_size, sync_size, num_task, pool,
                 main, old_counter, peer, passed, runs, sync_counter_>>

\* ... then stores the message: the main thread stores it for the task it pushed
\* last (an uninitialised id, when it pushed none) ...
RecordError(t) ==
  /\ lane[t] = "record"
  /\ \E id \in IF exclude_worker0_ /\ t = 0
               THEN IF num_task > 1 THEN {num_task - 1} ELSE 0 .. par_size - 1
               ELSE {t} :
        par_errors_' = par_errors_ \union {id}
  /\ lane' = [lane EXCEPT ![t] = "flag"]
  /\ UNCHANGED <<num_pending_, has_error_, par_size, sync_size, num_task, pool,
                 main, old_counter, peer, passed, runs, failed, sync_counter_>>

\* ... and raises the flag that WaitForJobs tests.
FlagError(t) ==
  /\ lane[t] = "flag"
  /\ has_error_' = TRUE
  /\ lane' = [lane EXCEPT ![t] = "idle"]
  /\ UNCHANGED <<num_pending_, par_errors_, par_size, sync_size, num_task, pool,
                 main, old_counter, peer, passed, runs, failed, sync_counter_>>

----------------------------------------------------------------------------
Lane(t) == \/ PopTask(t)
           \/ WorkerExits(t)
           \/ BarrierArrive(t)
           \/ BarrierPeer(t)
           \/ BarrierPass(t)
           \/ SignalJobFinish(t)
           \/ SignalJobError(t)
           \/ RecordError(t)
           \/ FlagError(t)

Main == PushTask \/ PushedAll \/ WaitReturnsOk \/ WaitReturnsError \/ Reinit

Next == \/ Configure
        \/ Launch
        \/ LaunchInline
        \/ Reset
        \/ Main
        \/ \E t \in Lanes : Lane(t)

Spec == Init /\ [][Next]_vars

\* The operating system schedules every thread; nothing obliges the caller to
\* launch, configure or reset.
FairSpec == Spec /\ WF_vars(Main) /\ \A t \in Lanes : WF_vars(Lane(t))

----------------------------------------------------------------------------
(* Properties. *)

TypeOK ==
  /\ num_pending_ \in -1 .. num_workers_
  /\ has_error_ \in BOOLEAN
  /\ par_size \in 0 .. num_workers_ + 1
  /\ par_errors_ \subseteq 0 .. par_size - 1
  /\ sync_size \in 0 .. num_workers_
  /\ sync_counter_ \in [Lanes -> Nat]
  /\ num_task \in 0 .. num_workers_
  /\ exclude_worker0_ \in BOOLEAN
  /\ num_workers_used_ \in 0 .. num_workers_
  /\ max_concurrency \in Nat
  /\ queues_ \in [Lanes -> BOOLEAN]
  /\ killed \subseteq Lanes
  /\ exited \subseteq Lanes
  /\ mpc \in {"idle", "push", "wait", "join"}
  /\ pushing \in 0 .. num_workers_
  /\ lane \in [Lanes -> {"idle", "run", "spin", "record", "flag"}]
  /\ old_counter \in [Lanes -> Nat]
  /\ peer \in [Lanes -> 0 .. num_workers_]
  /\ passed \in [Lanes -> 0 .. Barriers]
  /\ runs \in [Lanes -> Nat]
  /\ failed \subseteq Lanes
  /\ result \in {0, -1}
  /\ blamed \subseteq 0 .. num_workers_
  /\ tasks \subseteq Lanes
  /\ launches \in 0 .. MaxLaunch

\* Once Launch has returned, every task has been run exactly once and none is
\* still in its body, where it could use the closure of the caller.
LaunchIsComplete ==
  mpc = "idle" =>
    \A t \in Lanes : /\ runs[t] = IF t \in tasks THEN 1 ELSE 0
                     /\ lane[t] \notin {"run", "spin"}

\* The barrier is a barrier: a task is past its k-th call only when all the tasks
\* of the launch have made theirs.
Arrived(t) == passed[t] + (IF lane[t] = "spin" THEN 1 ELSE 0)
BarrierHolds ==
  \A t, u \in tasks : lane[t] = "run" => passed[t] <= Arrived(u)

\* A launch returns.
LaunchReturns == mpc \in {"push", "wait"} ~> mpc = "idle"

\* Reset returns, whatever the workers were doing when it was called.
ResetReturns == mpc = "join" ~> mpc = "idle"

\* The counters that the tasks of a launch use have been allocated.
CountersAllocated == mpc \in {"push", "wait"} => num_task <= sync_size

\* A launch returns -1 when one of its tasks failed, and 0 otherwise.
ErrorReported == mpc = "idle" => (result = -1 <=> failed # {})

\* A failing task makes the launch return -1.
FailureReturns == failed # {} ~> (mpc = "idle" /\ result = -1)

\* The tasks named in the error message are tasks that failed.
BlamesTheFailed == mpc = "idle" => blamed \subseteq failed
=============================================================================
