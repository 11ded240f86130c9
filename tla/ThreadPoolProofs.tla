-------------------------- MODULE ThreadPoolProofs --------------------------
(***************************************************************************)
(* Proofs about ThreadPool, for every number of workers, tasks, barriers and *)
(* launches: the inductive invariant, which the main thread's actions and  *)
(* those of the lanes preserve; type correctness, the completeness of a    *)
(* launch, and that TVMBackendParallelBarrier is a barrier.                *)
(***************************************************************************)
EXTENDS ThreadPool, FiniteSetTheorems, TLAPS

\* A leaf goes to Zenon unless it names another prover.
USE Zenon

\* The four places a task can be in during a launch.
Busy(t) == lane[t] \in {"run", "spin"}
Fresh(t) == runs[t] = 0 /\ ~queues_[t] /\ ~Busy(t)
Queued(t) == runs[t] = 0 /\ queues_[t] /\ ~Busy(t)
Running(t) == runs[t] = 1 /\ ~queues_[t] /\ Busy(t)
Done(t) == runs[t] = 1 /\ ~queues_[t] /\ ~Busy(t)

\* Task 0, when the main thread runs it.
ByMain(t) == exclude_worker0_ /\ t = 0

\* The task of lane t has been handed over.
Handed(t) ==
  IF mpc = "push" THEN t \in tasks /\ t < pushing /\ ~ByMain(t)
  ELSE IF mpc = "wait" THEN t \in tasks \/ ByMain(t)
  ELSE t \in tasks

\* A lane is fresh until its task is handed over; between launches each task of
\* the last one is done.
PhaseInv ==
  /\ mpc \in {"push", "wait"} => tasks = 0 .. num_task - 1
  /\ \A t \in Lanes :
        IF ~Handed(t) THEN Fresh(t)
        ELSE IF mpc \in {"push", "wait"} THEN Queued(t) \/ Running(t) \/ Done(t)
        ELSE Done(t)
  /\ \A t \in Lanes : ByMain(t) => ~queues_[t]
  /\ mpc = "push" /\ exclude_worker0_ => pushing >= 1

\* num_pending_ counts the tasks that are not done.  The exception is a launch of
\* no task at all, of which the main thread runs task 0 nevertheless.
Left == {t \in tasks : ~Done(t)}
Surplus == IF exclude_worker0_ /\ num_task = 0 /\ Done(0) THEN 1 ELSE 0
CountInv ==
  mpc \in {"push", "wait"} => num_pending_ = Cardinality(Left) - Surplus

\* The error strings suffice for the tasks that may still store one, and a task
\* in the barrier has one to go.
SizeInv ==
  /\ num_task <= par_size
  /\ \A t \in Lanes :
        /\ Busy(t) \/ lane[t] = "record" => ByMain(t) \/ t < par_size
        /\ lane[t] = "spin" => passed[t] < Barriers

IInv == TypeOK /\ PhaseInv /\ CountInv /\ SizeInv

----------------------------------------------------------------------------
\* The smaller of two numbers.
LEMMA MinLemma ==
  ASSUME NEW a \in Nat, NEW b \in Nat
  PROVE  Min({a, b}) \in Nat /\ Min({a, b}) <= a
<1>1. \E x \in {a, b} : \A y \in {a, b} : x <= y
  BY SMTT(30)
<1>2. Min({a, b}) \in {a, b} /\ \A y \in {a, b} : Min({a, b}) <= y
  BY <1>1 DEF Min
<1> QED BY <1>2

\* No configuration uses more workers than the pool has.
LEMMA ConfiguredLemma ==
  /\ Min({num_workers_, big_count_}) \in 0 .. num_workers_
  /\ \A c \in Configs : Configured(c) \in 0 .. num_workers_ /\ c.cpus \in Nat
<1> USE WorkersAssumption, ConfigAssumption
<1>1. Min({num_workers_, big_count_}) \in 0 .. num_workers_
  BY SMTT(30), MinLemma
<1>2. ASSUME NEW c \in Configs
      PROVE  Configured(c) \in 0 .. num_workers_ /\ c.cpus \in Nat
  <2>1. /\ c.mode \in {"big", "little", "specify", "default"}
        /\ c.nthreads \in Nat /\ c.cpus \in Nat
    OBVIOUS
  <2>2. Wanted(c) \in Nat
    BY <2>1 DEF Wanted
  <2> QED BY SMTT(30), <2>1, <2>2, MinLemma DEF Configured
<1> QED BY <1>1, <1>2

\* The tasks that are not done are finitely many, as many as there are lanes.
LEMMA LeftLemma ==
  ASSUME TypeOK
  PROVE  IsFiniteSet(Left) /\ Cardinality(Left) \in 0 .. num_workers_
<1>1. IsFiniteSet(Lanes) /\ Cardinality(Lanes) = num_workers_
  BY SMTT(30), WorkersAssumption, FS_Interval DEF Lanes
<1>2. Left \in SUBSET Lanes
  BY DEF Left, TypeOK
<1>3. IsFiniteSet(Left) /\ Cardinality(Left) <= num_workers_
  BY <1>1, <1>2, FS_Subset
<1> QED BY SMTT(30), <1>3, FS_CardinalityType, WorkersAssumption

\* A step that leaves alone which tasks are done leaves the count alone.
LEMMA CountStable ==
  ASSUME TypeOK, CountInv, mpc' \in {"push", "wait"} => mpc \in {"push", "wait"},
         UNCHANGED <<tasks, num_task, num_pending_, exclude_worker0_>>,
         \A u \in Lanes : Done(u)' <=> Done(u)
  PROVE  CountInv'
<1>1. 0 \in Lanes /\ tasks \subseteq Lanes
  BY SMTT(30), WorkersAssumption DEF TypeOK, Lanes
<1>2. \A u : u \in Left' <=> u \in Left
  BY <1>1 DEF Left, Done, Busy
<1>3. Left' = Left
  BY <1>2
<1>4. Surplus' = Surplus
  BY <1>1 DEF Surplus, Done, Busy
<1> QED BY <1>3, <1>4 DEF CountInv

\* A task that is running belongs to a launch in progress, and is one of its
\* tasks unless the main thread runs task 0 of none.
LEMMA RunningLemma ==
  ASSUME TypeOK, PhaseInv, NEW t \in Lanes, Busy(t)
  PROVE  /\ mpc \in {"push", "wait"}
         /\ Running(t)
         /\ tasks = 0 .. num_task - 1
         /\ t \in tasks \/ (ByMain(t) /\ num_task = 0 /\ mpc = "wait")
  BY SMTT(30), WorkersAssumption
  DEF TypeOK, PhaseInv, Handed, Fresh, Queued, Running, Done, Busy, ByMain, Lanes

\* The end of a task, with or without an error, takes exactly one task out of
\* those that are pending.
LEMMA SignalLemma ==
  ASSUME IInv, NEW t \in Lanes, Busy(t),
         NEW x \in {"idle", "record"}, lane' = [lane EXCEPT ![t] = x],
         num_pending_' = num_pending_ - 1,
         UNCHANGED <<runs, queues_, tasks, num_task, mpc, exclude_worker0_>>
  PROVE  CountInv' /\ num_pending_' \in -1 .. num_workers_
<1> USE WorkersAssumption
<1>1. /\ mpc \in {"push", "wait"} /\ Running(t) /\ tasks = 0 .. num_task - 1
      /\ t \in tasks \/ (ByMain(t) /\ num_task = 0)
  BY RunningLemma DEF IInv
<1>2. \A u \in Lanes : Done(u)' <=> (Done(u) \/ u = t)
  BY <1>1 DEF IInv, TypeOK, Running, Done, Busy
<1>3. num_pending_ = Cardinality(Left) - Surplus
  BY <1>1 DEF IInv, CountInv
<1>4. IsFiniteSet(Left) /\ Cardinality(Left) \in 0 .. num_workers_
  BY LeftLemma DEF IInv
<1>5. tasks \subseteq Lanes /\ num_task \in Nat /\ 0 \in Lanes /\ t \in Nat
  BY SMTT(30) DEF IInv, TypeOK, Lanes
<1>6. CASE t \in tasks
  <2>1. t \in Left /\ Left' = Left \ {t}
    BY <1>1, <1>2, <1>5, <1>6 DEF Left, Running, Done
  <2>2. Cardinality(Left') = Cardinality(Left) - 1
    BY <2>1, <1>4, FS_RemoveElement
  <2>3. num_task # 0
    BY SMTT(30), <1>1, <1>5, <1>6
  <2>4. Surplus = 0 /\ Surplus' = 0
    BY <2>3 DEF Surplus
  <2>5. Left # {}
    BY <2>1
  <2> QED BY SMTT(30), <1>3, <1>4, <2>2, <2>4, <2>5, FS_EmptySet DEF CountInv
<1>7. CASE ByMain(t) /\ num_task = 0
  <2>1. Left = {} /\ Left' = {}
    BY SMTT(30), <1>1, <1>7 DEF Left
  <2>2. Surplus = 0 /\ Surplus' = 1
    BY <1>1, <1>2, <1>5, <1>7 DEF Surplus, ByMain, Running, Done
  <2> QED BY SMTT(30), <1>3, <1>4, <2>1, <2>2, FS_EmptySet DEF CountInv
<1> QED BY <1>1, <1>6, <1>7

\* When WaitForJobs finds no job pending, every task is done.
LEMMA WaitLemma ==
  ASSUME IInv, AtWait, JobsDone, NEW t \in Lanes
  PROVE  IF t \in tasks THEN Done(t) ELSE Fresh(t)
<1> USE WorkersAssumption
<1>1. tasks = 0 .. num_task - 1 /\ mpc = "wait" /\ num_task \in Nat /\ 0 \in Lanes
  BY SMTT(30) DEF IInv, TypeOK, PhaseInv, AtWait, Lanes
<1>2. Cardinality(Left) = Surplus /\ IsFiniteSet(Left)
  BY SMTT(30), <1>1, LeftLemma DEF IInv, CountInv, JobsDone, Surplus
<1>3. Surplus = 0
  <2>1. SUFFICES ASSUME Surplus = 1 PROVE FALSE
    BY DEF Surplus
  <2>2. num_task = 0
    BY SMTT(30), <2>1 DEF Surplus
  <2>3. Left = {}
    BY SMTT(30), <1>1, <2>2 DEF Left
  <2> QED BY SMTT(30), <1>2, <2>1, <2>3, FS_EmptySet
<1>4. Left = {}
  BY <1>2, <1>3, FS_EmptySet
<1>5. CASE t \in tasks
  BY <1>4, <1>5 DEF Left
<1>6. CASE t \notin tasks
  <2>1. ~ByMain(t)
    <3>1. SUFFICES ASSUME ByMain(t) PROVE FALSE
      OBVIOUS
    <3>2. t = 0 /\ num_task = 0
      BY SMTT(30), <1>1, <1>6, <3>1 DEF ByMain
    <3>3. Done(t)
      BY <1>1, <3>1 DEF IInv, PhaseInv, Handed, Queued, Running, Busy, ByMain, AtWait, Idle
    <3> QED BY SMTT(30), <1>3, <3>1, <3>2, <3>3 DEF Surplus, ByMain
  <2> QED BY <1>1, <1>6, <2>1 DEF IInv, PhaseInv, Handed
<1> QED BY <1>5, <1>6

LEMMA InitInv == Init => IInv
<1> SUFFICES ASSUME Init PROVE IInv
  OBVIOUS
<1> USE WorkersAssumption, TaskAssumption
<1> USE DEF Init
<1>1. TypeOK
  <2>1. /\ num_pending_ \in -1 .. num_workers_
        /\ par_size \in 0 .. num_workers_ + 1 /\ par_errors_ \subseteq 0 .. par_size - 1
        /\ sync_size \in 0 .. num_workers_ /\ num_task \in 0 .. num_workers_
        /\ num_workers_used_ \in 0 .. num_workers_ /\ max_concurrency \in Nat
        /\ pushing \in 0 .. num_workers_ /\ launches \in 0 .. MaxLaunch
    BY SMTT(30), ConfiguredLemma
  <2>2. /\ queues_ \in [Lanes -> BOOLEAN] /\ runs \in [Lanes -> Nat]
        /\ lane \in [Lanes -> {"idle", "run", "spin", "record", "flag"}]
        /\ old_counter \in [Lanes -> Nat] /\ sync_counter_ \in [Lanes -> Nat]
        /\ peer \in [Lanes -> 0 .. num_workers_] /\ passed \in [Lanes -> 0 .. Barriers]
    BY SMTT(30)
  <2>3. has_error_ \in BOOLEAN
    OBVIOUS
  <2> QED BY <2>1, <2>2, <2>3 DEF TypeOK
<1>2. PhaseInv
  BY DEF PhaseInv, Handed, Fresh, Busy
<1>3. CountInv /\ SizeInv
  BY SMTT(30) DEF CountInv, SizeInv, Busy, Lanes
<1> QED BY <1>1, <1>2, <1>3 DEF IInv

----------------------------------------------------------------------------
\* What the type invariant says of the lanes, of the barrier and of the sizes.
LEMMA LaneTypes ==
  TypeOK => /\ lane \in [Lanes -> {"idle", "run", "spin", "record", "flag"}]
            /\ queues_ \in [Lanes -> BOOLEAN]
            /\ runs \in [Lanes -> Nat]
BY DEF TypeOK

LEMMA BarrierTypes ==
  TypeOK => /\ lane \in [Lanes -> {"idle", "run", "spin", "record", "flag"}]
            /\ passed \in [Lanes -> Nat]
            /\ peer \in [Lanes -> Nat]
            /\ old_counter \in [Lanes -> Nat]
            /\ sync_counter_ \in [Lanes -> Nat]
            /\ tasks \subseteq Lanes
<1> SUFFICES ASSUME TypeOK
             PROVE  passed \in [Lanes -> Nat] /\ peer \in [Lanes -> Nat]
  BY DEF TypeOK
<1>1. passed \in [Lanes -> 0 .. Barriers] /\ peer \in [Lanes -> 0 .. num_workers_]
  BY DEF TypeOK
<1> QED BY SMTT(30), <1>1

LEMMA SizeTypes ==
  TypeOK => /\ num_task \in Nat /\ par_size \in Nat /\ sync_size \in Nat
            /\ pushing \in Nat /\ num_workers_used_ \in 0 .. num_workers_
            /\ tasks \subseteq Lanes
BY SMTT(30), WorkersAssumption DEF TypeOK

\* A launch of n tasks has n tasks.
LEMMA IntervalLemma == \A n \in Nat : Cardinality(0 .. n - 1) = n
<1> TAKE n \in Nat
<1>1. 0 \in Int /\ n - 1 \in Int
  BY SMTT(30)
<1>2. Cardinality(0 .. n - 1) = IF 0 > n - 1 THEN 0 ELSE n - 1 - 0 + 1
  BY <1>1, FS_Interval
<1> QED BY SMTT(30), <1>2

----------------------------------------------------------------------------
\* Init of the launcher only grows its arrays, to what the launch needs.
LEMMA ReshapeLemma ==
  ASSUME TypeOK, NEW n \in 0 .. num_workers_, Reshape(n)
  PROVE  /\ par_size' \in 0 .. num_workers_ + 1 /\ par_size' \in Nat
         /\ n <= par_size' /\ par_size <= par_size'
         /\ sync_size' \in 0 .. num_workers_
         /\ 0 .. par_size - 1 \subseteq 0 .. par_size' - 1
<1>1. /\ par_size \in 0 .. num_workers_ + 1 /\ sync_size \in 0 .. num_workers_
      /\ num_workers_ \in Nat
  BY WorkersAssumption DEF TypeOK
<1>2. /\ par_size' \in 0 .. num_workers_ + 1 /\ par_size' \in Nat
      /\ n <= par_size' /\ par_size <= par_size'
      /\ sync_size' \in 0 .. num_workers_
  BY SMTT(30), <1>1 DEF Reshape
<1>3. \A a, b \in Nat : a <= b => 0 .. a - 1 \subseteq 0 .. b - 1
  BY SMTT(30)
<1>4. par_size \in Nat
  BY SMTT(30), <1>1
<1>5. 0 .. par_size - 1 \subseteq 0 .. par_size' - 1
  BY <1>2, <1>3, <1>4
<1> QED BY <1>2, <1>5

\* Every action of the main thread preserves the invariant.

LEMMA ConfigureInv == ASSUME IInv, Configure PROVE IInv'
<1> USE WorkersAssumption, TaskAssumption
<1> USE DEF IInv, Configure, launcher, pool, main, body
<1>1. TypeOK'
  <2>1. num_workers_used_' \in 0 .. num_workers_ /\ max_concurrency' \in Nat
    BY ConfiguredLemma
  <2> QED BY <2>1 DEF TypeOK
<1>2. PhaseInv'
  BY DEF TypeOK, PhaseInv, Handed, ByMain, Fresh, Queued, Running, Done, Busy, Lanes, Idle
<1>3. CountInv'
  BY DEF CountInv, AtWait
<1>4. SizeInv'
  BY DEF TypeOK, SizeInv, Busy, ByMain, Lanes
<1> QED BY <1>1, <1>2, <1>3, <1>4

LEMMA LaunchInv == ASSUME IInv, Launch PROVE IInv'
<1> USE WorkersAssumption, TaskAssumption
<1> USE DEF IInv, Launch, launcher, pool, main, body
<1> PICK n \in {IF a = 0 THEN num_workers_used_ ELSE a : a \in NumTasks} :
           /\ n <= num_workers_used_
           /\ num_pending_' = n
           /\ num_task' = n
           /\ tasks' = 0 .. n - 1
           /\ Reshape(n)
           /\ sync_counter_' = ZeroCounters(n)
  OBVIOUS
<1>0. n \in 0 .. num_workers_
  BY SMTT(30) DEF TypeOK
<1>1. TypeOK'
  <2>1. par_size' \in 0 .. num_workers_ + 1 /\ par_errors_' \subseteq 0 .. par_size' - 1
    <3>1. par_errors_ \subseteq 0 .. par_size - 1 /\ par_errors_' = par_errors_
      BY DEF TypeOK
    <3> QED BY <1>0, <3>1, ReshapeLemma
  <2>2. sync_size' \in 0 .. num_workers_
    BY <1>0, ReshapeLemma
  <2>3. num_pending_' \in -1 .. num_workers_ /\ num_task' \in 0 .. num_workers_
    BY SMTT(30), <1>0
  <2>4. tasks' \subseteq Lanes /\ pushing' \in 0 .. num_workers_
    BY SMTT(30), <1>0 DEF Lanes
  <2>5. launches' \in 0 .. MaxLaunch
    BY SMTT(30) DEF TypeOK
  <2>6. sync_counter_' \in [Lanes -> Nat]
    BY <1>0 DEF TypeOK, ZeroCounters
  <2>7. passed' \in [Lanes -> 0 .. Barriers] /\ runs' \in [Lanes -> Nat]
    BY SMTT(30)
  <2> QED BY <2>1, <2>2, <2>3, <2>4, <2>5, <2>6, <2>7 DEF TypeOK
<1>5. \A u \in Lanes : ~queues_[u] /\ ~Busy(u)
  BY DEF PhaseInv, Handed, Fresh, Done
<1>2. PhaseInv'
  <2>1. ASSUME NEW u \in Lanes PROVE Fresh(u)' /\ ~Handed(u)'
    BY SMTT(30), <1>5, <1>0 DEF Fresh, Busy, Handed, ByMain, Lanes
  <2> QED BY SMTT(30), <1>5, <2>1 DEF PhaseInv
<1>3. CountInv'
  <2>1. Left' = tasks' /\ Surplus' = 0
    BY SMTT(30), <1>0, <1>5 DEF Left, Surplus, Done, Busy, Lanes
  <2>2. Cardinality(0 .. n - 1) = n
    <3>1. n \in Nat
      BY SMTT(30), <1>0
    <3> QED BY <3>1, IntervalLemma
  <2> QED BY SMTT(30), <1>0, <2>1, <2>2 DEF CountInv
<1>4. SizeInv'
  <2>1. num_task' <= par_size' /\ par_size <= par_size' /\ par_size' \in Nat
    BY <1>0, ReshapeLemma
  <2>2. ASSUME NEW u \in Lanes
        PROVE  /\ Busy(u)' \/ lane'[u] = "record" => ByMain(u)' \/ u < par_size'
               /\ lane'[u] = "spin" => passed'[u] < Barriers
    <3>1. u \in Nat /\ par_size \in Nat
      BY SMTT(30), SizeTypes DEF Lanes
    <3>2. lane'[u] = "record" => ByMain(u) \/ u < par_size
      BY DEF SizeInv
    <3> QED BY SMTT(30), <1>5, <2>1, <3>1, <3>2 DEF Busy, ByMain
  <2> QED BY <2>1, <2>2 DEF SizeInv
<1> QED BY <1>1, <1>2, <1>3, <1>4

LEMMA LaunchInlineInv == ASSUME IInv, LaunchInline PROVE IInv'
<1> USE WorkersAssumption, TaskAssumption
<1> USE DEF IInv, LaunchInline, launcher, pool, main, body
<1>1. TypeOK'
  <2>1. runs' \in [Lanes -> Nat] /\ passed' \in [Lanes -> 0 .. Barriers]
    BY SMTT(30)
  <2>2. launches' \in 0 .. MaxLaunch /\ tasks' \subseteq Lanes
    BY SMTT(30) DEF TypeOK, Lanes
  <2>3. failed' \subseteq Lanes
    BY SMTT(30) DEF Lanes
  <2> QED BY <2>1, <2>2, <2>3 DEF TypeOK
<1>2. PhaseInv'
  BY DEF TypeOK, PhaseInv, Handed, ByMain, Fresh, Queued, Running, Done, Busy, Lanes, Idle
<1>3. CountInv'
  BY DEF CountInv, AtWait
<1>4. SizeInv'
  <2>1. ASSUME NEW u \in Lanes PROVE lane'[u] # "spin" /\ (Busy(u)' <=> Busy(u))
    BY DEF PhaseInv, Handed, Fresh, Done, Busy
  <2> QED BY <2>1 DEF SizeInv, ByMain
<1> QED BY <1>1, <1>2, <1>3, <1>4

LEMMA ResetInv == ASSUME IInv, Reset PROVE IInv'
<1> USE WorkersAssumption, TaskAssumption
<1> USE DEF IInv, Reset, launcher, pool, main, body
<1>1. TypeOK'
  <2>1. killed' \subseteq Lanes /\ exited' \subseteq Lanes
    BY SMTT(30) DEF AllQueues, Lanes
  <2> QED BY <2>1 DEF TypeOK
<1>2. PhaseInv'
  BY DEF TypeOK, PhaseInv, Handed, ByMain, Fresh, Queued, Running, Done, Busy, Lanes, Idle
<1>3. CountInv'
  BY DEF CountInv, AtWait
<1>4. SizeInv'
  BY DEF TypeOK, SizeInv, Busy, ByMain, Lanes
<1> QED BY <1>1, <1>2, <1>3, <1>4

LEMMA PushTaskInv == ASSUME IInv, PushTask PROVE IInv'
<1> USE WorkersAssumption, TaskAssumption
<1> USE DEF IInv, PushTask, launcher, pool, main, body
<1>1. TypeOK'
  <2>1. pushing' \in 0 .. num_workers_
    BY SMTT(30) DEF TypeOK
  <2>2. queues_' \in [Lanes -> BOOLEAN]
    BY DEF TypeOK
  <2> QED BY <2>1, <2>2 DEF TypeOK
<1>5. pushing \in tasks /\ pushing \in Lanes /\ ~ByMain(pushing) /\ Fresh(pushing)
  BY SMTT(30) DEF TypeOK, PhaseInv, Handed, ByMain, Lanes
<1>2. PhaseInv'
  <2>1. ASSUME NEW u \in Lanes
        PROVE  IF ~Handed(u)' THEN Fresh(u)' ELSE Queued(u)' \/ Running(u)' \/ Done(u)'
    <3>1. CASE u = pushing
      BY SMTT(30), <1>5, <3>1 DEF TypeOK, Handed, ByMain, Fresh, Queued, Busy, Lanes
    <3>2. CASE u # pushing
      <4>1. Handed(u)' <=> Handed(u)
        <5>1. u \in Nat /\ pushing \in Nat
          BY SMTT(30), SizeTypes DEF Lanes
        <5>2. u < pushing' <=> u < pushing
          BY SMTT(30), <3>2, <5>1
        <5> QED BY <5>2 DEF Handed, ByMain
      <4> QED BY <3>2, <4>1, LaneTypes DEF PhaseInv, Fresh, Queued, Running, Done, Busy
    <3> QED BY <3>1, <3>2
  <2> QED BY SMTT(30), <1>5, <2>1 DEF TypeOK, PhaseInv, ByMain
<1>3. CountInv'
  <2>1. \A u \in Lanes : Done(u)' <=> Done(u)
    BY SMTT(30), <1>5 DEF TypeOK, Fresh, Queued, Done, Busy
  <2> QED BY <2>1, CountStable
<1>4. SizeInv'
  BY DEF TypeOK, SizeInv, Busy, ByMain, Lanes
<1> QED BY <1>1, <1>2, <1>3, <1>4

LEMMA PushedAllInv == ASSUME IInv, PushedAll PROVE IInv'
<1> USE WorkersAssumption, TaskAssumption
<1> USE DEF IInv, PushedAll, launcher, pool, main, body
<1>1. TypeOK'
  <2>1. lane' \in [Lanes -> {"idle", "run", "spin", "record", "flag"}]
    BY DEF TypeOK
  <2>2. 0 \in Lanes
    BY SMTT(30) DEF Lanes
  <2>3. runs' \in [Lanes -> Nat]
    BY SMTT(30), <2>2 DEF TypeOK
  <2> QED BY <2>1, <2>2, <2>3 DEF TypeOK
<1>2. PhaseInv'
  <2>1. ASSUME NEW u \in Lanes
        PROVE  IF ~Handed(u)' THEN Fresh(u)' ELSE Queued(u)' \/ Running(u)' \/ Done(u)'
    <3>1. CASE ByMain(u)
      <4>1. Fresh(u)
        BY <3>1 DEF PhaseInv, Handed
      <4>2. Running(u)'
        BY SMTT(30), <3>1, <4>1, LaneTypes DEF ByMain, Fresh, Running, Busy
      <4> QED BY <3>1, <4>2 DEF Handed, ByMain
    <3>2. CASE ~ByMain(u)
      <4>0. u \in tasks => u < pushing
        BY SMTT(30) DEF TypeOK, PhaseInv, Lanes
      <4>1. Handed(u)' <=> Handed(u)
        BY <3>2, <4>0 DEF Handed, ByMain
      <4> QED BY <3>2, <4>1 DEF TypeOK, PhaseInv, Fresh, Queued, Running, Done, Busy, ByMain
    <3> QED BY <3>1, <3>2
  <2> QED BY <2>1 DEF TypeOK, PhaseInv, ByMain
<1>3. CountInv'
  <2>1. ASSUME NEW u \in Lanes PROVE Done(u)' <=> Done(u)
    <3>1. CASE ByMain(u)
      <4>1. Fresh(u)
        BY <3>1 DEF PhaseInv, Handed
      <4> QED BY SMTT(30), <3>1, <4>1, LaneTypes DEF ByMain, Fresh, Done, Busy
    <3>2. CASE ~ByMain(u)
      BY <3>2, LaneTypes DEF ByMain, Done, Busy
    <3> QED BY <3>1, <3>2
  <2> QED BY <2>1, CountStable
<1>4. SizeInv'
  BY DEF TypeOK, SizeInv, Busy, ByMain, Lanes
<1> QED BY <1>1, <1>2, <1>3, <1>4

LEMMA WaitReturnsOkInv == ASSUME IInv, WaitReturnsOk PROVE IInv'
<1> USE WorkersAssumption, TaskAssumption
<1> USE DEF IInv, WaitReturnsOk, launcher, pool, main, body
<1>1. TypeOK'
  BY DEF TypeOK
<1>2. PhaseInv'
  <2>1. \A u \in Lanes : IF u \in tasks THEN Done(u) ELSE Fresh(u)
    BY WaitLemma
  <2> QED BY <2>1 DEF PhaseInv, Handed, Fresh, Done, Busy
<1>3. CountInv'
  BY DEF CountInv, AtWait
<1>4. SizeInv'
  BY DEF TypeOK, SizeInv, Busy, ByMain, Lanes
<1> QED BY <1>1, <1>2, <1>3, <1>4

LEMMA WaitReturnsErrorInv == ASSUME IInv, WaitReturnsError PROVE IInv'
<1> USE WorkersAssumption, TaskAssumption
<1> USE DEF IInv, WaitReturnsError, launcher, pool, main, body
<1>1. TypeOK'
  BY SMTT(30) DEF TypeOK
<1>2. PhaseInv'
  <2>1. \A u \in Lanes : IF u \in tasks THEN Done(u) ELSE Fresh(u)
    BY WaitLemma
  <2> QED BY <2>1 DEF PhaseInv, Handed, Fresh, Done, Busy
<1>3. CountInv'
  BY DEF CountInv, AtWait
<1>4. SizeInv'
  BY DEF TypeOK, SizeInv, Busy, ByMain, Lanes
<1> QED BY <1>1, <1>2, <1>3, <1>4

LEMMA ReinitInv == ASSUME IInv, Reinit PROVE IInv'
<1> USE WorkersAssumption, TaskAssumption
<1> USE DEF IInv, Reinit, launcher, pool, main, body
<1>1. TypeOK'
  <2>1. num_workers_used_' \in 0 .. num_workers_
    BY ConfiguredLemma
  <2> QED BY <2>1 DEF TypeOK
<1>2. PhaseInv'
  BY DEF TypeOK, PhaseInv, Handed, ByMain, Fresh, Queued, Running, Done, Busy, Lanes, Idle
<1>3. CountInv'
  BY DEF CountInv, AtWait
<1>4. SizeInv'
  BY DEF TypeOK, SizeInv, Busy, ByMain, Lanes
<1> QED BY <1>1, <1>2, <1>3, <1>4
-----------------------------------------------------------------------------
(* The lanes *)

\* Every action of a lane preserves the invariant.

LEMMA PopTaskInv == ASSUME IInv, NEW t \in Lanes, PopTask(t) PROVE IInv'
<1> USE WorkersAssumption, TaskAssumption
<1> USE DEF IInv, PopTask, launcher, pool, main, body
<1>1. TypeOK'
  BY SMTT(30) DEF TypeOK
<1>5. t \in tasks /\ mpc \in {"push", "wait"} /\ Queued(t) /\ ~ByMain(t)
  BY DEF PhaseInv, Handed, Fresh, Queued, Running, Done
<1>2. PhaseInv'
  <2>1. ASSUME NEW u \in Lanes
        PROVE  IF ~Handed(u)' THEN Fresh(u)' ELSE Queued(u)' \/ Running(u)' \/ Done(u)'
    <3>1. Handed(u)' <=> Handed(u)
      BY DEF Handed, ByMain
    <3>2. CASE u = t
      BY SMTT(30), <1>5, <3>1, <3>2 DEF TypeOK, PhaseInv, Fresh, Queued, Running, Busy
    <3>3. CASE u # t
      BY <1>5, <3>1, <3>3 DEF TypeOK, PhaseInv, Fresh, Queued, Running, Done, Busy
    <3> QED BY <3>2, <3>3
  <2> QED BY <1>5, <2>1 DEF TypeOK, PhaseInv, ByMain
<1>3. CountInv'
  <2>1. \A u \in Lanes : Done(u)' <=> Done(u)
    BY <1>5 DEF TypeOK, Fresh, Queued, Done, Busy
  <2> QED BY <2>1, CountStable
<1>4. SizeInv'
  <2>1. t < par_size
    BY SMTT(30), <1>5 DEF TypeOK, PhaseInv, SizeInv, Lanes
  <2> QED BY <2>1 DEF TypeOK, SizeInv, Busy, ByMain
<1> QED BY <1>1, <1>2, <1>3, <1>4

LEMMA WorkerExitsInv == ASSUME IInv, NEW t \in Lanes, WorkerExits(t) PROVE IInv'
<1> USE WorkersAssumption, TaskAssumption
<1> USE DEF IInv, WorkerExits, launcher, pool, main, body
<1>1. TypeOK'
  BY DEF TypeOK
<1>2. PhaseInv'
  BY DEF TypeOK, PhaseInv, Handed, ByMain, Fresh, Queued, Running, Done, Busy, Lanes, Idle
<1>3. CountInv'
  <2>1. \A u \in Lanes : Done(u)' <=> Done(u)
    BY DEF TypeOK, PhaseInv, Handed, ByMain, Fresh, Done, Busy, Lanes, Idle
  <2> QED BY <2>1, CountStable
<1>4. SizeInv'
  BY DEF TypeOK, SizeInv, Busy, ByMain, Lanes
<1> QED BY <1>1, <1>2, <1>3, <1>4

LEMMA BarrierArriveInv == ASSUME IInv, NEW t \in Lanes, BarrierArrive(t) PROVE IInv'
<1> USE WorkersAssumption, TaskAssumption
<1> USE DEF IInv, BarrierArrive, launcher, pool, main, body
<1>1. TypeOK'
  <2>1. old_counter' \in [Lanes -> Nat]
    BY SMTT(30) DEF TypeOK, Loads
  <2>2. sync_counter_' \in [Lanes -> Nat]
    BY SMTT(30) DEF TypeOK
  <2>3. peer' \in [Lanes -> 0 .. num_workers_]
    BY SMTT(30) DEF TypeOK
  <2> QED BY <2>1, <2>2, <2>3 DEF TypeOK
<1>2. PhaseInv'
  BY ZenonT(60) DEF TypeOK, PhaseInv, Handed, ByMain, Fresh, Queued, Running, Done, Busy, Lanes, Idle
<1>3. CountInv'
  <2>1. \A u \in Lanes : Done(u)' <=> Done(u)
    BY DEF TypeOK, PhaseInv, Handed, ByMain, Fresh, Done, Busy, Lanes, Idle
  <2> QED BY <2>1, CountStable
<1>4. SizeInv'
  BY DEF TypeOK, SizeInv, Busy, ByMain, Lanes
<1> QED BY <1>1, <1>2, <1>3, <1>4

LEMMA BarrierPeerInv == ASSUME IInv, NEW t \in Lanes, BarrierPeer(t) PROVE IInv'
<1> USE WorkersAssumption, TaskAssumption
<1> USE DEF IInv, BarrierPeer, launcher, pool, main, body
<1>1. TypeOK'
  BY SMTT(30) DEF TypeOK
<1>2. PhaseInv'
  BY DEF TypeOK, PhaseInv, Handed, ByMain, Fresh, Queued, Running, Done, Busy, Lanes, Idle
<1>3. CountInv'
  <2>1. \A u \in Lanes : Done(u)' <=> Done(u)
    BY DEF TypeOK, PhaseInv, Handed, ByMain, Fresh, Done, Busy, Lanes, Idle
  <2> QED BY <2>1, CountStable
<1>4. SizeInv'
  BY DEF TypeOK, SizeInv, Busy, ByMain, Lanes
<1> QED BY <1>1, <1>2, <1>3, <1>4

LEMMA BarrierPassInv == ASSUME IInv, NEW t \in Lanes, BarrierPass(t) PROVE IInv'
<1> USE WorkersAssumption, TaskAssumption
<1> USE DEF IInv, BarrierPass, launcher, pool, main, body
<1>1. TypeOK'
  <2>1. passed' \in [Lanes -> 0 .. Barriers]
    BY SMTT(30) DEF TypeOK, SizeInv
  <2> QED BY <2>1 DEF TypeOK
<1>2. PhaseInv'
  BY DEF TypeOK, PhaseInv, Handed, ByMain, Fresh, Queued, Running, Done, Busy, Lanes, Idle
<1>3. CountInv'
  <2>1. \A u \in Lanes : Done(u)' <=> Done(u)
    BY DEF TypeOK, PhaseInv, Handed, ByMain, Fresh, Done, Busy, Lanes, Idle
  <2> QED BY <2>1, CountStable
<1>4. SizeInv'
  BY DEF TypeOK, SizeInv, Busy, ByMain, Lanes
<1> QED BY <1>1, <1>2, <1>3, <1>4

LEMMA SignalJobFinishInv == ASSUME IInv, NEW t \in Lanes, SignalJobFinish(t) PROVE IInv'
<1> USE WorkersAssumption, TaskAssumption
<1> USE DEF IInv, SignalJobFinish, launcher, pool, main, body
<1>0. CountInv' /\ num_pending_' \in -1 .. num_workers_
  BY SignalLemma DEF Busy
<1>1. TypeOK'
  <2>1. num_pending_' \in -1 .. num_workers_
    BY <1>0
  <2> QED BY <2>1 DEF TypeOK
<1>2. PhaseInv'
  BY DEF TypeOK, PhaseInv, Handed, ByMain, Fresh, Queued, Running, Done, Busy, Lanes, Idle
<1>3. CountInv'
  BY <1>0
<1>4. SizeInv'
  BY DEF TypeOK, SizeInv, Busy, ByMain, Lanes
<1> QED BY <1>1, <1>2, <1>3, <1>4

LEMMA SignalJobErrorInv == ASSUME IInv, NEW t \in Lanes, SignalJobError(t) PROVE IInv'
<1> USE WorkersAssumption, TaskAssumption
<1> USE DEF IInv, SignalJobError, launcher, pool, main, body
<1>0. CountInv' /\ num_pending_' \in -1 .. num_workers_
  BY SignalLemma DEF Busy
<1>1. TypeOK'
  <2>1. num_pending_' \in -1 .. num_workers_
    BY <1>0
  <2> QED BY <2>1 DEF TypeOK
<1>2. PhaseInv'
  BY DEF TypeOK, PhaseInv, Handed, ByMain, Fresh, Queued, Running, Done, Busy, Lanes, Idle
<1>3. CountInv'
  BY <1>0
<1>4. SizeInv'
  BY DEF TypeOK, SizeInv, Busy, ByMain, Lanes
<1> QED BY <1>1, <1>2, <1>3, <1>4

\* The entry of par_errors_ that is stored to is there.
LEMMA EntryLemma ==
  \A k, n \in Nat : /\ k > 1 /\ k <= n => k - 1 \in 0 .. n - 1
                    /\ k < n => k \in 0 .. n - 1
  BY SMTT(30)

LEMMA RecordErrorInv == ASSUME IInv, NEW t \in Lanes, RecordError(t) PROVE IInv'
<1> USE WorkersAssumption, TaskAssumption
<1> USE DEF IInv, RecordError, launcher, pool, main, body
<1>1. TypeOK'
  <2>1. par_errors_' \subseteq 0 .. par_size - 1
    <3>1. PICK id \in IF exclude_worker0_ /\ t = 0
                     THEN IF num_task > 1 THEN {num_task - 1} ELSE 0 .. par_size - 1
                     ELSE {t} : par_errors_' = par_errors_ \union {id}
      OBVIOUS
    <3>2. t \in Nat /\ num_task \in Nat /\ par_size \in Nat
      BY SMTT(30) DEF TypeOK, Lanes
    <3>3. (ByMain(t) \/ t < par_size) /\ num_task <= par_size
      BY DEF SizeInv
    <3>4. id \in 0 .. par_size - 1
      <4>1. CASE ByMain(t) /\ num_task > 1
        <5>1. id = num_task - 1
          BY <3>1, <4>1 DEF ByMain
        <5> QED BY <3>2, <3>3, <4>1, <5>1, EntryLemma
      <4>2. CASE ByMain(t) /\ ~(num_task > 1)
        BY <3>1, <4>2 DEF ByMain
      <4>3. CASE ~ByMain(t)
        <5>1. id = t
          BY <3>1, <4>3 DEF ByMain
        <5> QED BY <3>2, <3>3, <4>3, <5>1, EntryLemma
      <4> QED BY <4>1, <4>2, <4>3
    <3> QED BY <3>1, <3>4 DEF TypeOK
  <2> QED BY <2>1 DEF TypeOK
<1>2. PhaseInv'
  BY DEF TypeOK, PhaseInv, Handed, ByMain, Fresh, Queued, Running, Done, Busy, Lanes, Idle
<1>3. CountInv'
  <2>1. \A u \in Lanes : Done(u)' <=> Done(u)
    BY DEF TypeOK, PhaseInv, Handed, ByMain, Fresh, Done, Busy, Lanes, Idle
  <2> QED BY <2>1, CountStable
<1>4. SizeInv'
  BY DEF TypeOK, SizeInv, Busy, ByMain, Lanes
<1> QED BY <1>1, <1>2, <1>3, <1>4

LEMMA FlagErrorInv == ASSUME IInv, NEW t \in Lanes, FlagError(t) PROVE IInv'
<1> USE WorkersAssumption, TaskAssumption
<1> USE DEF IInv, FlagError, launcher, pool, main, body
<1>1. TypeOK'
  BY DEF TypeOK
<1>2. PhaseInv'
  BY ZenonT(60) DEF TypeOK, PhaseInv, Handed, ByMain, Fresh, Queued, Running, Done, Busy, Lanes, Idle
<1>3. CountInv'
  <2>1. \A u \in Lanes : Done(u)' <=> Done(u)
    BY DEF TypeOK, PhaseInv, Handed, ByMain, Fresh, Done, Busy, Lanes, Idle
  <2> QED BY <2>1, CountStable
<1>4. SizeInv'
  BY DEF TypeOK, SizeInv, Busy, ByMain, Lanes
<1> QED BY <1>1, <1>2, <1>3, <1>4

LEMMA StutterInv == ASSUME IInv, UNCHANGED vars PROVE IInv'
<1> USE WorkersAssumption, TaskAssumption
<1> USE DEF IInv, vars, launcher, pool, main, body
<1>1. TypeOK'
  BY DEF TypeOK
<1>2. PhaseInv'
  BY SMTT(30) DEF PhaseInv, Handed, ByMain, Fresh, Queued, Running, Done, Busy
<1>3. CountInv'
  BY DEF CountInv, Left, Surplus, Done, Busy
<1>4. SizeInv'
  BY DEF SizeInv, Busy, ByMain
<1> QED BY <1>1, <1>2, <1>3, <1>4

\* Every step preserves the invariant.
LEMMA StepInv == IInv /\ [Next]_vars => IInv'
  BY ConfigureInv, LaunchInv, LaunchInlineInv, ResetInv, PushTaskInv,
   PushedAllInv, WaitReturnsOkInv, WaitReturnsErrorInv, ReinitInv, PopTaskInv,
   WorkerExitsInv, BarrierArriveInv, BarrierPeerInv, BarrierPassInv,
   SignalJobFinishInv, SignalJobErrorInv, RecordErrorInv, FlagErrorInv,
   StutterInv DEF Next, Main, Lane

----------------------------------------------------------------------------
\* The invariant holds in every state of every behaviour.
THEOREM Invariance == Spec => []IInv
  BY InitInv, StepInv, PTL DEF Spec

\* Type correctness of the pool: among others num_pending_ never exceeds the
\* number of workers and never goes below -1, Configured and Reshape keep the
\* sizes in step with the pool, and every error string is stored at an index
\* that par_errors_ has.
THEOREM TypeCorrect == Spec => []TypeOK
<1>1. IInv => TypeOK
  BY DEF IInv
<1> QED BY <1>1, Invariance, PTL

\* When ThreadPool::Launch has returned, each task of the launch has been run
\* exactly once and none is still in its body, whatever the number of workers
\* and tasks, the failures, and the calls of Reset and config_threadpool before.
THEOREM LaunchIsCompleteHolds == Spec => []LaunchIsComplete
<1>1. IInv => LaunchIsComplete
  BY DEF IInv, PhaseInv, Handed, Fresh, Done, Busy, LaunchIsComplete
<1> QED BY <1>1, Invariance, PTL
-----------------------------------------------------------------------------
(* The barrier *)

\* What the counters say in a launch: each counts the arrivals of its task; a
\* task that spins has seen the peers before peer[t] arrive at its barrier; one
\* that has been let through is not ahead of anybody's arrivals.
SyncInv ==
  mpc \in {"push", "wait"} =>
    \A t \in tasks :
      /\ sync_counter_[t] = Arrived(t)
      /\ runs[t] = 0 => passed[t] = 0
      /\ lane[t] = "spin" =>
            /\ old_counter[t] = passed[t]
            /\ \A u \in tasks : u < peer[t] => passed[t] < Arrived(u)
      /\ lane[t] = "run" => \A u \in tasks : passed[t] <= Arrived(u)

\* While no barrier is passed, and nobody arrives at one, only the task that
\* starts matters.
LEMMA SyncStable ==
  ASSUME TypeOK, SyncInv, mpc' \in {"push", "wait"} => mpc \in {"push", "wait"},
         UNCHANGED <<tasks, sync_counter_, passed, old_counter, peer>>,
         \A t \in tasks : /\ lane'[t] = "spin" <=> lane[t] = "spin"
                          /\ lane'[t] = "run" => lane[t] = "run" \/ passed[t] = 0
                          /\ runs'[t] = 0 => runs[t] = 0
  PROVE  SyncInv'
<1>1. \A t \in tasks : Arrived(t)' = Arrived(t) /\ Arrived(t) \in Nat /\ passed[t] \in Nat
  BY SMTT(30), BarrierTypes DEF Arrived
<1> QED BY SMTT(30), <1>1 DEF SyncInv, Arrived

\* Every step preserves it, as long as the launch has allocated its counters.
LEMMA SyncStep ==
  IInv /\ IInv' /\ CountersAllocated /\ SyncInv /\ [Next]_vars => SyncInv'
<1> SUFFICES ASSUME IInv, IInv', CountersAllocated, SyncInv, [Next]_vars PROVE SyncInv'
  OBVIOUS
<1> USE WorkersAssumption, TaskAssumption
<1> USE DEF IInv
<1>0. \A t \in tasks : /\ t \in Lanes /\ t \in Nat /\ passed[t] \in Nat
                       /\ sync_counter_[t] \in Nat /\ peer[t] \in Nat
                       /\ old_counter[t] \in Nat /\ Arrived(t) \in Nat
  <2> TAKE t \in tasks
  <2>1. t \in Lanes /\ t \in Nat
    BY SMTT(30), BarrierTypes DEF Lanes
  <2> QED BY SMTT(30), <2>1, BarrierTypes DEF Arrived
<1>1. CASE Configure \/ LaunchInline \/ Reset \/ Reinit \/ WaitReturnsOk \/ WaitReturnsError
  BY <1>1 DEF SyncInv, Configure, LaunchInline, Reset, Reinit, WaitReturnsOk,
              WaitReturnsError, main
<1>2. CASE Launch
  <2>1. \A t \in tasks' : /\ t \in Lanes /\ sync_counter_'[t] = 0 /\ passed'[t] = 0
                          /\ lane'[t] \notin {"run", "spin"}
    <3>1. \A t \in Lanes : lane[t] \notin {"run", "spin"}
      BY <1>2 DEF Launch, PhaseInv, Handed, Fresh, Done, Busy
    <3>2. tasks' \subseteq Lanes
      BY DEF TypeOK
    <3>3. PICK n : /\ tasks' = 0 .. n - 1 /\ num_task' = n
                   /\ sync_counter_' = ZeroCounters(n)
      BY <1>2 DEF Launch
    <3>4. n \in Nat
      BY SMTT(30), <3>3 DEF TypeOK
    <3>5. \A t \in tasks' : t < n
      BY SMTT(30), <3>3, <3>4
    <3> QED BY <1>2, <3>1, <3>2, <3>3, <3>5 DEF Launch, ZeroCounters
  <2> QED BY SMTT(30), <2>1 DEF SyncInv, Arrived
<1>3. CASE PushTask
  BY <1>3, SyncStable DEF PushTask, body
<1>4. CASE PushedAll
  <2>1. ByMain(0) => runs[0] = 0
    BY SMTT(30), <1>4 DEF PushedAll, PhaseInv, Handed, Fresh, Lanes
  <2>2. \A t \in tasks : t # 0 \/ ~exclude_worker0_ => lane'[t] = lane[t] /\ runs'[t] = runs[t]
    BY <1>0, <1>4, LaneTypes DEF PushedAll
  <2>3. exclude_worker0_ /\ 0 \in tasks =>
          /\ lane'[0] = "run" /\ runs'[0] = 1 /\ passed[0] = 0 /\ lane[0] # "spin"
    <3> SUFFICES ASSUME exclude_worker0_, 0 \in tasks
                 PROVE  lane'[0] = "run" /\ runs'[0] = 1 /\ passed[0] = 0 /\ lane[0] # "spin"
      OBVIOUS
    <3>1. 0 \in Lanes /\ Fresh(0)
      BY <1>0, <1>4 DEF PushedAll, PhaseInv, Handed, ByMain
    <3>2. passed[0] = 0 /\ lane[0] # "spin"
      BY <1>4, <3>1 DEF PushedAll, SyncInv, Fresh, Busy
    <3>3. lane'[0] = "run" /\ runs'[0] = 1
      BY SMTT(30), <1>4, <3>1, LaneTypes DEF PushedAll, Fresh
    <3> QED BY <3>2, <3>3
  <2> QED BY SMTT(30), <1>4, <2>2, <2>3, SyncStable DEF PushedAll
<1>5. ASSUME NEW t \in Lanes, PopTask(t) PROVE SyncInv'
  <2>1. runs[t] = 0 /\ t \in tasks /\ mpc \in {"push", "wait"}
    BY <1>5 DEF PopTask, PhaseInv, Handed, Fresh, Queued, Running, Done, ByMain
  <2>2. passed[t] = 0 /\ lane[t] = "idle"
    BY <1>5, <2>1 DEF PopTask, SyncInv, Idle
  <2> QED BY <1>5, <2>1, <2>2, SyncStable DEF PopTask, TypeOK, main
<1>6. ASSUME NEW t \in Lanes,
             WorkerExits(t) \/ SignalJobFinish(t) \/ SignalJobError(t) \/ RecordError(t)
               \/ FlagError(t)
      PROVE  SyncInv'
  <2>1. \A u \in tasks : /\ lane'[u] = "spin" <=> lane[u] = "spin"
                         /\ lane'[u] = "run" => lane[u] = "run"
    BY <1>0, <1>6 DEF WorkerExits, SignalJobFinish, SignalJobError, RecordError, FlagError,
                      body, TypeOK
  <2> QED BY <1>6, <2>1, SyncStable
          DEF WorkerExits, SignalJobFinish, SignalJobError, RecordError, FlagError,
              body, main
<1>7. ASSUME NEW t \in Lanes, BarrierArrive(t) \/ BarrierPeer(t) \/ BarrierPass(t)
      PROVE  SyncInv'
  <2>1. /\ Busy(t) /\ UNCHANGED <<runs, tasks, mpc, num_task>>
    BY <1>7 DEF BarrierArrive, BarrierPeer, BarrierPass, Busy, launcher, main
  <2>2. /\ mpc \in {"push", "wait"} /\ tasks = 0 .. num_task - 1 /\ num_task \in Nat
        /\ t \in tasks \/ num_task = 0
    <3>1. num_task \in Nat
      BY SizeTypes
    <3> QED BY <2>1, <3>1, RunningLemma
  <2>3. CASE num_task = 0
    BY SMTT(30), <2>1, <2>2, <2>3 DEF SyncInv
  <2>4. ASSUME NEW u \in tasks PROVE Loads(u) = {Arrived(u)}
    <3>1. u < num_task /\ num_task <= sync_size /\ sync_size \in Nat
      BY SMTT(30), <1>0, <2>2, SizeTypes DEF CountersAllocated
    <3>2. u < sync_size
      BY SMTT(30), <1>0, <2>2, <3>1
    <3> QED BY <2>2, <3>2 DEF Loads, SyncInv
  <2>5. CASE t \in tasks /\ BarrierArrive(t)
    <3>1. /\ old_counter' = [old_counter EXCEPT ![t] = passed[t]]
          /\ sync_counter_' = [sync_counter_ EXCEPT ![t] = @ + 1]
          /\ peer' = [peer EXCEPT ![t] = 0] /\ lane' = [lane EXCEPT ![t] = "spin"]
          /\ passed' = passed /\ lane[t] = "run"
      <4>1. Arrived(t) = passed[t]
        BY SMTT(30), <1>0, <2>5 DEF BarrierArrive, Arrived
      <4> QED BY <2>4, <2>5, <4>1 DEF BarrierArrive
    <3>2. \A u \in tasks : Arrived(u)' = IF u = t THEN Arrived(u) + 1 ELSE Arrived(u)
      BY SMTT(30), <1>0, <3>1, BarrierTypes DEF Arrived
    <3>3. /\ old_counter'[t] = passed[t] /\ sync_counter_'[t] = sync_counter_[t] + 1
          /\ peer'[t] = 0 /\ lane'[t] = "spin"
      BY <1>0, <2>5, <3>1, BarrierTypes
    <3>4. \A u \in tasks : u # t =>
             /\ old_counter'[u] = old_counter[u] /\ sync_counter_'[u] = sync_counter_[u]
             /\ peer'[u] = peer[u] /\ lane'[u] = lane[u]
      BY <1>0, <2>5, <3>1, BarrierTypes
    <3>5. runs[t] # 0
      BY SMTT(30), <2>1, RunningLemma DEF Running
    <3>6. \A u \in tasks : Arrived(u)' \in Nat /\ Arrived(u) <= Arrived(u)'
      BY SMTT(30), <1>0, <3>2
    <3>7. \A u \in tasks : sync_counter_'[u] = Arrived(u)'
      BY SMTT(30), <1>0, <2>2, <2>5, <3>2, <3>3, <3>4 DEF SyncInv
    <3>8. \A u \in tasks, w \in tasks :
            lane'[u] = "spin" /\ w < peer'[u] => passed[u] < Arrived(w)'
      <4> TAKE u \in tasks, w \in tasks
      <4>1. CASE u = t
        BY SMTT(30), <1>0, <3>3, <4>1
      <4>2. CASE u # t
        <5>1. lane'[u] = "spin" /\ w < peer'[u] => passed[u] < Arrived(w)
          BY <2>2, <3>4, <4>2 DEF SyncInv
        <5>2. Arrived(w) \in Nat /\ Arrived(w)' \in Nat /\ Arrived(w) <= Arrived(w)'
          BY <1>0, <3>6
        <5> QED BY SMTT(30), <1>0, <5>1, <5>2
      <4> QED BY <4>1, <4>2
    <3>9. \A u \in tasks, w \in tasks : lane'[u] = "run" => passed[u] <= Arrived(w)'
      <4> TAKE u \in tasks, w \in tasks
      <4>1. lane'[u] = "run" => passed[u] <= Arrived(w)
        BY SMTT(30), <2>2, <3>3, <3>4 DEF SyncInv
      <4>2. Arrived(w) \in Nat /\ Arrived(w)' \in Nat /\ Arrived(w) <= Arrived(w)'
        BY <1>0, <3>6
      <4> QED BY SMTT(30), <1>0, <4>1, <4>2
    <3>10. \A u \in tasks : runs'[u] = 0 => passed'[u] = 0
      <4>1. \A u \in tasks : runs[u] = 0 => passed[u] = 0
        BY <2>2 DEF SyncInv
      <4> QED BY <2>1, <3>1, <4>1
    <3>11. \A u \in tasks : lane'[u] = "spin" => old_counter'[u] = passed'[u]
      <4>1. \A u \in tasks : lane[u] = "spin" => old_counter[u] = passed[u]
        BY <2>2 DEF SyncInv
      <4> QED BY ZenonT(60), <3>1, <3>3, <3>4, <4>1
    <3>12. tasks' = tasks /\ passed' = passed
      BY <2>1, <3>1
    <3> QED BY <3>7, <3>8, <3>9, <3>10, <3>11, <3>12 DEF SyncInv
  <2>6. CASE t \in tasks /\ BarrierPeer(t)
    <3>1. peer[t] \in tasks /\ peer' = [peer EXCEPT ![t] = @ + 1] /\ lane[t] = "spin"
          /\ UNCHANGED <<old_counter, lane, passed, sync_counter_>>
      <4>1. peer[t] \in Nat /\ peer[t] < num_task
        BY <1>0, <2>6 DEF BarrierPeer
      <4> QED BY SMTT(30), <2>2, <2>6, <4>1 DEF BarrierPeer
    <3>2. passed[t] < Arrived(peer[t])
      <4>1. CASE peer[t] = t
        BY SMTT(30), <1>0, <2>6, <3>1, <4>1 DEF Arrived
      <4>2. CASE PeerArrived(t)
        BY SMTT(30), <1>0, <2>2, <2>4, <2>6, <3>1, <4>2 DEF PeerArrived, SyncInv
      <4> QED BY <2>6, <4>1, <4>2 DEF BarrierPeer
    <3>3. \A u \in tasks : Arrived(u)' = Arrived(u)
      BY <3>1 DEF Arrived
    <3>4. \A u \in tasks : u < peer'[t] => u < peer[t] \/ u = peer[t]
      BY SMTT(30), <1>0, <2>6, <3>1, BarrierTypes
    <3>5. \A u \in tasks : u # t => peer'[u] = peer[u]
      BY <1>0, <3>1, BarrierTypes
    <3> QED BY SMTT(30), <1>0, <2>1, <2>2, <2>6, <3>1, <3>2, <3>3, <3>4, <3>5 DEF SyncInv
  <2>7. CASE t \in tasks /\ BarrierPass(t)
    <3>1. /\ passed' = [passed EXCEPT ![t] = @ + 1] /\ lane' = [lane EXCEPT ![t] = "run"]
          /\ lane[t] = "spin" /\ UNCHANGED <<old_counter, peer, sync_counter_>>
          /\ peer[t] >= num_task
      BY <2>7 DEF BarrierPass
    <3>2. \A u \in tasks : Arrived(u)' = Arrived(u)
      BY SMTT(30), <1>0, <3>1, BarrierTypes DEF Arrived
    <3>3. \A u \in tasks : passed[t] < Arrived(u)
      BY SMTT(30), <1>0, <2>2, <2>7, <3>1 DEF SyncInv
    <3>4. runs[t] # 0
      BY SMTT(30), <2>1, RunningLemma DEF Running
    <3>5. passed'[t] = passed[t] + 1 /\ lane'[t] = "run"
          /\ \A u \in tasks : u # t => passed'[u] = passed[u] /\ lane'[u] = lane[u]
      BY <1>0, <2>7, <3>1, BarrierTypes
    <3>6. \A u \in tasks : sync_counter_'[u] = Arrived(u)'
      BY <2>2, <3>1, <3>2 DEF SyncInv
    <3>7. \A u \in tasks : runs'[u] = 0 => passed'[u] = 0
      BY <2>1, <2>2, <3>4, <3>5 DEF SyncInv
    <3>8. ASSUME NEW u \in tasks, lane'[u] = "spin"
          PROVE  /\ old_counter'[u] = passed'[u]
                 /\ \A w \in tasks : w < peer'[u] => passed'[u] < Arrived(w)'
      <4>1. u # t
        BY <3>5, <3>8
      <4> QED BY SMTT(30), <2>2, <3>1, <3>2, <3>5, <3>8, <4>1 DEF SyncInv
    <3>9. ASSUME NEW u \in tasks, lane'[u] = "run", NEW w \in tasks
          PROVE  passed'[u] <= Arrived(w)'
      <4>1. CASE u = t
        BY SMTT(30), <1>0, <3>2, <3>3, <3>5, <4>1
      <4>2. CASE u # t
        BY <2>2, <3>2, <3>5, <3>9, <4>2 DEF SyncInv
      <4> QED BY <4>1, <4>2
    <3> QED BY <2>1, <3>6, <3>7, <3>8, <3>9 DEF SyncInv
  <2> QED BY <1>7, <2>2, <2>3, <2>5, <2>6, <2>7
<1>8. CASE UNCHANGED vars
  BY <1>8, SyncStable DEF vars, main, body
<1> QED BY <1>1, <1>2, <1>3, <1>4, <1>5, <1>6, <1>7, <1>8 DEF Next, Main, Lane

\* TVMBackendParallelBarrier separates the phases of the tasks for every number
\* of tasks and of barriers, with failing tasks and from launch to launch,
\* provided ParallelLauncher::Init has allocated a counter for every task of a
\* launch (which the run barrier_counters shows it may fail to do).
THEOREM BarrierIsABarrier == Spec /\ []CountersAllocated => []BarrierHolds
<1>1. Init => SyncInv
  BY DEF Init, SyncInv
<1>2. IInv /\ SyncInv => BarrierHolds
  <2> SUFFICES ASSUME IInv, SyncInv, NEW t \in tasks, NEW u \in tasks, lane[t] = "run"
               PROVE  passed[t] <= Arrived(u)
    BY DEF BarrierHolds
  <2>1. mpc \in {"push", "wait"}
    BY RunningLemma DEF IInv, TypeOK, Busy
  <2> QED BY <2>1 DEF SyncInv
<1> QED BY <1>1, <1>2, SyncStep, Invariance, PTL DEF Spec
=============================================================================
