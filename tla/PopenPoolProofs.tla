-------------------------- MODULE PopenPoolProofs ---------------------------
(***************************************************************************)
(* Proofs about PopenPool, for every number of threads and tasks, with and *)
(* without an initializer, a timeout and a bound on the uses of a process: *)
(* the inductive invariant, that the steps of the child processes and those *)
(* of the threads of the pool keep it, and the theorems.                   *)
(***************************************************************************)
EXTENDS PopenPool, FiniteSetTheorems, TLAPS

\* A leaf goes to Zenon unless it names another prover.
USE Zenon

Statuses == {"new", "RUNNING", "COMPLETE", "TIMEOUT"}
Timers == {"none", "armed", "fired", "respond", "unlock", "over"}
IsMap(f) == f = [w \in Workers |-> f[w]]

\* What the argument needs of the types.
ShapeInv ==
  /\ outcome = [t \in Tasks |-> outcome[t]]
  /\ IsMap(pc) /\ IsMap(job) /\ IsMap(toChild) /\ IsMap(fromChild)
  /\ IsMap(alive) /\ IsMap(main) /\ IsMap(cur) /\ IsMap(lock)
  /\ ret_value \in [Workers -> {"COMPLETE", "EXCEPTION"}]
  /\ status \in [Workers -> [Jobs -> Statuses]]
  /\ timer \in [Workers -> [Jobs -> Timers]]

\* A task without a result is in the queue of the pool or with one thread.
JobInv ==
  /\ todo \subseteq Tasks
  /\ \A t \in todo : outcome[t].kind = "none"
  /\ \A w \in Workers : pc[w] # "idle" =>
       job[w] \in Tasks /\ job[w] \notin todo /\ outcome[job[w]].kind = "none"
  /\ \A v, w \in Workers : v # w /\ pc[v] # "idle" /\ pc[w] # "idle" => job[v] # job[w]

\* The timer of a task that has no result yet belongs to the answer that is awaited.
TimerInv ==
  \A w \in Workers, t \in Tasks : timer[w][t] # "none" =>
    outcome[t].kind # "none" \/ (pc[w] = "recv" /\ job[w] = t /\ toChild[w] = <<>>)

\* The job whose answer the thread waits for.
Expected(w) == IF pc[w] = "init" THEN Init_ ELSE job[w]

NothingRuns(w) == \A j \in Jobs : status[w][j] # "RUNNING"

\* The job is on its way to the child, runs there, or has been answered, once.
Sent(w) ==
  /\ toChild[w] = <<Expected(w)>> /\ fromChild[w] = <<>>
  /\ main[w] = "read" /\ NothingRuns(w) /\ timer[w][Expected(w)] = "none"

Running(w) ==
  /\ toChild[w] = <<>> /\ fromChild[w] = <<>>
  /\ main[w] \in {"run", "cancel", "lock", "respond"} /\ cur[w] = Expected(w)
  /\ status[w][Expected(w)] = "RUNNING"
  /\ \A j \in Jobs \ {Expected(w)} : status[w][j] # "RUNNING"

Responded(w) ==
  /\ toChild[w] = <<>>
  /\ \E k \in {"COMPLETE", "EXCEPTION", "TIMEOUT"} :
       /\ fromChild[w] = <<[kind |-> k, of |-> Expected(w)]>>
       /\ k # "TIMEOUT" => main[w] = "read"
  /\ main[w] # "read" => cur[w] = Expected(w)
  /\ NothingRuns(w)

\* What is left of a child that died.
Broken(w) ==
  /\ toChild[w] = <<>>
  /\ \/ fromChild[w] = <<>>
     \/ \E k \in Kinds : fromChild[w] = <<[kind |-> k, of |-> Expected(w)]>>

StageInv(w) ==
  IF pc[w] \in {"init", "recv"}
  THEN IF alive[w] THEN Sent(w) \/ Running(w) \/ Responded(w) ELSE Broken(w)
  ELSE /\ toChild[w] = <<>> /\ fromChild[w] = <<>>
       /\ alive[w] => main[w] = "read" /\ NothingRuns(w)

\* Of the child's threads only the one with the lock answers, and only for a task
\* that is not answered.
LockInv(w) ==
  alive[w] =>
    /\ main[w] \in {"respond", "unlock"} <=> lock[w] = Main
    /\ \A t \in Tasks : /\ timer[w][t] \in {"respond", "unlock"} <=> lock[w] = t
                        /\ timer[w][t] = "respond" => status[w][t] = "RUNNING"
    /\ main[w] = "respond" => status[w][cur[w]] = "RUNNING"

IInv ==
  /\ ShapeInv /\ JobInv /\ TimerInv /\ OwnResult
  /\ \A w \in Workers : StageInv(w) /\ LockInv(w)

-----------------------------------------------------------------------------
LEMMA OneAnswer ==
  \A x : /\ Append(<<>>, x) = <<x>> /\ Head(<<x>>) = x /\ Tail(<<x>>) = <<>>
         /\ <<x>> # <<>> /\ Len(<<x>>) <= 1 /\ Len(<<>>) <= 1
BY SMTT(30)

LEMMA Names ==
  /\ Init_ \in Jobs /\ Init_ \notin Tasks /\ Tasks \subseteq Jobs
  /\ Main # Nobody /\ Main \notin Tasks /\ Nobody \notin Tasks
  /\ \A j \in Jobs : j # Init_ => j \in Tasks
BY PoolAssumption DEF Jobs, Main, Nobody

LEMMA TimerSet ==
  ASSUME ShapeInv, NEW w \in Workers, NEW j \in Jobs, NEW x \in Timers
  PROVE  [timer EXCEPT ![w][j] = x] \in [Workers -> [Jobs -> Timers]]
BY DEF ShapeInv

LEMMA StatusSet ==
  ASSUME ShapeInv, NEW w \in Workers, NEW j \in Jobs, NEW x \in Statuses
  PROVE  [status EXCEPT ![w][j] = x] \in [Workers -> [Jobs -> Statuses]]
BY DEF ShapeInv

LEMMA InitInv == Init => IInv
<1> SUFFICES ASSUME Init PROVE IInv
  OBVIOUS
<1> USE DEF Init
<1>1. ShapeInv
  BY DEF ShapeInv, IsMap, Statuses, Timers
<1>2. JobInv /\ OwnResult
  BY DEF JobInv, OwnResult, NoOutcome
<1>3. TimerInv
  BY Names DEF TimerInv
<1>4. \A w \in Workers : StageInv(w) /\ LockInv(w)
  BY DEF StageInv, LockInv
<1> QED BY <1>1, <1>2, <1>3, <1>4 DEF IInv

\* A step of one thread or its child leaves the others alone.
Others(w) ==
  \A v \in Workers \ {w} :
    /\ pc'[v] = pc[v] /\ job'[v] = job[v]
    /\ toChild'[v] = toChild[v] /\ fromChild'[v] = fromChild[v]
    /\ alive'[v] = alive[v] /\ main'[v] = main[v] /\ cur'[v] = cur[v]
    /\ status'[v] = status[v] /\ timer'[v] = timer[v] /\ lock'[v] = lock[v]

LEMMA SameInv ==
  ASSUME NEW v, StageInv(v), LockInv(v),
         pc'[v] = pc[v], job'[v] = job[v],
         toChild'[v] = toChild[v], fromChild'[v] = fromChild[v],
         alive'[v] = alive[v], main'[v] = main[v], cur'[v] = cur[v],
         status'[v] = status[v], timer'[v] = timer[v], lock'[v] = lock[v]
  PROVE  StageInv(v)' /\ LockInv(v)'
<1>1. LockInv(v)'
  BY SMTT(30) DEF LockInv
<1>2. Expected(v)' = Expected(v) /\ NothingRuns(v)' = NothingRuns(v)
  BY DEF Expected, NothingRuns
<1>3. Sent(v) => Sent(v)'
  BY <1>2 DEF Sent
<1>4. Running(v) => Running(v)'
  BY <1>2 DEF Running
<1>5. Responded(v) => Responded(v)'
  BY <1>2 DEF Responded
<1>6. Broken(v) => Broken(v)'
  BY <1>2 DEF Broken
<1> QED BY <1>1, <1>2, <1>3, <1>4, <1>5, <1>6 DEF StageInv

LEMMA OthersInv ==
  ASSUME IInv, NEW w \in Workers, Others(w), StageInv(w)', LockInv(w)'
  PROVE  \A v \in Workers : StageInv(v)' /\ LockInv(v)'
BY SameInv DEF IInv, Others

-----------------------------------------------------------------------------
(* The child's steps *)

LEMMA ChildInv ==
  ASSUME IInv, NEW w \in Workers, UNCHANGED parentVars, ShapeInv',
         Others(w), StageInv(w)', LockInv(w)',
         toChild[w] = <<>> => toChild'[w] = <<>>,
         \A t \in Tasks : timer'[w][t] # "none" =>
           timer[w][t] # "none" \/ (toChild'[w] = <<>> /\ pc[w] = "recv" /\ job[w] = t)
  PROVE  IInv'
<1>1. JobInv' /\ OwnResult'
  BY SMTT(30) DEF IInv, JobInv, OwnResult, parentVars
<1>2. TimerInv'
  BY SMTT(30) DEF IInv, TimerInv, parentVars, Others
<1>3. \A v \in Workers : StageInv(v)' /\ LockInv(v)'
  BY OthersInv
<1> QED BY <1>1, <1>2, <1>3 DEF IInv

\* A child that has something to do has been sent the job that is expected.
LEMMA Busy ==
  ASSUME IInv, NEW w \in Workers, alive[w]
  PROVE  /\ toChild[w] # <<>> => pc[w] \in {"init", "recv"} /\ Sent(w)
         /\ main[w] # "read" => pc[w] \in {"init", "recv"} /\ (Running(w) \/ Responded(w))
         /\ \A j \in Jobs : status[w][j] = "RUNNING" =>
              pc[w] \in {"init", "recv"} /\ Running(w) /\ j = Expected(w)
         /\ pc[w] \in {"init", "recv"} => Expected(w) \in Jobs
BY Names DEF IInv, StageInv, JobInv, Sent, Running, Responded, Expected, NothingRuns

LEMMA ReadInv ==
  ASSUME IInv, NEW w \in Workers, ChildRead(w)
  PROVE  IInv'
<1> DEFINE E == Expected(w)
<1>1. /\ alive[w] /\ main[w] = "read" /\ Sent(w) /\ pc[w] \in {"init", "recv"} /\ E \in Jobs
  BY Busy DEF ChildRead
<1>2. toChild[w] = <<E>> /\ Head(toChild[w]) = E /\ Tail(toChild[w]) = <<>>
  BY <1>1, OneAnswer DEF Sent
<1>3. PICK a \in {"armed", "none"} :
        /\ timer' = [timer EXCEPT ![w][E] = a]
        /\ toChild' = [toChild EXCEPT ![w] = <<>>]
        /\ cur' = [cur EXCEPT ![w] = E]
        /\ status' = [status EXCEPT ![w][E] = "RUNNING"]
        /\ main' = [main EXCEPT ![w] = "run"]
        /\ UNCHANGED <<parentSide, alive, ret_value, lock, fromChild>>
        /\ E = Init_ => a = "none"
  BY <1>2 DEF ChildRead
<1>4. ShapeInv'
  BY <1>1, <1>3 DEF IInv, ShapeInv, IsMap, Statuses, Timers, parentSide, parentVars
<1>5. /\ Others(w)
      /\ toChild'[w] = <<>> /\ cur'[w] = E /\ main'[w] = "run"
      /\ status'[w] = [status[w] EXCEPT ![E] = "RUNNING"]
      /\ timer'[w] = [timer[w] EXCEPT ![E] = a]
      /\ UNCHANGED <<pc, job, alive, lock, fromChild>>
  BY <1>1, <1>3 DEF IInv, ShapeInv, IsMap, Others, parentSide, parentVars
<1>6. status[w] \in [Jobs -> Statuses] /\ timer[w] \in [Jobs -> Timers]
  BY DEF IInv, ShapeInv
<1>7. StageInv(w)'
  BY SMTT(30), <1>1, <1>5, <1>6 DEF StageInv, Sent, Running, Expected, NothingRuns
<1>8. LockInv(w)'
  <2>1. LockInv(w) /\ timer[w][E] = "none"
    BY <1>1 DEF IInv, Sent
  <2>2. \A t \in Tasks : /\ timer'[w][t] \in {"respond", "unlock"} <=> lock'[w] = t
                         /\ timer'[w][t] = "respond" => status'[w][t] = "RUNNING"
    BY SMTT(30), <1>1, <1>5, <1>6, <2>1, Names DEF LockInv
  <2> QED BY <1>1, <1>5, <2>1, <2>2 DEF LockInv
<1>9. \A t \in Tasks : timer'[w][t] # "none" =>
        timer[w][t] # "none" \/ (toChild'[w] = <<>> /\ pc[w] = "recv" /\ job[w] = t)
  BY SMTT(30), <1>1, <1>3, <1>5, <1>6, Names DEF Expected
<1> QED BY <1>3, <1>4, <1>5, <1>7, <1>8, <1>9, ChildInv DEF parentSide

LEMMA RunInv ==
  ASSUME IInv, NEW w \in Workers, ChildFinish(w) \/ ChildCancel(w)
  PROVE  IInv'
<1>1. /\ alive[w] /\ main[w] \in {"run", "cancel"} /\ pc[w] \in {"init", "recv"}
      /\ Running(w) \/ Responded(w)
      /\ cur[w] = Expected(w) /\ cur[w] \in Jobs
  BY Busy DEF ChildFinish, ChildCancel, Running, Responded
<1>2. PICK m \in {"cancel", "lock"} :
        /\ main' = [main EXCEPT ![w] = m]
        /\ \/ timer' = timer
           \/ /\ timer[w][cur[w]] = "armed"
              /\ timer' = [timer EXCEPT ![w][cur[w]] = "over"]
        /\ ret_value' \in [Workers -> {"COMPLETE", "EXCEPTION"}]
        /\ UNCHANGED <<parentSide, alive, cur, status, lock, toChild, fromChild>>
  <2>1. CASE ChildFinish(w)
    BY <2>1 DEF ChildFinish, IInv, ShapeInv
  <2>2. CASE ChildCancel(w)
    BY <1>1, <2>2 DEF ChildCancel, IInv, ShapeInv
  <2> QED BY <2>1, <2>2
<1>3. ShapeInv'
  <2>1. timer' \in [Workers -> [Jobs -> Timers]]
    <3>1. timer \in [Workers -> [Jobs -> Timers]] /\ ShapeInv /\ "over" \in Timers
      BY DEF IInv, ShapeInv, Timers
    <3>2. [timer EXCEPT ![w][cur[w]] = "over"] \in [Workers -> [Jobs -> Timers]]
      BY <1>1, <3>1, TimerSet
    <3> QED BY ZenonT(60), <1>2, <3>1, <3>2
  <2> QED BY <1>2, <2>1 DEF IInv, ShapeInv, IsMap, parentSide, parentVars
<1>4. /\ Others(w) /\ main'[w] = m
      /\ UNCHANGED <<pc, job, alive, cur, status, lock, toChild, fromChild>>
      /\ \A t \in Tasks : timer'[w][t] = timer[w][t]
                          \/ (timer[w][t] = "armed" /\ timer'[w][t] = "over")
  BY SMTT(30), <1>1, <1>2, Names DEF IInv, ShapeInv, IsMap, Others, parentSide, parentVars
<1>5. StageInv(w)'
  BY <1>1, <1>4 DEF StageInv, Running, Responded, Expected, NothingRuns
<1>6. LockInv(w)'
  BY SMTT(30), <1>1, <1>4 DEF IInv, LockInv
<1> QED BY <1>2, <1>3, <1>4, <1>5, <1>6, ChildInv DEF parentSide

LEMMA LockedInv ==
  ASSUME IInv, NEW w \in Workers, ChildLock(w)
  PROVE  IInv'
<1>1. /\ alive[w] /\ main[w] = "lock" /\ pc[w] \in {"init", "recv"} /\ lock[w] = Nobody
      /\ Running(w) \/ Responded(w)
      /\ cur[w] = Expected(w) /\ cur[w] \in Jobs
  BY Busy DEF ChildLock, LockFree, Running, Responded
<1>2. PICK m \in {"respond", "unlock"} :
        /\ main' = [main EXCEPT ![w] = m]
        /\ m = "respond" <=> status[w][cur[w]] = "RUNNING"
        /\ lock' = [lock EXCEPT ![w] = Main]
        /\ UNCHANGED <<parentSide, alive, cur, ret_value, status, timer, toChild, fromChild>>
  BY DEF ChildLock
<1>3. ShapeInv'
  BY <1>2 DEF IInv, ShapeInv, IsMap, parentSide, parentVars
<1>4. /\ Others(w) /\ main'[w] = m /\ lock'[w] = Main
      /\ UNCHANGED <<pc, job, alive, cur, status, timer, toChild, fromChild>>
  BY <1>2 DEF IInv, ShapeInv, IsMap, Others, parentSide, parentVars
<1>5. StageInv(w)'
  BY <1>1, <1>2, <1>4 DEF StageInv, Running, Responded, Expected, NothingRuns
<1>6. LockInv(w)'
  BY SMTT(30), <1>1, <1>2, <1>4, Names DEF IInv, LockInv
<1> QED BY <1>2, <1>3, <1>4, <1>5, <1>6, ChildInv DEF parentSide

LEMMA RespondInv ==
  ASSUME IInv, NEW w \in Workers, ChildRespond(w)
  PROVE  IInv'
<1> DEFINE E == Expected(w)
<1>1. /\ alive[w] /\ main[w] \in {"respond", "unlock"} /\ pc[w] \in {"init", "recv"}
      /\ cur[w] = E /\ E \in Jobs /\ lock[w] = Main
      /\ main[w] = "respond" => Running(w)
      /\ main[w] = "unlock" => Responded(w)
  BY SMTT(30), Busy DEF ChildRespond, Running, Responded, IInv, LockInv
<1>2. /\ lock' = [lock EXCEPT ![w] = Nobody]
      /\ main' = [main EXCEPT ![w] = "read"]
      /\ UNCHANGED <<parentSide, alive, cur, ret_value, timer, toChild>>
      /\ main[w] = "unlock" => UNCHANGED <<fromChild, status>>
      /\ main[w] = "respond" =>
           /\ fromChild' = [fromChild EXCEPT ![w] =
                              Append(fromChild[w], [kind |-> ret_value[w], of |-> E])]
           /\ status' = [status EXCEPT ![w][E] = "COMPLETE"]
  BY <1>1 DEF ChildRespond
<1>3. ShapeInv'
  <2>1. IsMap(fromChild)' /\ (status \in [Workers -> [Jobs -> Statuses]])'
    <3>1. CASE main[w] = "unlock"
      BY <1>2, <3>1 DEF IInv, ShapeInv, IsMap
    <3>2. CASE main[w] = "respond"
      <4>1. [status EXCEPT ![w][E] = "COMPLETE"] \in [Workers -> [Jobs -> Statuses]]
        BY <1>1, StatusSet DEF IInv, Statuses
      <4> QED BY <1>2, <3>2, <4>1 DEF IInv, ShapeInv, IsMap
    <3> QED BY <1>1, <3>1, <3>2
  <2> QED BY <1>2, <2>1 DEF IInv, ShapeInv, IsMap, parentSide, parentVars
<1>4. /\ Others(w) /\ main'[w] = "read" /\ lock'[w] = Nobody
      /\ UNCHANGED <<pc, job, alive, cur, timer, toChild>>
      /\ main[w] = "unlock" => UNCHANGED <<fromChild, status>>
      /\ main[w] = "respond" =>
           /\ fromChild'[w] = <<[kind |-> ret_value[w], of |-> E]>>
           /\ status'[w] = [status[w] EXCEPT ![E] = "COMPLETE"]
  <2> USE DEF IInv, ShapeInv, IsMap
  <2>1. CASE main[w] = "unlock"
    BY <1>2, <2>1 DEF Others, parentSide, parentVars
  <2>2. CASE main[w] = "respond"
    <3>1. fromChild[w] = <<>>
      BY <1>1, <2>2 DEF Running
    <3> QED BY SMTT(30), <1>2, <2>2, <3>1, OneAnswer DEF Others, parentSide, parentVars
  <2> QED BY <1>1, <2>1, <2>2
<1>5. status[w] \in [Jobs -> Statuses] /\ ret_value[w] \in {"COMPLETE", "EXCEPTION"}
  BY DEF IInv, ShapeInv
<1>6. Responded(w)'
  <2>1. CASE main[w] = "unlock"
    BY <1>1, <1>4, <2>1 DEF Responded, Expected, NothingRuns
  <2>2. CASE main[w] = "respond"
    <3>1. Expected(w)' = E /\ NothingRuns(w)' /\ toChild'[w] = <<>>
      BY SMTT(30), <1>1, <1>4, <1>5, <2>2 DEF Running, Expected, NothingRuns
    <3> QED BY <1>4, <1>5, <2>2, <3>1 DEF Responded
  <2> QED BY <1>1, <2>1, <2>2
<1>7. StageInv(w)'
  BY <1>1, <1>4, <1>6 DEF StageInv
<1>8. LockInv(w)'
  <2>1. LockInv(w)
    BY DEF IInv
  <2>2. \A u \in Tasks : timer'[w][u] = timer[w][u] /\ timer[w][u] \notin {"respond", "unlock"}
    BY <1>1, <1>4, <2>1, Names DEF LockInv
  <2> QED BY <1>4, <2>2, Names DEF LockInv
<1> QED BY <1>2, <1>3, <1>4, <1>7, <1>8, ChildInv DEF parentSide

\* A timer that fires, or takes the lock.
LEMMA TimerInvs ==
  ASSUME IInv, NEW w \in Workers, NEW t \in Tasks, TimerFires(w, t) \/ TimerLock(w, t)
  PROVE  IInv'
<1>1. PICK x \in {"fired", "respond", "unlock"} :
        /\ alive[w] /\ timer[w][t] \in {"armed", "fired"}
        /\ timer' = [timer EXCEPT ![w][t] = x]
        /\ x = "respond" => status[w][t] = "RUNNING"
        /\ IF x = "fired" THEN lock' = lock
                          ELSE lock[w] = Nobody /\ lock' = [lock EXCEPT ![w] = t]
        /\ UNCHANGED <<parentSide, alive, main, cur, ret_value, status, toChild, fromChild>>
  BY DEF TimerFires, TimerLock, LockFree, Watches
<1>2. ShapeInv'
  <2>1. (timer \in [Workers -> [Jobs -> Timers]])'
    BY <1>1, TimerSet, Names DEF IInv, Timers
  <2> QED BY <1>1, <2>1 DEF IInv, ShapeInv, IsMap, parentSide, parentVars
<1>3. /\ Others(w) /\ timer'[w] = [timer[w] EXCEPT ![t] = x]
      /\ lock'[w] = IF x = "fired" THEN lock[w] ELSE t
      /\ UNCHANGED <<pc, job, alive, main, cur, status, toChild, fromChild>>
  BY <1>1, Names DEF IInv, ShapeInv, IsMap, Others, parentSide, parentVars
<1>4. timer[w] \in [Jobs -> Timers] /\ t \in Jobs
  BY Names DEF IInv, ShapeInv
<1>5. StageInv(w)'
  <2>1. StageInv(w) /\ timer[w][t] # "none"
    BY <1>1 DEF IInv
  <2>2. Expected(w)' = Expected(w) /\ NothingRuns(w)' = NothingRuns(w)
    BY <1>3 DEF Expected, NothingRuns
  <2>3. Sent(w) => Sent(w)'
    <3>1. \A j : timer[w][j] = "none" /\ j \in Jobs => timer'[w][j] = "none"
      BY <1>3, <1>4, <2>1
    <3>2. Sent(w) => Expected(w) \in Jobs
      BY SMTT(30), <1>1, Busy, OneAnswer DEF Sent
    <3> QED BY <1>3, <2>2, <3>1, <3>2 DEF Sent
  <2>4. Running(w) => Running(w)'
    BY <1>3, <2>2 DEF Running
  <2>5. Responded(w) => Responded(w)'
    BY <1>3, <2>2 DEF Responded
  <2> QED BY <1>1, <1>3, <2>1, <2>2, <2>3, <2>4, <2>5 DEF StageInv
<1>6. LockInv(w)'
  BY SMTT(30), <1>1, <1>3, <1>4, Names DEF IInv, LockInv
<1>7. \A u \in Tasks : timer'[w][u] # "none" => timer[w][u] # "none"
  BY SMTT(30), <1>1, <1>3, <1>4, Names
<1> QED BY <1>1, <1>2, <1>3, <1>5, <1>6, <1>7, ChildInv DEF parentSide

LEMMA TimerRespondInv ==
  ASSUME IInv, NEW w \in Workers, NEW t \in Tasks, TimerRespond(w, t)
  PROVE  IInv'
<1>1. /\ alive[w] /\ timer[w][t] \in {"respond", "unlock"} /\ lock[w] = t
      /\ main[w] \notin {"respond", "unlock"} /\ t \in Jobs
      /\ timer[w][t] = "respond" =>
           Running(w) /\ t = Expected(w) /\ pc[w] \in {"init", "recv"}
  BY SMTT(30), Busy, Names DEF TimerRespond, IInv, LockInv
<1>2. /\ lock' = [lock EXCEPT ![w] = Nobody]
      /\ timer' = [timer EXCEPT ![w][t] = "over"]
      /\ UNCHANGED <<parentSide, alive, main, cur, ret_value, toChild>>
      /\ timer[w][t] = "unlock" => UNCHANGED <<fromChild, status>>
      /\ timer[w][t] = "respond" =>
           /\ fromChild' = [fromChild EXCEPT ![w] =
                              Append(fromChild[w], [kind |-> "TIMEOUT", of |-> t])]
           /\ status' = [status EXCEPT ![w][t] = "TIMEOUT"]
  BY <1>1 DEF TimerRespond
<1>3. ShapeInv'
  <2>1. IsMap(fromChild)' /\ (status \in [Workers -> [Jobs -> Statuses]])'
    <3>1. CASE timer[w][t] = "unlock"
      BY <1>2, <3>1 DEF IInv, ShapeInv, IsMap
    <3>2. CASE timer[w][t] = "respond"
      <4>1. [status EXCEPT ![w][t] = "TIMEOUT"] \in [Workers -> [Jobs -> Statuses]]
        BY <1>1, StatusSet DEF IInv, Statuses
      <4> QED BY <1>2, <3>2, <4>1 DEF IInv, ShapeInv, IsMap
    <3> QED BY <1>1, <3>1, <3>2
  <2>2. (timer \in [Workers -> [Jobs -> Timers]])'
    BY <1>1, <1>2, TimerSet DEF IInv, Timers
  <2> QED BY <1>2, <2>1, <2>2 DEF IInv, ShapeInv, IsMap, parentSide, parentVars
<1>4. /\ Others(w) /\ lock'[w] = Nobody
      /\ timer'[w] = [timer[w] EXCEPT ![t] = "over"]
      /\ UNCHANGED <<pc, job, alive, main, cur, toChild>>
      /\ timer[w][t] = "unlock" => UNCHANGED <<fromChild, status>>
      /\ timer[w][t] = "respond" =>
           /\ fromChild'[w] = <<[kind |-> "TIMEOUT", of |-> t]>>
           /\ status'[w] = [status[w] EXCEPT ![t] = "TIMEOUT"]
  <2> USE DEF IInv, ShapeInv, IsMap
  <2>1. CASE timer[w][t] = "unlock"
    BY <1>2, <2>1 DEF Others, parentSide, parentVars
  <2>2. CASE timer[w][t] = "respond"
    <3>1. fromChild[w] = <<>>
      BY <1>1, <2>2 DEF Running
    <3> QED BY SMTT(30), <1>2, <2>2, <3>1, OneAnswer DEF Others, parentSide, parentVars
  <2> QED BY <1>1, <2>1, <2>2
<1>5. status[w] \in [Jobs -> Statuses] /\ timer[w] \in [Jobs -> Timers]
  BY DEF IInv, ShapeInv
<1>6. StageInv(w)'
  <2>1. Expected(w)' = Expected(w)
    BY <1>4 DEF Expected
  <2>2. CASE timer[w][t] = "unlock"
    <3>1. NothingRuns(w)' = NothingRuns(w) /\ StageInv(w)
      BY <1>4, <2>2 DEF NothingRuns, IInv
    <3>2. Sent(w) => Sent(w)'
      BY SMTT(30), <1>1, <1>4, <1>5, <2>1, <2>2, <3>1 DEF Sent
    <3>3. Running(w) => Running(w)'
      BY <1>4, <2>1, <2>2 DEF Running
    <3>4. Responded(w) => Responded(w)'
      BY <1>4, <2>1, <2>2, <3>1 DEF Responded
    <3> QED BY <1>1, <1>4, <2>2, <3>1, <3>2, <3>3, <3>4 DEF StageInv
  <2>3. CASE timer[w][t] = "respond"
    <3>1. NothingRuns(w)' /\ toChild'[w] = <<>>
      BY SMTT(30), <1>1, <1>4, <1>5, <2>3 DEF NothingRuns, Running
    <3>2. Responded(w)'
      BY SMTT(30), <1>1, <1>4, <2>1, <2>3, <3>1 DEF Responded, Running
    <3> QED BY <1>1, <1>4, <2>3, <3>2 DEF StageInv
  <2> QED BY <1>1, <2>2, <2>3
<1>7. LockInv(w)'
  <2>1. \A u \in Tasks : u # t => timer'[w][u] \notin {"respond", "unlock"}
    <3>1. \A u \in Tasks : u # t => timer'[w][u] = timer[w][u]
      BY SMTT(30), <1>1, <1>4, <1>5, Names
    <3>2. LockInv(w)
      BY DEF IInv
    <3> QED BY <1>1, <3>1, <3>2 DEF LockInv
  <2>2. timer'[w][t] = "over"
    BY <1>1, <1>4, <1>5
  <2> QED BY <1>1, <1>4, <2>1, <2>2, Names DEF LockInv
<1>8. \A u \in Tasks : timer'[w][u] # "none" => timer[w][u] # "none"
  BY SMTT(30), <1>1, <1>4, <1>5, Names
<1> QED BY <1>2, <1>3, <1>4, <1>6, <1>7, <1>8, ChildInv DEF parentSide
-----------------------------------------------------------------------------
(* A child that starts, dies or is killed *)

ChildShape ==
  /\ IsMap(alive) /\ IsMap(main) /\ IsMap(cur) /\ IsMap(lock)
  /\ ret_value \in [Workers -> {"COMPLETE", "EXCEPTION"}]
  /\ status \in [Workers -> [Jobs -> Statuses]]
  /\ timer \in [Workers -> [Jobs -> Timers]]

OthersChild(w) ==
  \A v \in Workers \ {w} :
    /\ alive'[v] = alive[v] /\ main'[v] = main[v] /\ cur'[v] = cur[v]
    /\ status'[v] = status[v] /\ timer'[v] = timer[v] /\ lock'[v] = lock[v]

LEMMA FreshFacts ==
  ASSUME ShapeInv, NEW w \in Workers, NEW runs, FreshChild(w, runs)
  PROVE  /\ ChildShape' /\ OthersChild(w)
         /\ alive'[w] = runs /\ main'[w] = "read" /\ LockInv(w)' /\ NothingRuns(w)'
         /\ \A j \in Jobs : timer'[w][j] = "none"
<1>1. ChildShape' /\ OthersChild(w)
  BY DEF ShapeInv, FreshChild, ChildShape, OthersChild, IsMap, Statuses, Timers
<1>2. /\ alive'[w] = runs /\ main'[w] = "read" /\ lock'[w] = Nobody
      /\ status'[w] = [j \in Jobs |-> "new"] /\ timer'[w] = [j \in Jobs |-> "none"]
  BY DEF ShapeInv, FreshChild, IsMap
<1>3. LockInv(w)'
  BY <1>2, Names DEF LockInv
<1> QED BY <1>1, <1>2, <1>3 DEF NothingRuns

LEMMA KillFacts ==
  ASSUME ShapeInv, NEW w \in Workers, Kill(w)
  PROVE  /\ ChildShape' /\ OthersChild(w) /\ IsMap(toChild)' /\ IsMap(fromChild)'
         /\ toChild'[w] = <<>> /\ fromChild'[w] = <<>>
         /\ \A v \in Workers \ {w} : toChild'[v] = toChild[v] /\ fromChild'[v] = fromChild[v]
         /\ ~alive'[w] /\ LockInv(w)'
         /\ \A j \in Jobs : timer'[w][j] = "none"
<1>1. FreshChild(w, FALSE)
  BY DEF Kill
<1>2. /\ toChild' = [toChild EXCEPT ![w] = <<>>]
      /\ fromChild' = [fromChild EXCEPT ![w] = <<>>]
  BY DEF Kill
<1>3. /\ IsMap(toChild)' /\ IsMap(fromChild)'
      /\ toChild'[w] = <<>> /\ fromChild'[w] = <<>>
      /\ \A v \in Workers \ {w} : toChild'[v] = toChild[v] /\ fromChild'[v] = fromChild[v]
  BY <1>2 DEF ShapeInv, IsMap
<1>4. /\ ChildShape' /\ OthersChild(w) /\ alive'[w] = FALSE /\ LockInv(w)'
      /\ \A j \in Jobs : timer'[w][j] = "none"
  BY <1>1, FreshFacts
<1> QED BY <1>3, <1>4

LEMMA DiesInv ==
  ASSUME IInv, NEW w \in Workers, ChildDies(w)
  PROVE  IInv'
<1>1. /\ FreshChild(w, FALSE) /\ UNCHANGED parentVars /\ alive[w]
      /\ toChild' = [toChild EXCEPT ![w] = <<>>]
      /\ \/ fromChild' = fromChild
         \/ /\ main[w] = "respond"
            /\ fromChild' = [fromChild EXCEPT ![w] =
                               Append(fromChild[w], [kind |-> "TORN", of |-> cur[w]])]
  BY DEF ChildDies
<1>2. /\ ChildShape' /\ OthersChild(w) /\ alive'[w] = FALSE /\ LockInv(w)'
      /\ \A j \in Jobs : timer'[w][j] = "none"
  BY <1>1, FreshFacts DEF IInv
<1>3. main[w] = "respond" =>
        fromChild[w] = <<>> /\ cur[w] = Expected(w) /\ pc[w] \in {"init", "recv"}
  <2>1. main[w] = "respond" => /\ pc[w] \in {"init", "recv"} /\ (Running(w) \/ Responded(w))
                               /\ status[w][cur[w]] = "RUNNING"
    BY <1>1, Busy DEF IInv, LockInv
  <2>2. main[w] = "respond" => cur[w] = Expected(w) /\ Expected(w) \in Jobs
    BY <1>1, <2>1, Busy DEF Running, Responded
  <2> QED BY <2>1, <2>2 DEF Running, Responded, NothingRuns
<1>4. /\ IsMap(toChild)' /\ IsMap(fromChild)' /\ toChild'[w] = <<>>
      /\ \A v \in Workers \ {w} : toChild'[v] = toChild[v] /\ fromChild'[v] = fromChild[v]
      /\ \/ fromChild'[w] = fromChild[w]
         \/ /\ pc[w] \in {"init", "recv"}
            /\ fromChild'[w] = <<[kind |-> "TORN", of |-> Expected(w)]>>
  <2> USE DEF IInv, ShapeInv, IsMap
  <2>1. CASE fromChild' = fromChild
    BY <1>1, <2>1
  <2>2. CASE main[w] = "respond" /\ fromChild' = [fromChild EXCEPT ![w] =
                               Append(fromChild[w], [kind |-> "TORN", of |-> cur[w]])]
    BY <1>1, <1>3, <2>2, OneAnswer
  <2> QED BY <1>1, <2>1, <2>2
<1>5. ShapeInv' /\ Others(w)
  BY SMTT(30), <1>1, <1>2, <1>4 DEF IInv, ShapeInv, ChildShape, Others, OthersChild, parentVars, IsMap
<1>6. StageInv(w)'
  <2>1. StageInv(w) /\ pc'[w] = pc[w] /\ Expected(w)' = Expected(w)
    BY <1>1 DEF IInv, parentVars, Expected
  <2>2. pc[w] \notin {"init", "recv"} => fromChild'[w] = <<>>
    BY <1>4, <2>1 DEF StageInv
  <2>3. pc[w] \in {"init", "recv"} => Broken(w)'
    <3>1. pc[w] \in {"init", "recv"} =>
            \/ fromChild'[w] = <<>>
            \/ \E k \in Kinds : fromChild'[w] = <<[kind |-> k, of |-> Expected(w)]>>
      BY <1>1, <1>4, <2>1 DEF StageInv, Sent, Running, Responded, Kinds
    <3> QED BY <1>4, <2>1, <3>1 DEF Broken
  <2> QED BY <1>2, <1>4, <2>1, <2>2, <2>3 DEF StageInv
<1> QED BY <1>1, <1>2, <1>4, <1>5, <1>6, ChildInv, Names

-----------------------------------------------------------------------------
(* The threads of the pool *)

LEMMA KillStepInv ==
  ASSUME IInv, NEW w \in Workers, Recycle(w) \/ Delete(w)
  PROVE  IInv'
<1>1. Kill(w) /\ UNCHANGED <<todo, outcome, pc, job>> /\ pc[w] \in {"idle", "send"}
  BY DEF Recycle, Delete
<1>2. /\ ChildShape' /\ OthersChild(w) /\ IsMap(toChild)' /\ IsMap(fromChild)'
      /\ toChild'[w] = <<>> /\ fromChild'[w] = <<>>
      /\ \A v \in Workers \ {w} : toChild'[v] = toChild[v] /\ fromChild'[v] = fromChild[v]
      /\ ~alive'[w] /\ LockInv(w)'
      /\ \A j \in Jobs : timer'[w][j] = "none"
  BY <1>1, KillFacts DEF IInv
<1>3. ShapeInv' /\ Others(w)
  BY SMTT(30), <1>1, <1>2 DEF IInv, ShapeInv, ChildShape, Others, OthersChild, IsMap
<1>4. JobInv' /\ OwnResult'
  BY <1>1 DEF IInv, JobInv, OwnResult
<1>5. TimerInv'
  BY SMTT(30), <1>1, <1>2, Names DEF IInv, TimerInv, OthersChild
<1>6. StageInv(w)'
  BY <1>1, <1>2 DEF StageInv
<1> QED BY <1>2, <1>3, <1>4, <1>5, <1>6, OthersInv DEF IInv

LEMMA TakeInv ==
  ASSUME IInv, NEW w \in Workers, Take(w)
  PROVE  IInv'
<1>1. PICK t \in todo : /\ todo' = todo \ {t} /\ job' = [job EXCEPT ![w] = t]
                        /\ pc[w] = "idle" /\ pc' = [pc EXCEPT ![w] = "send"]
                        /\ UNCHANGED <<outcome, childVars, toChild, fromChild>>
  BY DEF Take
<1>2. /\ pc[w] = "idle" /\ pc'[w] = "send" /\ job'[w] = t
      /\ todo' = todo \ {t} /\ outcome' = outcome
      /\ \A v \in Workers \ {w} : pc'[v] = pc[v] /\ job'[v] = job[v]
      /\ UNCHANGED <<toChild, fromChild, alive, main, cur, status, timer, lock, ret_value>>
  BY <1>1 DEF IInv, ShapeInv, IsMap, childVars
<1>3. ShapeInv' /\ Others(w)
  BY <1>1, <1>2 DEF IInv, ShapeInv, IsMap, Others
<1>4. JobInv' /\ OwnResult'
  <2>1. JobInv'
    BY SMTT(30), <1>2 DEF IInv, JobInv
  <2>2. OwnResult'
    BY <1>2 DEF IInv, OwnResult
  <2> QED BY <2>1, <2>2
<1>5. TimerInv'
  <2> SUFFICES ASSUME NEW v \in Workers, NEW u \in Tasks, timer'[v][u] # "none"
               PROVE  outcome'[u].kind # "none"
                      \/ (pc'[v] = "recv" /\ job'[v] = u /\ toChild'[v] = <<>>)
    BY DEF TimerInv
  <2>1. outcome[u].kind # "none" \/ (pc[v] = "recv" /\ job[v] = u /\ toChild[v] = <<>>)
    BY <1>2 DEF IInv, TimerInv
  <2> QED BY <1>2, <2>1
<1>6. StageInv(w)' /\ LockInv(w)'
  <2>1. StageInv(w) /\ LockInv(w)
    BY DEF IInv
  <2>2. StageInv(w)'
    BY <1>2, <2>1 DEF StageInv, NothingRuns
  <2>3. LockInv(w)'
    BY <1>2, <2>1 DEF LockInv
  <2> QED BY <2>2, <2>3
<1> QED BY <1>3, <1>4, <1>5, <1>6, OthersInv DEF IInv

\* The steps that send the thread's task or the initializer.
LEMMA SendInv ==
  ASSUME IInv, NEW w \in Workers, pc[w] \in {"send", "init"},
         UNCHANGED <<todo, outcome, job>>,
         NEW p \in {"init", "recv"}, pc' = [pc EXCEPT ![w] = p],
         ShapeInv', Others(w), LockInv(w)',
         alive'[w] => /\ toChild'[w] = <<Expected(w)'>>
                      /\ main'[w] = "read" /\ NothingRuns(w)' /\ timer'[w][Expected(w)'] = "none",
         ~alive'[w] => toChild'[w] = <<>>,
         fromChild'[w] = <<>>,
         \A t \in Tasks : timer'[w][t] # "none" => timer[w][t] # "none"
  PROVE  IInv'
<1>1. pc'[w] = p /\ \A v \in Workers \ {w} : pc'[v] = pc[v]
  BY DEF IInv, ShapeInv, IsMap
<1>2. JobInv' /\ OwnResult'
  <2>1. JobInv'
    <3>1. JobInv /\ \A v \in Workers : pc'[v] # "idle" => pc[v] # "idle"
      BY <1>1 DEF IInv
    <3> QED BY <3>1 DEF JobInv
  <2>2. OwnResult'
    BY DEF IInv, OwnResult
  <2> QED BY <2>1, <2>2
<1>3. TimerInv'
  <2> SUFFICES ASSUME NEW v \in Workers, NEW u \in Tasks, timer'[v][u] # "none"
               PROVE  outcome[u].kind # "none"
                      \/ (pc'[v] = "recv" /\ job[v] = u /\ toChild'[v] = <<>>)
    BY DEF TimerInv
  <2>1. timer[v][u] # "none"
    BY DEF Others
  <2>2. outcome[u].kind # "none" \/ (pc[v] = "recv" /\ job[v] = u /\ toChild[v] = <<>>)
    BY <2>1 DEF IInv, TimerInv
  <2>3. v # w => pc'[v] = pc[v] /\ toChild'[v] = toChild[v]
    BY DEF Others
  <2> QED BY <2>2, <2>3
<1>4. StageInv(w)'
  BY <1>1 DEF StageInv, Sent, Broken
<1> QED BY <1>2, <1>3, <1>4, OthersInv DEF IInv

\* The task of a thread that has not been sent yet has no timer.
LEMMA NoTimerYet ==
  ASSUME IInv, NEW w \in Workers, pc[w] \in {"send", "init"}
  PROVE  job[w] \in Tasks /\ timer[w][job[w]] = "none"
BY DEF IInv, JobInv, TimerInv

LEMMA StartInv ==
  ASSUME IInv, NEW w \in Workers, Start(w)
  PROVE  IInv'
<1> DEFINE p == IF initializer THEN "init" ELSE "recv"
           j == IF initializer THEN Init_ ELSE job[w]
<1>1. /\ pc[w] = "send" /\ UNCHANGED <<todo, outcome, job>>
      /\ pc' = [pc EXCEPT ![w] = p] /\ p \in {"init", "recv"}
      /\ toChild' = [toChild EXCEPT ![w] = <<j>>]
      /\ fromChild' = [fromChild EXCEPT ![w] = <<>>]
      /\ FreshChild(w, TRUE)
  BY DEF Start
<1>2. /\ ChildShape' /\ OthersChild(w) /\ alive'[w] = TRUE /\ main'[w] = "read"
      /\ LockInv(w)' /\ NothingRuns(w)' /\ \A k \in Jobs : timer'[w][k] = "none"
  BY <1>1, FreshFacts DEF IInv
<1>3. /\ IsMap(pc)' /\ IsMap(toChild)' /\ IsMap(fromChild)'
      /\ pc'[w] = p /\ toChild'[w] = <<j>> /\ fromChild'[w] = <<>>
      /\ \A v \in Workers \ {w} :
           pc'[v] = pc[v] /\ toChild'[v] = toChild[v] /\ fromChild'[v] = fromChild[v]
  BY <1>1 DEF IInv, ShapeInv, IsMap
<1>4. ShapeInv' /\ Others(w)
  <2>1. ShapeInv /\ UNCHANGED <<outcome, job>>
    BY <1>1 DEF IInv
  <2>2. ShapeInv'
    BY <1>2, <1>3, <2>1 DEF ShapeInv, ChildShape, IsMap
  <2>3. Others(w)
    BY <1>2, <1>3, <2>1 DEF Others, OthersChild
  <2> QED BY <2>2, <2>3
<1>5. Expected(w)' = j /\ j \in Jobs
  BY <1>1, <1>3, NoTimerYet, Names DEF Expected
<1>6. \A t \in Tasks : timer'[w][t] = "none"
  BY <1>2, Names
<1> HIDE DEF p, j
<1> QED BY <1>1, <1>2, <1>3, <1>4, <1>5, <1>6, SendInv

\* The end of send, with the process that is there.
LEMMA SendTaskInv ==
  ASSUME IInv, NEW w \in Workers, NEW uses, SendTask(w, uses),
         pc[w] \in {"send", "init"}, UNCHANGED <<todo, outcome, job, childVars>>,
         toChild[w] = <<>>, IsMap(fromChild)', fromChild'[w] = <<>>,
         \A v \in Workers \ {w} : fromChild'[v] = fromChild[v],
         alive[w] => main[w] = "read" /\ NothingRuns(w)
  PROVE  IInv'
<1>1. /\ pc' = [pc EXCEPT ![w] = "recv"]
      /\ toChild' = [toChild EXCEPT ![w] = Piped(w, job[w])]
  BY DEF SendTask
<1>2. /\ IsMap(pc)' /\ IsMap(toChild)' /\ pc'[w] = "recv" /\ toChild'[w] = Piped(w, job[w])
      /\ \A v \in Workers \ {w} : pc'[v] = pc[v] /\ toChild'[v] = toChild[v]
  BY ZenonT(60), <1>1 DEF IInv, ShapeInv, IsMap
<1>3. UNCHANGED <<alive, main, cur, ret_value, status, timer, lock>>
  BY DEF childVars
<1>4. ShapeInv' /\ Others(w)
  BY <1>2, <1>3 DEF IInv, ShapeInv, Others, IsMap
<1>5. Expected(w)' = job[w] /\ timer[w][job[w]] = "none"
  BY <1>2, NoTimerYet DEF Expected
<1>6. /\ alive[w] => toChild'[w] = <<job[w]>>
      /\ ~alive[w] => toChild'[w] = <<>>
  BY <1>2, OneAnswer DEF Piped
<1>7. LockInv(w)' /\ (NothingRuns(w) => NothingRuns(w)')
  BY SMTT(30), <1>3 DEF IInv, LockInv, NothingRuns
<1> QED BY <1>1, <1>3, <1>4, <1>5, <1>6, <1>7, SendInv

LEMMA SendMoreInv ==
  ASSUME IInv, NEW w \in Workers, SendMore(w) \/ InitDone(w)
  PROVE  IInv'
<1>1. CASE SendMore(w)
  BY <1>1, SendTaskInv DEF SendMore, IInv, StageInv, ShapeInv, IsMap
<1>2. CASE InitDone(w)
  <2>1. /\ pc[w] = "init" /\ fromChild[w] # <<>> /\ Head(fromChild[w]).kind = "COMPLETE"
        /\ fromChild' = [fromChild EXCEPT ![w] = Tail(fromChild[w])]
        /\ SendTask(w, MaxUses) /\ UNCHANGED <<todo, outcome, job, childVars>>
    BY <1>2 DEF InitDone, Answered, Answer, AnswerTaken
  <2>2. PICK k \in Kinds : fromChild[w] = <<[kind |-> k, of |-> Expected(w)]>>
    BY <2>1 DEF IInv, StageInv, Sent, Running, Responded, Broken, Kinds
  <2>3. k = "COMPLETE" /\ Tail(fromChild[w]) = <<>>
    BY SMTT(30), <2>1, <2>2, OneAnswer
  <2>4. toChild[w] = <<>> /\ (alive[w] => main[w] = "read" /\ NothingRuns(w))
    <3>1. alive[w] => Responded(w)
      BY <2>1 DEF IInv, StageInv, Sent, Running
    <3>2. CASE alive[w]
      <4>1. PICK l \in {"COMPLETE", "EXCEPTION", "TIMEOUT"} :
              /\ fromChild[w] = <<[kind |-> l, of |-> Expected(w)]>>
              /\ l # "TIMEOUT" => main[w] = "read"
        BY <3>1, <3>2 DEF Responded
      <4>2. l = "COMPLETE"
        BY SMTT(30), <2>1, <4>1, OneAnswer
      <4> QED BY <3>1, <3>2, <4>1, <4>2 DEF Responded
    <3>3. CASE ~alive[w]
      BY <2>1, <3>3 DEF IInv, StageInv, Broken
    <3> QED BY <3>2, <3>3
  <2>5. /\ IsMap(fromChild)' /\ fromChild'[w] = <<>>
        /\ \A v \in Workers \ {w} : fromChild'[v] = fromChild[v]
    BY ZenonT(60), <2>1, <2>3 DEF IInv, ShapeInv, IsMap
  <2> QED BY <2>1, <2>4, <2>5, SendTaskInv
<1> QED BY <1>1, <1>2

\* The steps that give a future its result.
LEMMA DoneInv ==
  ASSUME IInv, NEW w \in Workers, NEW k, NEW of, Done(w, k, of),
         pc[w] \in {"init", "recv"}, k # "none",
         of = job[w] \/ (of = Init_ /\ k = "EXCEPTION"),
         IsMap(toChild)', IsMap(fromChild)', ChildShape', OthersChild(w), LockInv(w)',
         \A v \in Workers \ {w} : toChild'[v] = toChild[v] /\ fromChild'[v] = fromChild[v],
         toChild'[w] = <<>>, fromChild'[w] = <<>>,
         alive'[w] => main'[w] = "read" /\ NothingRuns(w)',
         \A t \in Tasks : timer'[w][t] # "none" => timer[w][t] # "none"
  PROVE  IInv'
<1>1. /\ outcome' = [outcome EXCEPT ![job[w]] = [kind |-> k, of |-> of]]
      /\ pc' = [pc EXCEPT ![w] = "idle"] /\ job' = [job EXCEPT ![w] = Nobody]
      /\ todo' = todo /\ job[w] \in Tasks
  BY DEF Done, IInv, JobInv
<1>2. /\ pc'[w] = "idle" /\ outcome'[job[w]] = [kind |-> k, of |-> of]
      /\ \A t \in Tasks : t # job[w] => outcome'[t] = outcome[t]
      /\ \A v \in Workers \ {w} : pc'[v] = pc[v] /\ job'[v] = job[v]
      /\ outcome' = [t \in Tasks |-> outcome'[t]] /\ IsMap(pc)' /\ IsMap(job)'
  BY <1>1 DEF IInv, ShapeInv, IsMap
<1>3. ShapeInv' /\ Others(w)
  BY <1>2 DEF ShapeInv, ChildShape, Others, OthersChild
<1>4. OwnResult'
  BY <1>1, <1>2 DEF IInv, OwnResult
<1>5. JobInv'
  BY SMTT(30), <1>1, <1>2 DEF IInv, JobInv
<1>6. TimerInv'
  BY SMTT(30), <1>1, <1>2, <1>3 DEF IInv, TimerInv, Others
<1>7. StageInv(w)'
  BY <1>2 DEF StageInv
<1> QED BY <1>3, <1>4, <1>5, <1>6, <1>7, OthersInv DEF IInv

LEMMA RecvDoneInv ==
  ASSUME IInv, NEW w \in Workers, RecvDone(w)
  PROVE  IInv'
<1> DEFINE a == Head(fromChild[w])
           k == IF a.kind = "TORN" THEN "EXCEPTION" ELSE a.kind
<1>1. /\ pc[w] \in {"init", "recv"} /\ fromChild[w] # <<>>
      /\ a.kind \in {"COMPLETE", "EXCEPTION", "TORN"}
      /\ pc[w] = "init" => k = "EXCEPTION"
      /\ fromChild' = [fromChild EXCEPT ![w] = Tail(fromChild[w])]
      /\ Done(w, k, a.of) /\ UNCHANGED <<childVars, toChild>>
  BY DEF RecvDone, Answered, Answer, AnswerTaken
<1>2. PICK l \in Kinds : fromChild[w] = <<[kind |-> l, of |-> Expected(w)]>>
  BY <1>1 DEF IInv, StageInv, Sent, Running, Responded, Broken, Kinds
<1>3. a.kind = l /\ a.of = Expected(w) /\ Tail(fromChild[w]) = <<>>
  <2>1. a = [kind |-> l, of |-> Expected(w)] /\ Tail(fromChild[w]) = <<>>
    BY <1>2, OneAnswer
  <2> QED BY SMTT(30), <2>1
<1>4. toChild[w] = <<>> /\ (alive[w] => main[w] = "read" /\ NothingRuns(w))
  <2>1. CASE alive[w]
    <3>1. Responded(w)
      BY <1>1, <2>1 DEF IInv, StageInv, Sent, Running
    <3>2. PICK i \in {"COMPLETE", "EXCEPTION", "TIMEOUT"} :
            /\ fromChild[w] = <<[kind |-> i, of |-> Expected(w)]>>
            /\ i # "TIMEOUT" => main[w] = "read"
      BY <3>1 DEF Responded
    <3>3. a.kind = i
      <4>1. a = [kind |-> i, of |-> Expected(w)]
        BY <3>2, OneAnswer
      <4> QED BY SMTT(30), <4>1
    <3> QED BY <1>1, <3>1, <3>2, <3>3 DEF Responded
  <2>2. CASE ~alive[w]
    BY <1>1, <2>2 DEF IInv, StageInv, Broken
  <2> QED BY <2>1, <2>2
<1>5. /\ IsMap(fromChild)' /\ fromChild'[w] = <<>>
      /\ \A v \in Workers \ {w} : fromChild'[v] = fromChild[v]
  BY <1>1, <1>3 DEF IInv, ShapeInv, IsMap
<1>6. UNCHANGED <<alive, main, cur, ret_value, status, timer, lock>>
  BY <1>1 DEF childVars
<1>7. ChildShape' /\ OthersChild(w) /\ LockInv(w)' /\ (NothingRuns(w) => NothingRuns(w)')
  BY SMTT(30), <1>6 DEF IInv, ShapeInv, ChildShape, OthersChild, LockInv, NothingRuns, IsMap
<1>8. k # "none" /\ (a.of = job[w] \/ (a.of = Init_ /\ k = "EXCEPTION"))
  BY <1>1, <1>3 DEF Expected
<1>9. IsMap(toChild)' /\ toChild'[w] = <<>> /\ \A v \in Workers : toChild'[v] = toChild[v]
  BY <1>1, <1>4 DEF IInv, ShapeInv, IsMap
<1> HIDE DEF a, k
<1> QED BY <1>1, <1>4, <1>5, <1>6, <1>7, <1>8, <1>9, DoneInv

LEMMA RecvKillInv ==
  ASSUME IInv, NEW w \in Workers, RecvTimeout(w) \/ RecvEOF(w)
  PROVE  IInv'
<1>1. PICK k \in {"TIMEOUT", "ChildProcessError"} :
        Kill(w) /\ pc[w] \in {"init", "recv"} /\ Done(w, k, job[w])
  <2>1. CASE RecvEOF(w)
    BY <2>1 DEF RecvEOF
  <2>2. CASE RecvTimeout(w)
    <3>1. /\ pc[w] = "recv" /\ fromChild[w] # <<>>
          /\ Done(w, "TIMEOUT", Head(fromChild[w]).of) /\ Kill(w)
      BY <2>2 DEF RecvTimeout, Answered, Answer
    <3>2. PICK l \in Kinds : fromChild[w] = <<[kind |-> l, of |-> Expected(w)]>>
      BY <3>1 DEF IInv, StageInv, Sent, Running, Responded, Broken, Kinds
    <3>3. Head(fromChild[w]).of = job[w]
      BY SMTT(30), <3>1, <3>2, OneAnswer DEF Expected
    <3> QED BY <3>1, <3>3
  <2> QED BY <2>1, <2>2
<1>2. /\ ChildShape' /\ OthersChild(w) /\ IsMap(toChild)' /\ IsMap(fromChild)'
      /\ toChild'[w] = <<>> /\ fromChild'[w] = <<>>
      /\ \A v \in Workers \ {w} : toChild'[v] = toChild[v] /\ fromChild'[v] = fromChild[v]
      /\ ~alive'[w] /\ LockInv(w)'
      /\ \A j \in Jobs : timer'[w][j] = "none"
  BY <1>1, KillFacts DEF IInv
<1> QED BY ZenonT(60), <1>1, <1>2, Names, DoneInv

-----------------------------------------------------------------------------
LEMMA StepInv == IInv /\ [Next]_vars => IInv'
<1> SUFFICES ASSUME IInv, [Next]_vars PROVE IInv'
  OBVIOUS
<1>1. CASE UNCHANGED vars
  <2>1. UNCHANGED <<todo, outcome, pc, job, toChild, fromChild, alive, main, cur, ret_value,
                    status, timer, lock>>
    BY <1>1 DEF vars, parentVars, childVars
  <2>2. ShapeInv' /\ TimerInv'
    BY SMTT(30), <2>1 DEF IInv, ShapeInv, IsMap, TimerInv
  <2>4. JobInv' /\ OwnResult'
    BY <2>1 DEF IInv, JobInv, OwnResult
  <2>3. ASSUME NEW w \in Workers PROVE StageInv(w)' /\ LockInv(w)'
    BY <2>1, SameInv DEF IInv
  <2> QED BY <2>2, <2>3, <2>4 DEF IInv
<1>2. ASSUME NEW w \in Workers, ParentStep(w) \/ Delete(w) \/ ChildDies(w)
      PROVE  IInv'
  BY <1>2, TakeInv, KillStepInv, StartInv, SendMoreInv, RecvDoneInv, RecvKillInv, DiesInv
     DEF ParentStep
<1>3. ASSUME NEW w \in Workers, ChildStep(w) \/ (\E t \in Tasks : TimerFires(w, t))
      PROVE  IInv'
  BY <1>3, ReadInv, RunInv, LockedInv, RespondInv, TimerInvs, TimerRespondInv DEF ChildStep
<1> QED BY <1>1, <1>2, <1>3 DEF Next

LEMMA InvHolds == Spec => []IInv
BY InitInv, StepInv, PTL DEF Spec

\* For every number of threads and tasks, and with children that die at any point: a
\* future has the result of its own task (PopenWorker.recv, _cancel_run).
THEOREM OwnResultHolds == Spec => []OwnResult
<1>1. IInv => OwnResult
  BY DEF IInv
<1> QED BY <1>1, InvHolds, PTL

\* Between two tasks nothing is left in the pipes, and no task is answered twice (the
\* lock of popen_worker.main).
THEOREM InStepHolds == Spec => []InStep
<1>1. IInv => InStep
  <2> SUFFICES ASSUME IInv, NEW w \in Workers
               PROVE  /\ pc[w] \in {"idle", "send"} => toChild[w] = <<>> /\ fromChild[w] = <<>>
                      /\ Len(fromChild[w]) <= 1
    BY DEF InStep
  <2>1. fromChild[w] = <<>> \/ \E x : fromChild[w] = <<x>>
    BY DEF IInv, StageInv, Sent, Running, Responded, Broken
  <2>2. Len(fromChild[w]) <= 1
    <3>1. ASSUME NEW x, fromChild[w] = <<x>> PROVE Len(fromChild[w]) <= 1
      BY <3>1, OneAnswer
    <3>2. ASSUME fromChild[w] = <<>> PROVE Len(fromChild[w]) <= 1
      BY <3>2, OneAnswer
    <3> QED BY <2>1, <3>1, <3>2
  <2> QED BY <2>2 DEF IInv, StageInv
<1> QED BY <1>1, InvHolds, PTL

\* When a future has its result, its task runs in no child any more (recv kills the
\* child before it raises TimeoutError).
THEOREM ResultIsFinalHolds == Spec => []ResultIsFinal
<1>1. IInv => ResultIsFinal
  <2> SUFFICES ASSUME IInv, NEW t \in Tasks, NEW w \in Workers,
                      alive[w], main[w] = "run", cur[w] = t
               PROVE  outcome[t].kind = "none"
    BY DEF ResultIsFinal
  <2>1. pc[w] \in {"init", "recv"} /\ cur[w] = Expected(w)
    BY Busy DEF Running, Responded
  <2>2. job[w] = t
    BY <2>1, Names DEF Expected
  <2> QED BY <2>1, <2>2 DEF IInv, JobInv
<1> QED BY <1>1, InvHolds, PTL
-----------------------------------------------------------------------------
(* The uses of a process *)

OnItsWay(w) == IF toChild[w] = <<>> THEN 0 ELSE 1

\* The uses that are left and the ones that were made, or are on their way to the child,
\* are no more than maximum_uses; the initializer is none.
UseOf(w) ==
  /\ IsFiniteSet(used[w])
  /\ pc[w] = "init" => used[w] = {} /\ remaining_uses[w] = None
  /\ remaining_uses[w] # None =>
       /\ remaining_uses[w] \in Nat /\ maximum_uses > 0
       /\ Cardinality(used[w]) + remaining_uses[w] + OnItsWay(w) <= maximum_uses

UseInv == IsMap(used) /\ IsMap(remaining_uses) /\ \A w \in Workers : UseOf(w)

\* The numbers of the argument.
LEMMA UseNumbers ==
  ASSUME UseInv, NEW w \in Workers
  PROVE  /\ maximum_uses \in Nat /\ Cardinality({}) = 0 /\ IsFiniteSet({})
         /\ IsFiniteSet(used[w]) /\ Cardinality(used[w]) \in Nat
         /\ OnItsWay(w) \in {0, 1} /\ OnItsWay(w)' \in {0, 1}
         /\ toChild[w] = <<>> => OnItsWay(w) = 0
         /\ toChild[w] # <<>> => OnItsWay(w) = 1
         /\ toChild'[w] = <<>> => OnItsWay(w)' = 0
<1>1. maximum_uses \in Nat
  BY PoolAssumption
<1>2. IsFiniteSet(used[w])
  BY DEF UseInv, UseOf
<1> QED BY <1>1, <1>2, FS_EmptySet, FS_CardinalityType DEF OnItsWay

LEMMA UseInit == Init => UseInv
BY SMTT(30), FS_EmptySet DEF Init, UseInv, UseOf, IsMap

\* A step that makes no use and no process.
LEMMA QuietUse ==
  ASSUME UseInv, UNCHANGED <<used, remaining_uses, toChild>>,
         \A v \in Workers : pc'[v] = "init" => pc[v] = "init"
  PROVE  UseInv'
BY DEF UseInv, UseOf, IsMap, OnItsWay

\* A step of one thread or its child.
LEMMA OneUse ==
  ASSUME UseInv, NEW w \in Workers, IsMap(used)', IsMap(remaining_uses)', UseOf(w)',
         \A v \in Workers \ {w} :
           /\ used'[v] = used[v] /\ remaining_uses'[v] = remaining_uses[v]
           /\ toChild'[v] = toChild[v] /\ pc'[v] = pc[v]
  PROVE  UseInv'
<1>1. ASSUME NEW v \in Workers PROVE UseOf(v)'
  BY DEF UseInv, UseOf, OnItsWay
<1> QED BY <1>1 DEF UseInv

\* A process that is killed has no uses.
LEMMA KillUse ==
  ASSUME IInv, UseInv, NEW w \in Workers, Kill(w),
         \A v \in Workers \ {w} : pc'[v] = pc[v]
  PROVE  UseInv'
<1>1. /\ used' = [used EXCEPT ![w] = {}]
      /\ remaining_uses' = [remaining_uses EXCEPT ![w] = None]
      /\ toChild' = [toChild EXCEPT ![w] = <<>>]
  BY DEF Kill, FreshChild
<1>2. used'[w] = {} /\ remaining_uses'[w] = None
  BY <1>1 DEF UseInv, IsMap
<1>3. UseOf(w)'
  BY <1>2, FS_EmptySet DEF UseOf
<1>4. IsMap(used)' /\ IsMap(remaining_uses)'
  BY <1>1 DEF UseInv, IsMap
<1>5. \A v \in Workers \ {w} :
        /\ used'[v] = used[v] /\ remaining_uses'[v] = remaining_uses[v]
        /\ toChild'[v] = toChild[v] /\ pc'[v] = pc[v]
  BY ZenonT(60), <1>1 DEF UseInv, IInv, ShapeInv, IsMap
<1> QED BY <1>3, <1>4, <1>5, OneUse

LEMMA DiesUse ==
  ASSUME IInv, UseInv, NEW w \in Workers, ChildDies(w)
  PROVE  UseInv'
<1>1. /\ used' = [used EXCEPT ![w] = {}] /\ toChild' = [toChild EXCEPT ![w] = <<>>]
      /\ UNCHANGED <<remaining_uses, pc>>
  BY DEF ChildDies, FreshChild, parentVars
<1>2. used'[w] = {} /\ toChild'[w] = <<>>
  BY <1>1 DEF UseInv, IInv, ShapeInv, IsMap
<1>4. UseOf(w)'
  BY SMTT(30), <1>1, <1>2, UseNumbers DEF UseInv, UseOf
<1>5. IsMap(used)' /\ IsMap(remaining_uses)'
  BY <1>1 DEF UseInv, IsMap
<1>6. \A v \in Workers \ {w} :
        /\ used'[v] = used[v] /\ remaining_uses'[v] = remaining_uses[v]
        /\ toChild'[v] = toChild[v] /\ pc'[v] = pc[v]
  BY <1>1 DEF UseInv, IInv, ShapeInv, IsMap
<1> QED BY <1>4, <1>5, <1>6, OneUse

\* The task of a process that has just started, if there is no initializer.
LEMMA StartUse ==
  ASSUME IInv, UseInv, NEW w \in Workers, Start(w)
  PROVE  UseInv'
<1>1. /\ used' = [used EXCEPT ![w] = {}]
      /\ toChild' = [toChild EXCEPT ![w] = <<IF initializer THEN Init_ ELSE job[w]>>]
      /\ pc' = [pc EXCEPT ![w] = IF initializer THEN "init" ELSE "recv"]
      /\ remaining_uses' = [remaining_uses EXCEPT ![w] =
           IF initializer \/ MaxUses = None THEN None ELSE MaxUses - 1]
  BY DEF Start, FreshChild
<1>2. /\ used'[w] = {} /\ pc'[w] = IF initializer THEN "init" ELSE "recv"
      /\ remaining_uses'[w] = IF initializer \/ MaxUses = None THEN None ELSE MaxUses - 1
  BY <1>1 DEF UseInv, IInv, ShapeInv, IsMap
<1>4. UseOf(w)'
  BY SMTT(30), <1>2, UseNumbers DEF UseOf, MaxUses, None
<1>5. IsMap(used)' /\ IsMap(remaining_uses)'
  BY <1>1 DEF UseInv, IsMap
<1>6. \A v \in Workers \ {w} :
        /\ used'[v] = used[v] /\ remaining_uses'[v] = remaining_uses[v]
        /\ toChild'[v] = toChild[v] /\ pc'[v] = pc[v]
  BY <1>1 DEF UseInv, IInv, ShapeInv, IsMap
<1> QED BY <1>4, <1>5, <1>6, OneUse

\* The count goes down before the task arrives.
LEMMA SendUse ==
  ASSUME IInv, UseInv, NEW w \in Workers, SendMore(w) \/ InitDone(w)
  PROVE  UseInv'
<1> DEFINE First(uses) == uses = MaxUses /\ used[w] = {}
           More(uses) == uses = remaining_uses[w] /\ toChild[w] = <<>> /\ ~UsedUp(w)
<1>1. PICK uses : SendTask(w, uses) /\ used' = used /\ (First(uses) \/ More(uses))
  <2>1. ASSUME InitDone(w)
        PROVE  SendTask(w, MaxUses) /\ used' = used /\ First(MaxUses)
    BY <2>1 DEF InitDone, childVars, UseInv, UseOf
  <2>2. ASSUME SendMore(w)
        PROVE  SendTask(w, remaining_uses[w]) /\ used' = used /\ More(remaining_uses[w])
    BY <2>2 DEF SendMore, childVars, IInv, StageInv
  <2> HIDE DEF First, More
  <2> QED BY <2>1, <2>2
<1>2. /\ remaining_uses' = [remaining_uses EXCEPT ![w] = IF uses > 0 THEN uses - 1 ELSE uses]
      /\ pc' = [pc EXCEPT ![w] = "recv"] /\ toChild' = [toChild EXCEPT ![w] = Piped(w, job[w])]
  BY <1>1 DEF SendTask
<1>3. /\ remaining_uses'[w] = IF uses > 0 THEN uses - 1 ELSE uses
      /\ pc'[w] = "recv" /\ used'[w] = used[w]
  BY <1>1, <1>2 DEF UseInv, IInv, ShapeInv, IsMap
<1>5. UseOf(w)'
  <2>1. CASE First(uses)
    BY SMTT(30), <1>3, <2>1, UseNumbers DEF UseOf, MaxUses, None
  <2>2. CASE More(uses)
    BY SMTT(30), <1>3, <2>2, UseNumbers DEF UseInv, UseOf, UsedUp, None
  <2> HIDE DEF First, More
  <2> QED BY <1>1, <2>1, <2>2
<1>6. IsMap(used)' /\ IsMap(remaining_uses)'
  BY <1>1, <1>2 DEF UseInv, IsMap
<1>7. \A v \in Workers \ {w} :
        /\ used'[v] = used[v] /\ remaining_uses'[v] = remaining_uses[v]
        /\ toChild'[v] = toChild[v] /\ pc'[v] = pc[v]
  BY <1>1, <1>2 DEF UseInv, IInv, ShapeInv, IsMap
<1> QED BY <1>5, <1>6, <1>7, OneUse

\* The child begins what was on its way.
LEMMA ReadUse ==
  ASSUME IInv, UseInv, NEW w \in Workers, ChildRead(w)
  PROVE  UseInv'
<1>1. Sent(w) /\ pc[w] \in {"init", "recv"}
  BY DEF ChildRead, IInv, StageInv, Running, Responded
<1>2. toChild[w] = <<Expected(w)>> /\ Head(toChild[w]) = Expected(w) /\ Tail(toChild[w]) = <<>>
      /\ toChild[w] # <<>>
  BY <1>1, OneAnswer DEF Sent
<1>3. /\ used' = [used EXCEPT ![w] = IF Expected(w) = Init_ THEN @ ELSE @ \union {Expected(w)}]
      /\ toChild' = [toChild EXCEPT ![w] = <<>>] /\ UNCHANGED <<remaining_uses, pc>>
  BY <1>2 DEF ChildRead, parentSide, parentVars
<1>4. /\ used'[w] = IF Expected(w) = Init_ THEN used[w] ELSE used[w] \union {Expected(w)}
      /\ toChild'[w] = <<>>
  BY <1>3 DEF UseInv, IInv, ShapeInv, IsMap
<1>5. IsFiniteSet(used[w]) /\ Cardinality(used[w]) \in Nat
  BY UseNumbers
<1>6. /\ IsFiniteSet(used'[w]) /\ Cardinality(used'[w]) \in Nat
      /\ Cardinality(used'[w]) <= Cardinality(used[w]) + 1
  <2> DEFINE more == used[w] \union {Expected(w)}
  <2>1. /\ IsFiniteSet(more)
        /\ Cardinality(more) = Cardinality(used[w]) \/ Cardinality(more) = Cardinality(used[w]) + 1
    BY <1>5, FS_AddElement
  <2>2. used'[w] = used[w] \/ used'[w] = more
    BY <1>4
  <2> HIDE DEF more
  <2> QED BY SMTT(30), <1>5, <2>1, <2>2
<1>7. pc[w] = "init" => used'[w] = used[w]
  BY <1>4 DEF Expected
<1>a. OnItsWay(w) = 1 /\ OnItsWay(w)' = 0 /\ maximum_uses \in Nat
  BY <1>2, <1>4, UseNumbers
<1>b. remaining_uses[w] # None =>
        Cardinality(used'[w]) + remaining_uses[w] + OnItsWay(w)' <= maximum_uses
  BY SMTT(30), <1>5, <1>6, <1>a DEF UseInv, UseOf
<1>8. UseOf(w)'
  BY <1>3, <1>6, <1>7, <1>b DEF UseInv, UseOf
<1>9. IsMap(used)' /\ IsMap(remaining_uses)'
  BY <1>3 DEF UseInv, IsMap
<1>10. \A v \in Workers \ {w} :
         /\ used'[v] = used[v] /\ remaining_uses'[v] = remaining_uses[v]
         /\ toChild'[v] = toChild[v] /\ pc'[v] = pc[v]
  BY <1>3 DEF UseInv, IInv, ShapeInv, IsMap
<1> QED BY <1>8, <1>9, <1>10, OneUse

LEMMA StepUse == IInv /\ UseInv /\ [Next]_vars => UseInv'
<1> SUFFICES ASSUME IInv, UseInv, [Next]_vars PROVE UseInv'
  OBVIOUS
<1>1. CASE UNCHANGED vars
  BY <1>1, QuietUse DEF vars, parentVars, childVars
<1>2. ASSUME NEW w \in Workers, Take(w) \/ RecvDone(w) PROVE UseInv'
  <2>1. UNCHANGED <<used, remaining_uses, toChild>>
    BY <1>2 DEF Take, RecvDone, childVars
  <2>2. pc' = [pc EXCEPT ![w] = "send"] \/ pc' = [pc EXCEPT ![w] = "idle"]
    BY <1>2 DEF Take, RecvDone, Done
  <2>3. \A v \in Workers : pc'[v] = "init" => pc[v] = "init"
    BY <2>2 DEF IInv, ShapeInv, IsMap
  <2> QED BY <2>1, <2>3, QuietUse
<1>3. ASSUME NEW w \in Workers, Recycle(w) \/ RecvTimeout(w) \/ RecvEOF(w) \/ Delete(w)
      PROVE  UseInv'
  <2>1. Kill(w) /\ (UNCHANGED pc \/ pc' = [pc EXCEPT ![w] = "idle"])
    BY <1>3 DEF Recycle, RecvTimeout, RecvEOF, Delete, Done
  <2>2. \A v \in Workers \ {w} : pc'[v] = pc[v]
    BY <2>1 DEF IInv, ShapeInv, IsMap
  <2> QED BY <2>1, <2>2, KillUse
<1>4. ASSUME NEW w \in Workers,
             \/ ChildFinish(w) \/ ChildCancel(w) \/ ChildLock(w) \/ ChildRespond(w)
             \/ \E t \in Tasks : TimerFires(w, t) \/ TimerLock(w, t) \/ TimerRespond(w, t)
      PROVE  UseInv'
  <2>1. UNCHANGED <<used, remaining_uses, toChild, pc>>
    BY ZenonT(60), <1>4 DEF ChildFinish, ChildCancel, ChildLock, ChildRespond, TimerFires, TimerLock,
                TimerRespond, parentSide, parentVars
  <2> QED BY <2>1, QuietUse
<1> QED
  BY <1>1, <1>2, <1>3, <1>4, StartUse, SendUse, ReadUse, DiesUse
  DEF Next, ParentStep, ChildStep

\* No process begins more than maximum_uses tasks once its initializer has returned, for
\* every number of threads, tasks, uses and deaths (PopenWorker.send, kill).
THEOREM UsesAreBoundedHolds == Spec => []UsesAreBounded
<1>1. UseInv => UsesAreBounded
  <2> SUFFICES ASSUME UseInv, NEW w \in Workers, remaining_uses[w] # None
               PROVE  Cardinality(used[w]) <= maximum_uses
    BY DEF UsesAreBounded
  <2>1. UseOf(w)
    BY DEF UseInv
  <2>2. maximum_uses \in Nat /\ Cardinality(used[w]) \in Nat /\ OnItsWay(w) \in {0, 1}
    BY UseNumbers
  <2>3. /\ remaining_uses[w] \in Nat
        /\ Cardinality(used[w]) + remaining_uses[w] + OnItsWay(w) <= maximum_uses
    BY <2>1 DEF UseOf
  <2> QED BY SMTT(30), <2>2, <2>3
<1>2. Spec => []UseInv
  BY UseInit, StepUse, InvHolds, PTL DEF Spec
<1> QED BY <1>1, <1>2, PTL
=============================================================================
