----------------------------- MODULE PopenPool ------------------------------
(***************************************************************************)
(* PopenPoolExecutor and PopenWorker of src/python/tvm/contrib/popen_pool.py*)
(* with the worker process of src/python/tvm/exec/popen_worker.py.         *)
(*                                                                         *)
(* Each thread of the pool has a worker of its own, which starts a child   *)
(* process when it needs one, sends it one task at a time and waits for the*)
(* answer.  In the child two threads compete to answer: the one that runs  *)
(* the task and the timer that was started for it.  A child that timed out *)
(* or died is killed, and another is started for the next task.            *)
(***************************************************************************)
EXTENDS Integers, Sequences, FiniteSets

CONSTANTS
  Workers,       \* the threads of the pool
  Tasks,         \* the tasks that are submitted
  Init_,         \* the initializer, as a task of its own
  initializer,   \* whether there is an initializer
  maximum_uses,  \* of a process; 0 stands for None
  timeout,       \* whether tasks have a timeout
  Hangs,         \* the tasks that never return
  MaxDeath       \* bound: children that die on their own

ASSUME PoolAssumption ==
  /\ Init_ \notin Tasks /\ {"nobody", "main"} \cap (Tasks \union {Init_}) = {}
  /\ initializer \in BOOLEAN /\ timeout \in BOOLEAN
  /\ maximum_uses \in Nat /\ MaxDeath \in Nat
  /\ Hangs \subseteq Tasks

Jobs == Tasks \union {Init_}
Nobody == "nobody"
Main == "main"    \* of the child's threads; a timer goes by its task
None == -1        \* of _remaining_uses

VARIABLES
  todo,        \* the tasks that no thread has taken yet
  outcome,     \* task -> the result of its future
  pc, job,     \* thread -> where it is in _worker_run, with which task
  proc,        \* thread -> whether _proc is not None
  remaining_uses,
  toChild, fromChild,  \* the two pipes of the child
  alive,       \* whether the child runs
  main, cur, ret_value, \* the child's main thread, its task and what it returned
  status,      \* the TimeoutStatus of each task of the child
  timer,       \* the watcher of each task of the child
  lock,        \* who holds the child's lock
  used,        \* the tasks that the child has begun
  deaths

parentVars == <<todo, outcome, pc, job, proc, remaining_uses>>
childVars == <<alive, main, cur, ret_value, status, timer, lock, used>>
vars == <<parentVars, childVars, toChild, fromChild, deaths>>

NoOutcome == [kind |-> "none", of |-> Nobody]

Init ==
  /\ todo = Tasks
  /\ outcome = [t \in Tasks |-> NoOutcome]
  /\ pc = [w \in Workers |-> "idle"]
  /\ job = [w \in Workers |-> Nobody]
  /\ proc = [w \in Workers |-> FALSE]
  /\ remaining_uses = [w \in Workers |-> None]
  /\ toChild = [w \in Workers |-> <<>>]
  /\ fromChild = [w \in Workers |-> <<>>]
  /\ alive = [w \in Workers |-> FALSE]
  /\ main = [w \in Workers |-> "read"]
  /\ cur = [w \in Workers |-> Nobody]
  /\ ret_value = [w \in Workers |-> "COMPLETE"]
  /\ status = [w \in Workers |-> [j \in Jobs |-> "new"]]
  /\ timer = [w \in Workers |-> [j \in Jobs |-> "none"]]
  /\ lock = [w \in Workers |-> Nobody]
  /\ used = [w \in Workers |-> {}]
  /\ deaths = MaxDeath
-----------------------------------------------------------------------------
(* PopenWorker *)

\* A child that was just started; also what is left of one that was killed.
FreshChild(w, runs) ==
  /\ alive' = [alive EXCEPT ![w] = runs]
  /\ main' = [main EXCEPT ![w] = "read"]
  /\ cur' = [cur EXCEPT ![w] = Nobody]
  /\ ret_value' = [ret_value EXCEPT ![w] = "COMPLETE"]
  /\ status' = [status EXCEPT ![w] = [j \in Jobs |-> "new"]]
  /\ timer' = [timer EXCEPT ![w] = [j \in Jobs |-> "none"]]
  /\ lock' = [lock EXCEPT ![w] = Nobody]
  /\ used' = [used EXCEPT ![w] = {}]

\* kill without ending the process.
KillDetached(w) ==
  /\ proc' = [proc EXCEPT ![w] = FALSE]
  /\ remaining_uses' = [remaining_uses EXCEPT ![w] = None]
  /\ toChild' = [toChild EXCEPT ![w] = <<>>]
  /\ fromChild' = [fromChild EXCEPT ![w] = <<>>]
  /\ UNCHANGED childVars

\* kill: the pipes are closed and the process is killed.
Kill(w) ==
  /\ proc' = [proc EXCEPT ![w] = FALSE]
  /\ remaining_uses' = [remaining_uses EXCEPT ![w] = None]
  /\ toChild' = [toChild EXCEPT ![w] = <<>>]
  /\ fromChild' = [fromChild EXCEPT ![w] = <<>>]
  /\ FreshChild(w, FALSE)

\* The future of the thread's task has a result, and the thread is free.
Done(w, kind, of) ==
  /\ outcome' = [outcome EXCEPT ![job[w]] = [kind |-> kind, of |-> of]]
  /\ pc' = [pc EXCEPT ![w] = "idle"]
  /\ job' = [job EXCEPT ![w] = Nobody]
  /\ UNCHANGED todo

\* A thread takes a task from the queue (submit, _worker_run).
Take(w) ==
  /\ pc[w] = "idle"
  /\ \E t \in todo :
       /\ todo' = todo \ {t}
       /\ job' = [job EXCEPT ![w] = t]
  /\ pc' = [pc EXCEPT ![w] = "send"]
  /\ UNCHANGED <<outcome, proc, remaining_uses, childVars, toChild, fromChild, deaths>>

\* The process is recycled one task late.
UsedUpLate(w) == maximum_uses # 0 /\ remaining_uses[w] = 0
                 /\ Cardinality(used[w]) > maximum_uses

UsedUp(w) == maximum_uses # 0 /\ remaining_uses[w] = 0

\* Time to recycle the process.
Recycle(w) ==
  /\ pc[w] = "send" /\ proc[w] /\ UsedUp(w)
  /\ Kill(w)
  /\ UNCHANGED <<todo, outcome, pc, job, deaths>>

\* What is written to a child that has died is lost (the IOError is ignored).
Piped(w, j) == IF alive[w] THEN Append(toChild[w], j) ELSE toChild[w]

\* The end of send: the task is written, the use counted.
SendTask(w, uses) ==
  /\ toChild' = [toChild EXCEPT ![w] = Piped(w, job[w])]
  /\ remaining_uses' = [remaining_uses EXCEPT ![w] = IF uses > 0 THEN uses - 1 ELSE uses]
  /\ pc' = [pc EXCEPT ![w] = "recv"]

MaxUses == IF maximum_uses = 0 THEN None ELSE maximum_uses

\* _start, and the send of the initializer if there is one.
Start(w) ==
  /\ pc[w] = "send" /\ ~proc[w]
  /\ proc' = [proc EXCEPT ![w] = TRUE]
  /\ FreshChild(w, TRUE)
  /\ fromChild' = [fromChild EXCEPT ![w] = <<>>]
  /\ toChild' = [toChild EXCEPT ![w] = <<IF initializer THEN Init_ ELSE job[w]>>]
  /\ pc' = [pc EXCEPT ![w] = IF initializer THEN "init" ELSE "recv"]
  /\ remaining_uses' = [remaining_uses EXCEPT ![w] =
       IF initializer \/ MaxUses = None THEN None ELSE MaxUses - 1]
  /\ UNCHANGED <<todo, outcome, job, deaths>>

\* send with a process that is there (perhaps dead by now).
SendMore(w) ==
  /\ pc[w] = "send" /\ proc[w] /\ ~UsedUp(w)
  /\ SendTask(w, remaining_uses[w])
  /\ UNCHANGED <<todo, outcome, job, proc, childVars, fromChild, deaths>>

\* recv: the answer of the child.
Answer(w) == Head(fromChild[w])

Answered(w, kinds) ==
  /\ fromChild[w] # <<>>
  /\ Answer(w).kind \in kinds

AnswerTaken(w) == fromChild' = [fromChild EXCEPT ![w] = Tail(@)]

\* The parent has kept the worker's side of the pipe open.
AtEOFNever(w) == FALSE

\* The pipe is at its end.
AtEOF(w) == ~alive[w] /\ fromChild[w] = <<>>

\* The initializer returned: the task is sent.
InitDone(w) ==
  /\ pc[w] = "init" /\ Answered(w, {"COMPLETE"})
  /\ AnswerTaken(w)
  /\ SendTask(w, MaxUses)
  /\ UNCHANGED <<todo, outcome, job, proc, childVars, deaths>>

\* recv returns, or raises what the task (or the initializer) raised.  An answer
\* that is cut short raises as well: EOFError is no IOError.
RecvDone(w) ==
  /\ \/ pc[w] = "recv" /\ Answered(w, {"COMPLETE", "EXCEPTION", "TORN"})
     \/ pc[w] = "init" /\ Answered(w, {"EXCEPTION", "TORN"})
  /\ AnswerTaken(w)
  /\ Done(w, IF Answer(w).kind = "TORN" THEN "EXCEPTION" ELSE Answer(w).kind, Answer(w).of)
  /\ UNCHANGED <<proc, remaining_uses, childVars, toChild, deaths>>

\* recv of a timeout: the child still runs the task, so it is killed.
RecvTimeout(w) ==
  /\ pc[w] = "recv" /\ Answered(w, {"TIMEOUT"})
  /\ Done(w, "TIMEOUT", Answer(w).of)
  /\ Kill(w)
  /\ UNCHANGED deaths

\* _child_process_error
RecvEOF(w) ==
  /\ pc[w] \in {"init", "recv"} /\ AtEOF(w)
  /\ Done(w, "ChildProcessError", job[w])
  /\ Kill(w)
  /\ UNCHANGED deaths

\* PopenPoolExecutor.__del__, when no future is left to refer to the pool.
Delete(w) ==
  /\ todo = {} /\ \A v \in Workers : pc[v] = "idle"
  /\ proc[w]
  /\ Kill(w)
  /\ UNCHANGED <<todo, outcome, pc, job, deaths>>

ParentStep(w) ==
  \/ Take(w) \/ Recycle(w) \/ Start(w) \/ SendMore(w)
  \/ InitDone(w) \/ RecvDone(w) \/ RecvTimeout(w) \/ RecvEOF(w)
-----------------------------------------------------------------------------
(* popen_worker.main *)

parentSide == <<parentVars, deaths>>

\* The child reads a task and starts its timer (the initializer has none).
ChildRead(w) ==
  /\ alive[w] /\ main[w] = "read" /\ toChild[w] # <<>>
  /\ LET j == Head(toChild[w])
     IN  /\ toChild' = [toChild EXCEPT ![w] = Tail(@)]
         /\ cur' = [cur EXCEPT ![w] = j]
         /\ status' = [status EXCEPT ![w][j] = "RUNNING"]
         /\ timer' = [timer EXCEPT ![w][j] =
                        IF timeout /\ j # Init_ THEN "armed" ELSE "none"]
         /\ used' = [used EXCEPT ![w] = IF j = Init_ THEN @ ELSE @ \union {j}]
  /\ main' = [main EXCEPT ![w] = "run"]
  /\ UNCHANGED <<parentSide, alive, ret_value, lock, fromChild>>

\* fn returns, or raises an Exception.
ChildFinish(w) ==
  /\ alive[w] /\ main[w] = "run" /\ cur[w] \notin Hangs
  /\ \E r \in {"COMPLETE", "EXCEPTION"} : ret_value' = [ret_value EXCEPT ![w] = r]
  /\ main' = [main EXCEPT ![w] = "cancel"]
  /\ UNCHANGED <<parentSide, alive, cur, status, timer, lock, used, toChild, fromChild>>

\* watcher.cancel(): too late for a timer that has fired.
ChildCancel(w) ==
  /\ alive[w] /\ main[w] = "cancel"
  /\ timer' = [timer EXCEPT ![w][cur[w]] = IF @ = "armed" THEN "over" ELSE @]
  /\ main' = [main EXCEPT ![w] = "lock"]
  /\ UNCHANGED <<parentSide, alive, cur, ret_value, status, lock, used, toChild, fromChild>>

\* The lock does not exclude.
LockBroken(w) == TRUE

LockFree(w) == lock[w] = Nobody

\* The main thread has the lock.
ChildLock(w) ==
  /\ alive[w] /\ main[w] = "lock" /\ LockFree(w)
  /\ lock' = [lock EXCEPT ![w] = Main]
  /\ main' = [main EXCEPT ![w] = IF status[w][cur[w]] = "RUNNING" THEN "respond"
                                 ELSE "unlock"]
  /\ UNCHANGED <<parentSide, alive, cur, ret_value, status, timer, used, toChild, fromChild>>

\* The answer, unless the timer was first; then the lock is released.
ChildRespond(w) ==
  /\ alive[w] /\ main[w] \in {"respond", "unlock"}
  /\ IF main[w] = "respond"
     THEN /\ fromChild' = [fromChild EXCEPT ![w] =
                             Append(@, [kind |-> ret_value[w], of |-> cur[w]])]
          /\ status' = [status EXCEPT ![w][cur[w]] = "COMPLETE"]
     ELSE UNCHANGED <<fromChild, status>>
  /\ lock' = [lock EXCEPT ![w] = Nobody]
  /\ main' = [main EXCEPT ![w] = "read"]
  /\ UNCHANGED <<parentSide, alive, cur, ret_value, timer, used, toChild>>

\* The timeout is over: _cancel_run is called, and waits for the lock.
TimerFires(w, t) ==
  /\ alive[w] /\ timer[w][t] = "armed"
  /\ timer' = [timer EXCEPT ![w][t] = "fired"]
  /\ UNCHANGED <<parentSide, alive, main, cur, ret_value, status, lock, used, toChild,
                 fromChild>>

\* A timer looks at the status of the task that runs now.
WatchesCurrent(w, t) == status[w][cur[w]] = "RUNNING"

\* Each timer has the status of its own task.
Watches(w, t) == status[w][t] = "RUNNING"

TimerLock(w, t) ==
  /\ alive[w] /\ timer[w][t] = "fired" /\ LockFree(w)
  /\ lock' = [lock EXCEPT ![w] = t]
  /\ timer' = [timer EXCEPT ![w][t] = IF Watches(w, t) THEN "respond" ELSE "unlock"]
  /\ UNCHANGED <<parentSide, alive, main, cur, ret_value, status, used, toChild, fromChild>>

TimerRespond(w, t) ==
  /\ alive[w] /\ timer[w][t] \in {"respond", "unlock"}
  /\ IF timer[w][t] = "respond"
     THEN /\ fromChild' = [fromChild EXCEPT ![w] = Append(@, [kind |-> "TIMEOUT", of |-> t])]
          /\ status' = [status EXCEPT ![w][t] = "TIMEOUT"]
     ELSE UNCHANGED <<fromChild, status>>
  /\ lock' = [lock EXCEPT ![w] = Nobody]
  /\ timer' = [timer EXCEPT ![w][t] = "over"]
  /\ UNCHANGED <<parentSide, alive, main, cur, ret_value, used, toChild>>

\* The child dies: the task exits, cannot be answered, or the system kills it; it
\* may be in the middle of an answer.
ChildDies(w) ==
  /\ alive[w] /\ deaths > 0
  /\ deaths' = deaths - 1
  /\ FreshChild(w, FALSE)
  /\ \/ UNCHANGED fromChild
     \/ /\ main[w] = "respond"
        /\ fromChild' = [fromChild EXCEPT ![w] = Append(@, [kind |-> "TORN", of |-> cur[w]])]
  /\ toChild' = [toChild EXCEPT ![w] = <<>>]
  /\ UNCHANGED parentVars

ChildStep(w) ==
  \/ ChildRead(w) \/ ChildFinish(w) \/ ChildCancel(w) \/ ChildLock(w) \/ ChildRespond(w)
  \/ \E t \in Tasks : TimerLock(w, t) \/ TimerRespond(w, t)

Next ==
  \E w \in Workers :
    \/ ParentStep(w) \/ Delete(w)
    \/ ChildStep(w) \/ (\E t \in Tasks : TimerFires(w, t))
    \/ ChildDies(w)

Spec == Init /\ [][Next]_vars

\* Threads, children and timers go on; nobody promises that a child dies or that
\* the pool is deleted.
FairSpec ==
  Spec /\ \A w \in Workers :
            WF_vars(ParentStep(w)) /\ WF_vars(ChildStep(w))
            /\ WF_vars(\E t \in Tasks : TimerFires(w, t))
-----------------------------------------------------------------------------
(* Properties *)

Kinds == {"COMPLETE", "EXCEPTION", "TIMEOUT", "TORN"}

\* The variables hold values of their types.
TypeOK ==
  /\ todo \subseteq Tasks
  /\ outcome \in [Tasks -> [kind : (Kinds \ {"TORN"}) \union {"none", "ChildProcessError"},
                            of : Jobs \union {Nobody}]]
  /\ pc \in [Workers -> {"idle", "send", "init", "recv"}]
  /\ job \in [Workers -> Tasks \union {Nobody}]
  /\ proc \in [Workers -> BOOLEAN]
  /\ remaining_uses \in [Workers -> -1 .. maximum_uses]
  /\ toChild \in [Workers -> Seq(Jobs)]
  /\ fromChild \in [Workers -> Seq([kind : Kinds, of : Jobs])]
  /\ alive \in [Workers -> BOOLEAN]
  /\ main \in [Workers -> {"read", "run", "cancel", "lock", "respond", "unlock"}]
  /\ cur \in [Workers -> Jobs \union {Nobody}]
  /\ ret_value \in [Workers -> {"COMPLETE", "EXCEPTION"}]
  /\ status \in [Workers -> [Jobs -> {"new", "RUNNING", "COMPLETE", "TIMEOUT"}]]
  /\ timer \in [Workers -> [Jobs -> {"none", "armed", "fired", "respond", "unlock", "over"}]]
  /\ lock \in [Workers -> Tasks \union {Main, Nobody}]
  /\ used \in [Workers -> SUBSET Tasks]
  /\ deaths \in 0 .. MaxDeath

\* A future has the result of its own task: neither a late answer of an earlier
\* task nor the timer of an earlier task ends up as its result.  (Only an
\* initializer that raises is reported instead of the task.)
OwnResult ==
  \A t \in Tasks : outcome[t].kind # "none" =>
    outcome[t].of = t \/ (outcome[t].of = Init_ /\ outcome[t].kind = "EXCEPTION")

\* Parent and child stay in step: when the thread is not waiting for an answer,
\* nothing is left in either pipe; while it waits, at most one answer is.
InStep ==
  \A w \in Workers :
    /\ pc[w] \in {"idle", "send"} => toChild[w] = <<>> /\ fromChild[w] = <<>>
    /\ Len(fromChild[w]) <= 1

\* When a future has its result, its task runs nowhere any more: a task that timed
\* out has been killed before the caller is told.
ResultIsFinal ==
  \A t \in Tasks, w \in Workers :
    outcome[t].kind # "none" => ~(alive[w] /\ main[w] = "run" /\ cur[w] = t)

\* "The maximum number of times a process can be used before being recycled", for a
\* process whose initializer has returned (or that has none).
UsesAreBounded ==
  \A w \in Workers : remaining_uses[w] # None => Cardinality(used[w]) <= maximum_uses

\* The same for every process.
EveryUseIsCounted ==
  \A w \in Workers : maximum_uses # 0 => Cardinality(used[w]) <= maximum_uses

\* Every future gets a result, also of tasks that hang (they time out) and of tasks
\* whose child dies.
EveryTaskEnds == <>(\A t \in Tasks : outcome[t].kind # "none")
=============================================================================
