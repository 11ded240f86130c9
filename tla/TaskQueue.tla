----------------------------- MODULE TaskQueue -----------------------------
(***************************************************************************)
(* What a worker's queue promises to the thread pool: a first-in first-out *)
(* channel of bounded capacity.  Push and Pop block; Pop gives up once the *)
(* queue is killed.  SpscTaskQueue implements it, and ThreadPool relies on *)
(* nothing else.                                                           *)
(***************************************************************************)
EXTENDS Naturals, Sequences

CONSTANTS
  Capacity,    \* tasks the queue hosts at a time
  MaxPush      \* bound: the calls of Push in a behaviour

VARIABLES
  items,       \* tasks in the queue, oldest first
  pushed,      \* tasks whose Push has started; a task is its number
  pushing,     \* TRUE from the call of Push until the task is in the queue
  taken,       \* the task last taken by Pop
  killed,
  exited       \* Pop has returned FALSE

vars == <<items, pushed, pushing, taken, killed, exited>>

Init ==
  /\ items = <<>>
  /\ pushed = 0
  /\ pushing = FALSE
  /\ taken = 0
  /\ killed = FALSE
  /\ exited = FALSE

CallPush ==
  /\ ~pushing
  /\ ~killed
  /\ pushed < MaxPush
  /\ pushed' = pushed + 1
  /\ pushing' = TRUE
  /\ UNCHANGED <<items, taken, killed, exited>>

Put ==
  /\ pushing
  /\ Len(items) < Capacity
  /\ items' = Append(items, pushed)
  /\ pushing' = FALSE
  /\ UNCHANGED <<pushed, taken, killed, exited>>

Get ==
  /\ ~exited
  /\ items # <<>>
  /\ taken' = Head(items)
  /\ items' = Tail(items)
  /\ UNCHANGED <<pushed, pushing, killed, exited>>

Kill ==
  /\ ~pushing
  /\ ~killed
  /\ killed' = TRUE
  /\ UNCHANGED <<items, pushed, pushing, taken, exited>>

Exit ==
  /\ killed
  /\ ~exited
  /\ exited' = TRUE
  /\ UNCHANGED <<items, pushed, pushing, taken, killed>>

Next == CallPush \/ Put \/ Get \/ Kill \/ Exit

\* A task is put as soon as there is room, and taken once it is there; a killed
\* consumer exits.
Spec == Init /\ [][Next]_vars /\ WF_vars(Put) /\ WF_vars(Get \/ Exit)
============================================================================
