-------------------------- MODULE PipelineRuntime ---------------------------
(***************************************************************************)
(* The pipeline executor of src/src/runtime/pipeline: BackendRuntime,      *)
(* GlobalRuntime, DataNotify (pipeline_struct.h) and SPSCLockFreeQueue     *)
(* (spsc_queue.h).                                                         *)
(*                                                                         *)
(* Runtime 0 runs in the thread of the user; each later runtime has a      *)
(* thread that waits for its inputs, runs its module and forwards what it  *)
(* computed.  Every pair of an output and an input that it is bound to has *)
(* a queue with one producer and one consumer.  A tensor is abstracted to  *)
(* the set of the frames (calls of Run) whose inputs it was computed from. *)
(*                                                                         *)
(* StopPipeline is called by ~BackendRuntime only, which never happens:    *)
(* GlobalRuntime::runtimes_ and BackendRuntime::children_ refer to each    *)
(* other with shared pointers.  So no runtime ever leaves RUNNING, and     *)
(* the GlobalRuntime, whose state nobody sets, never leaves STOPPED.       *)
(***************************************************************************)
EXTENDS Integers

CONSTANTS
  N,         \* runtimes 0 .. N-1
  Bindings,  \* [src, dst, in]: an output of src is bound to input in of dst
  len_,      \* slots of a queue (1024 in the code)
  MaxFrame   \* bound: calls of Run

GLOBAL == -1             \* GLOBAL_MODULE_INDEX
Runtimes == 0 .. N - 1
User == 0                \* the user's thread, which also runs runtime 0
Threads == Runtimes

\* PipelineConfig orders the modules; an input is bound once; the outputs of every
\* module go somewhere; a global input has the
\* index of the input it is bound to, because CreateParentsNotify is called with the
\* one and ParentNotify with the other.
ASSUME PipelineAssumption ==
  /\ N \in Nat \ {0} /\ len_ \in Nat \ {0, 1} /\ MaxFrame \in Nat
  /\ Bindings \subseteq [src : Runtimes \union {GLOBAL}, dst : Runtimes \union {GLOBAL},
                         in : Nat]
  /\ \A b \in Bindings : b.dst = GLOBAL \/ b.src < b.dst
  /\ \A b \in Bindings : b.src = GLOBAL => b.dst # GLOBAL
  /\ \A b, c \in Bindings : b.dst = c.dst /\ b.in = c.in => b = c
  /\ \A r \in Runtimes : \E b \in Bindings : b.src = r

\* CreateForwardingQueue: what the first runtime gets from the user needs no queue.
Queues == {b \in Bindings : ~(b.src = GLOBAL /\ b.dst = 0)}

Inputs(r) == {b \in Queues : b.dst = r}
Children(r) == {b \in Bindings : b.src = r}
Slots == 0 .. len_ - 1

VARIABLES
  queue_, head_, tail_,  \* of each queue
  data_ready_,           \* of the DataNotify of each input
  pc,                    \* where each thread is
  owner,                 \* the runtime whose ForwardData the thread is in
  todo,                  \* bindings the thread has yet to load from or to forward to
  at,                    \* {the binding the thread is busy with}
  data,                  \* the tensor the thread holds
  tensor,                \* the input tensors of each module: binding -> frames
  frame,                 \* calls of Run so far
  unset,                 \* the global inputs the user has yet to set for this frame
  outputs,               \* what GetOutput returned so far: binding -> sequence number -> frames
  count,                 \* calls of GetOutput that returned data
  dropped                \* the first frame of which SetPipelineInput dropped an input, or 0

queueVars == <<queue_, head_, tail_, data_ready_>>
threadVars == <<pc, owner, todo, at, data>>
userVars == <<frame, unset, outputs, count, dropped>>
vars == <<queueVars, threadVars, userVars, tensor>>

Init ==
  /\ queue_ = [q \in Queues |-> [s \in Slots |-> {}]]
  /\ head_ = [q \in Queues |-> 0]
  /\ tail_ = [q \in Queues |-> 0]
  /\ data_ready_ = [q \in Queues |-> FALSE]
  /\ pc = [t \in Threads |-> IF t = User THEN "idle" ELSE "load"]
  /\ owner = [t \in Threads |-> t]
  /\ todo = [t \in Threads |-> IF t = User THEN {} ELSE Inputs(t)]
  /\ at = [t \in Threads |-> {}]
  /\ data = [t \in Threads |-> {}]
  /\ tensor = [b \in Bindings |-> {}]
  /\ frame = 0
  /\ unset = Children(GLOBAL)
  /\ outputs = [b \in Inputs(GLOBAL) |-> [k \in 1 .. MaxFrame |-> {}]]
  /\ count = 0
  /\ dropped = 0

-----------------------------------------------------------------------------
(* SPSCLockFreeQueue *)

After(i) == (i + 1) % len_

Full(q) == After(tail_[q]) = head_[q]

\* One datum is kept back.
EmptyButOne(q) == tail_[q] \in {head_[q], After(head_[q])}

Empty(q) == head_[q] = tail_[q]

-----------------------------------------------------------------------------
(* Loading: WaitAndLoadPipelineData of a worker, GetOutput of the user *)

\* The next input of the thread; parents_notify_ and input_queue_ are unordered.
Choose(t) ==
  /\ pc[t] = "load" /\ todo[t] # {}
  /\ \E q \in todo[t] : at' = [at EXCEPT ![t] = {q}]
  /\ pc' = [pc EXCEPT ![t] = "poll"]
  /\ UNCHANGED <<queueVars, userVars, tensor, owner, todo, data>>

\* LoadBindingData finds data: Poll copies the slot at the head.
Poll(t) ==
  /\ pc[t] = "poll"
  /\ \E q \in at[t] :
       /\ ~Empty(q)
       /\ data' = [data EXCEPT ![t] = queue_[q][head_[q]]]
  /\ pc' = [pc EXCEPT ![t] = "polled"]
  /\ UNCHANGED <<queueVars, userVars, tensor, owner, todo, at>>

\* LoadBindingData finds no data, and the worker is about to wait for the notification.
PollEmpty(t) ==
  /\ pc[t] = "poll" /\ t # User
  /\ \E q \in at[t] : Empty(q)
  /\ pc' = [pc EXCEPT ![t] = "empty"]
  /\ UNCHANGED <<queueVars, userVars, tensor, owner, todo, at, data>>

\* A notification is taken for the data itself.
WaitIsEnough(t) ==
  /\ pc[t] \in {"empty", "wait"}
  /\ \E q \in at[t] :
       /\ data_ready_[q]
       /\ data_ready_' = [data_ready_ EXCEPT ![q] = FALSE]
       /\ todo' = [todo EXCEPT ![t] = @ \ {q}]
  /\ pc' = [pc EXCEPT ![t] = "load"]
  /\ UNCHANGED <<queue_, head_, tail_, userVars, tensor, owner, at, data>>

\* DataNotify::Wait returns, at once or after a sleep, and the queue is polled again.
Wait(t) ==
  /\ pc[t] \in {"empty", "wait"}
  /\ \E q \in at[t] :
       /\ data_ready_[q]
       /\ data_ready_' = [data_ready_ EXCEPT ![q] = FALSE]
  /\ pc' = [pc EXCEPT ![t] = "poll"]
  /\ UNCHANGED <<queue_, head_, tail_, userVars, tensor, owner, todo, at, data>>

\* DataNotify::Wait finds data_ready_ false, and the worker sleeps.
Sleep(t) ==
  /\ pc[t] = "empty"
  /\ \E q \in at[t] : ~data_ready_[q]
  /\ pc' = [pc EXCEPT ![t] = "wait"]
  /\ UNCHANGED <<queueVars, userVars, tensor, owner, todo, at, data>>

\* The head moves on, and a worker sets the input of its module.
Polled(t) ==
  /\ pc[t] = "polled" /\ t # User
  /\ \E q \in at[t] :
       /\ head_' = [head_ EXCEPT ![q] = After(@)]
       /\ tensor' = [tensor EXCEPT ![q] = data[t]]
       /\ todo' = [todo EXCEPT ![t] = @ \ {q}]
  /\ pc' = [pc EXCEPT ![t] = "load"]
  /\ UNCHANGED <<queue_, tail_, data_ready_, userVars, owner, at, data>>

-----------------------------------------------------------------------------
(* RunPipeline *)

\* run_: every output depends on every input of the module.
Computed(r) == UNION {tensor[b] : b \in {c \in Bindings : c.dst = r}}

\* A worker runs when all its inputs are loaded.
RunModule(t) ==
  /\ pc[t] = "load" /\ todo[t] = {} /\ t # User
  /\ data' = [data EXCEPT ![t] = Computed(t)]
  /\ todo' = [todo EXCEPT ![t] = Children(t)]
  /\ pc' = [pc EXCEPT ![t] = "forward"]
  /\ UNCHANGED <<queueVars, userVars, tensor, owner, at>>

-----------------------------------------------------------------------------
(* ForwardData *)

\* Where a thread goes when it has forwarded everything.
Returned(t) ==
  /\ todo' = [todo EXCEPT ![t] = IF t = User THEN {} ELSE Inputs(t)]
  /\ pc' = [pc EXCEPT ![t] = IF t = User THEN "idle" ELSE "load"]

\* Push stores the data, for the next of the children.
Push(t) ==
  /\ pc[t] = "forward"
  /\ \E q \in todo[t] :
       /\ ~Full(q)
       /\ queue_' = [queue_ EXCEPT ![q][tail_[q]] = data[t]]
       /\ at' = [at EXCEPT ![t] = {q}]
  /\ pc' = [pc EXCEPT ![t] = "publish"]
  /\ UNCHANGED <<head_, tail_, data_ready_, userVars, tensor, owner, todo, data>>

\* The tail moves, and the data can be polled.
Publish(t) ==
  /\ pc[t] = "publish"
  /\ \E q \in at[t] : tail_' = [tail_ EXCEPT ![q] = After(@)]
  /\ pc' = [pc EXCEPT ![t] = "notify"]
  /\ UNCHANGED <<queue_, head_, data_ready_, userVars, tensor, owner, todo, at, data>>

\* Notify only a thread that is waiting already.
NotifySleeper(q) == data_ready_[q] \/ (q.dst # GLOBAL /\ pc[q.dst] = "wait")

\* ParentNotify; that of the GlobalRuntime is empty.
Notified(q) == q.dst # GLOBAL

Notify(t) ==
  /\ pc[t] = "notify"
  /\ \E q \in at[t] :
       /\ data_ready_' = [data_ready_ EXCEPT ![q] = Notified(q)]
       /\ IF todo[t] = {q} THEN Returned(t)
          ELSE /\ todo' = [todo EXCEPT ![t] = @ \ {q}]
               /\ pc' = [pc EXCEPT ![t] = "forward"]
  /\ UNCHANGED <<queue_, head_, tail_, userVars, tensor, owner, at, data>>

PipelineIsStop(r) == r = GLOBAL

\* Push found the queue full; only a pipeline that is stopped makes ForwardData give
\* up, and the data is lost.
GiveUp(t) ==
  /\ pc[t] = "forward"
  /\ \E q \in todo[t] : Full(q)
  /\ PipelineIsStop(owner[t])
  /\ Returned(t)
  /\ dropped' = IF dropped = 0 THEN frame + 1 ELSE dropped
  /\ UNCHANGED <<queueVars, tensor, frame, unset, outputs, count, owner, at, data>>

-----------------------------------------------------------------------------
(* The user *)

\* SetPipelineInput: directly into the first runtime, through a queue otherwise.
SetPipelineInput ==
  /\ pc[User] = "idle" /\ frame < MaxFrame
  /\ \E b \in unset :
       /\ unset' = unset \ {b}
       /\ IF b.dst = 0
          THEN /\ tensor' = [tensor EXCEPT ![b] = {frame + 1}]
               /\ UNCHANGED threadVars
          ELSE /\ data' = [data EXCEPT ![User] = {frame + 1}]
               /\ owner' = [owner EXCEPT ![User] = GLOBAL]
               /\ todo' = [todo EXCEPT ![User] = {b}]
               /\ pc' = [pc EXCEPT ![User] = "forward"]
               /\ UNCHANGED <<tensor, at>>
  /\ UNCHANGED <<queueVars, frame, outputs, count, dropped>>

\* Run, after all the inputs of the frame have been set.
Run ==
  /\ pc[User] = "idle" /\ unset = {} /\ frame < MaxFrame
  /\ frame' = frame + 1
  /\ unset' = Children(GLOBAL)
  /\ data' = [data EXCEPT ![User] = Computed(0)]
  /\ owner' = [owner EXCEPT ![User] = 0]
  /\ todo' = [todo EXCEPT ![User] = Children(0)]
  /\ pc' = [pc EXCEPT ![User] = "forward"]
  /\ UNCHANGED <<queueVars, tensor, outputs, count, dropped, at>>

\* One output is enough.
DataIsReadySome == \E q \in Inputs(GLOBAL) : ~Empty(q)

DataIsReady == \A q \in Inputs(GLOBAL) : ~Empty(q)

\* GetOutput: the queues of all outputs have data, and are polled one after the other.
GetOutput ==
  /\ pc[User] = "idle" /\ count < MaxFrame
  /\ DataIsReady
  /\ count' = count + 1
  /\ todo' = [todo EXCEPT ![User] = Inputs(GLOBAL)]
  /\ pc' = [pc EXCEPT ![User] = "load"]
  /\ UNCHANGED <<queueVars, tensor, frame, unset, outputs, dropped, owner, at, data>>

\* One of the output arrays has been filled.
PolledOutput ==
  /\ pc[User] = "polled"
  /\ \E q \in at[User] :
       /\ head_' = [head_ EXCEPT ![q] = After(@)]
       /\ outputs' = [outputs EXCEPT ![q][count] = data[User]]
       /\ todo' = [todo EXCEPT ![User] = @ \ {q}]
       /\ pc' = [pc EXCEPT ![User] = IF todo[User] = {q} THEN "idle" ELSE "load"]
  /\ UNCHANGED <<queue_, tail_, data_ready_, tensor, frame, unset, count, dropped, owner, at,
                 data>>

-----------------------------------------------------------------------------

ThreadStep(t) ==
  \/ Choose(t) \/ Poll(t) \/ PollEmpty(t) \/ Wait(t) \/ Sleep(t) \/ Polled(t)
  \/ RunModule(t) \/ Push(t) \/ Publish(t) \/ Notify(t) \/ GiveUp(t)

UserStep == SetPipelineInput \/ Run \/ GetOutput \/ PolledOutput

Next == (\E t \in Threads : ThreadStep(t)) \/ UserStep

Spec == Init /\ [][Next]_vars

\* The threads are scheduled, and the user asks for outputs until there are no more.
FairSpec ==
  Spec /\ (\A t \in Threads : WF_vars(ThreadStep(t))) /\ WF_vars(UserStep)
-----------------------------------------------------------------------------
(* Properties *)

\* The variables hold values of their types.
TypeOK ==
  /\ queue_ \in [Queues -> [Slots -> SUBSET (1 .. MaxFrame)]]
  /\ head_ \in [Queues -> Slots] /\ tail_ \in [Queues -> Slots]
  /\ data_ready_ \in [Queues -> BOOLEAN]
  /\ pc \in [Threads -> {"idle", "load", "poll", "polled", "empty", "wait", "forward", "publish",
                         "notify"}]
  /\ owner \in [Threads -> Runtimes \union {GLOBAL}]
  /\ todo \in [Threads -> SUBSET Queues] /\ at \in [Threads -> SUBSET Queues]
  /\ data \in [Threads -> SUBSET (1 .. MaxFrame)]
  /\ tensor \in [Bindings -> SUBSET (1 .. MaxFrame)]
  /\ frame \in 0 .. MaxFrame /\ count \in 0 .. MaxFrame
  /\ unset \subseteq Bindings
  /\ outputs \in [Inputs(GLOBAL) -> [1 .. MaxFrame -> SUBSET (1 .. MaxFrame)]]
  /\ dropped \in 0 .. MaxFrame

\* "There is no data in the data queue, it should not happen!": when GetOutput polls the
\* queue of an output after DataIsReady, the queue has data.
DataIsThere == pc[User] = "poll" => \A q \in at[User] : ~Empty(q)

\* The frames before the first one that lacks an input.
Intact(k) == dropped = 0 \/ k < dropped

\* Frames stay in step on all the paths of the pipeline, whatever the speeds of the
\* threads: a module never mixes inputs of two frames, and the k-th data that GetOutput
\* returns is that of the k-th call of Run, on every output.  An input that was dropped
\* spoils nothing of the frames before it.
FramesInStep ==
  /\ \A t \in Threads : dropped = 0 /\ pc[t] = "forward" => \E k \in data[t] : data[t] = {k}
  /\ \A q \in Inputs(GLOBAL), k \in 1 .. MaxFrame :
       Intact(k) => outputs[q][k] \in {{}, {k}}

\* No wake-up is lost: a worker that waits for data which is there has been notified, or
\* the producer is about to notify it.
WakeUpIsDue ==
  \A t \in Threads \ {User} : pc[t] = "wait" =>
    \A q \in at[t] :
      \/ Empty(q) \/ data_ready_[q]
      \/ \E p \in Threads : pc[p] = "notify" /\ at[p] = {q}

\* Every frame comes out at the end, up to the first one that lacks an input.
EveryFrameComesOut == <>[](\A k \in 1 .. MaxFrame : Intact(k) => count >= k)

\* "If the queue is full, keep try until the push get success": no input that the user
\* sets is lost while the runtimes are running.
InputsAreKept == dropped = 0
=============================================================================
