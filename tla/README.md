# TLA+ models of the TVM runtime and of the TL software pipeline

This directory is a verification development for the repository: TVM with the
tile-language extension "TL". It models the parts in which an error needs an
unlucky interleaving, a lost connection, a late completion or a corner of the
arithmetic to show: the thread pool that runs parallel loops on CPUs; the compiler
passes that turn a `T.Pipelined` loop into a software pipeline with asynchronous
copies; the RPC tracker, servers, clients and proxy that share out remote devices; the
pool of worker processes that tuning uses; the pipeline executor; the session between a
host and a microTVM device; and the pool of workspaces. Paths below are relative to
the root of the repository.

## 1. The system

TVM is a compiler stack (Python and C++) and a runtime. Most of it is sequential
tree rewriting: a program is a tree, a pass returns another tree. What holds state
and runs concurrently is the runtime, and what is hard to get right in the compiler
is where a pass changes the *order* in which a program does things.

| Part | State | Operations | What makes it hard | Here |
|---|---|---|---|---|
| Task queue of a worker (`src/runtime/thread_pool.cc`, `SpscTaskQueue`) | ring of tasks, `head_`, `tail_`, an 8-bit counter `pending_`, `exit_now_`, mutex and condition variable | `Push`, `Pop`, `SignalForKill` | ring and counter are updated at different times; sleeping and waking; kill at any time | modelled, proved |
| Thread pool (`ThreadPool`, `ParallelLauncher`, `TVMBackendParallelLaunch`, `TVMBackendParallelBarrier`; `threading_backend.cc`) | pending jobs, error strings and flag, barrier counters, queues, workers in use | launch, barrier, finish, error, wait, `Reset`, `config_threadpool` | threads that spin on each other, state kept from launch to launch, an error path without a lock | modelled, safety proved |
| Pipeline planning (`src/tl/pipeline_planning.cc`) | order and stage of every statement | use-def analysis, reordering | moves statements across iterations | modelled, proved with the injection |
| Pipeline injection (`src/tl/inject_pipeline.cc`) | buffer versions, commit groups, wait counts | validation, prologue/body/epilogue, rewriting of accesses | copies that land late; loops shorter than the pipeline; counting commits | modelled, proved |
| Rest of TL (`src/tl`) | layouts, fragments, thread bindings | layout inference, lowering of tile operators, loop partition, vectorisation, code generation | index arithmetic | plan |
| RPC tracker, server, client (`python/tvm/rpc/tracker.py`, `server.py`, `client.py`) | queues of requests and of free servers per key, match keys | put, request, disconnect, poll, regenerate, retry | connections and processes that die, keys that go stale | modelled |
| RPC proxy (`python/tvm/rpc/proxy.py`, `tornado_util.py`) | pools of waiting servers and clients, pairs, bytes to be written, timers, keys put to the tracker | pair, forward, close, time out, update the tracker | either side leaves at any time, sockets that are full, stale timers | modelled, but for the WebSocket handler |
| RPC endpoint (`src/runtime/rpc`) | event handler state, byte buffers | call, copy, return, exception | nested calls over one channel | plan |
| microTVM session (`src/runtime/crt/microtvm_rpc_common`, `src/runtime/micro/micro_session.cc`) | session state and nonces, receive buffers | start, send, receive, terminate | late and torn packets; retries; restarts of the device | modelled, but for the bytes of a packet; safety proved |
| Pipeline executor (`src/runtime/pipeline`) | a queue between any two runtimes, a thread per runtime | set input, run, load, forward, notify, get output | threads, bounded queues, notification | modelled, safety proved |
| Workspace pool (`src/runtime/workspace_pool.cc`) | list of free blocks, list of blocks in use | alloc, free, release | reuse, a device that throws when it allocates or frees | modelled, proved |
| Other device memory (`memory/`, CRT allocators, Hexagon VTCM, ring buffer and DMA) | free lists | alloc, free, release | reuse and exhaustion | plan |
| Worker processes (`python/tvm/contrib/popen_pool.py`, `python/tvm/exec/popen_worker.py`) | process, pipes, timers, lock | send, receive, answer, time out, kill | a timeout that races the answer | modelled, safety proved |
| Graph executor, VM, AOT executor, modules, packed functions, profiling | object graphs | sequential interpretation | – | no |
| Compiler: Relay, TIR, TE, arithmetic, target, code generation, schedules and tuners | IR trees, search state | passes, search | pure transformations | no |
| Device APIs, bindings, applications, VTA, web | – | wrappers | – | no |

The parts interact as follows. A compiled CPU function calls
`TVMBackendParallelLaunch`; the launching thread pushes one task into the queue of
each worker and waits until all of them have signalled. `ThreadPool` relies on what
`TaskQueue` promises, and `SpscTaskQueue` is shown to implement that. On the GPU side the
planning pass annotates the loop, the injection pass consumes the annotations, and
later passes turn its attributes into `cp.async` instructions; `PipelineExec`
composes the two passes with the execution of their result. A server registers with the
tracker directly, or through the proxy when it cannot be reached: `RpcServer` and `RpcProxy`
are two compositions over the same `RpcTracker` and `RpcClient`. The worker processes,
the pipeline executor, the microTVM session and the workspace pool stand alone; they meet the
rest through packed functions, which carry no state of their own.

## 2. Modules

| Module | Content |
|---|---|
| `SpscTaskQueue` | the queue of one worker; a step is one access to a shared variable |
| `TaskQueue` | what the queue promises: a bounded first-in first-out channel that can be killed |
| `MCSpscTaskQueue` | the refinement mapping from the first to the second |
| `SpscTaskQueueProofs` | the inductive invariant of the queue and its proof; the refinement |
| `ThreadPool` | launcher, pool, workers, barrier, errors, reset, configuration |
| `MCThreadPool` | configurations for TLC |
| `ThreadPoolProofs` | the inductive invariant of the pool, its preservation and the theorems that follow; the barrier |
| `PipelinePlanning` | the planner, as operators on a loop body |
| `InjectPipeline` | the analysis of the injection pass, as operators |
| `PipelineExec` | the two passes as steps, then the execution of the emitted loop |
| `MCPipeline` | the loops that are checked |
| `PipelineProofs` | the plan, the buffer versions and the order of conflicting accesses, for every body and plan |
| `PipelineExecProofs` | the execution of the emitted loop, on top of it: which instances run, what they read, what the copies wait for |
| `RpcTracker` | the tracker: schedulers and connection handlers, over channels that end |
| `RpcClient` | the clients of the tracker, on top of it: request, connect, retry, crash |
| `RpcServer` | the servers, composed with tracker and clients |
| `MatchKeyLease` | what they promise together: the life of a match key; `RpcServer` has the refinement mapping |
| `MCRpcServer` | priorities and retries for TLC |
| `RpcProxy`, `MCRpcProxy` | the proxy and the servers behind it, composed with tracker and clients; the values for TLC |
| `PopenPool`, `MCPopenPool` | the executor, its workers and their child processes; the values for TLC |
| `PopenPoolProofs` | the inductive invariant, its preservation by the child and by the parent, and the theorems |
| `PipelineRuntime`, `MCPipelineRuntime` | the pipeline executor; the pipeline that TLC runs |
| `PipelineRuntimeProofs` | the invariant of queues and notifications; the counting of frames; the theorems |
| `MicroSession`, `MCMicroSession` | both ends of a microTVM session; the nonces for TLC |
| `MicroSessionProofs` | the invariant of sessions, packets and nonces, and its proof |
| `WorkspacePool` | the pool of one device in one thread |
| `WorkspacePoolProofs` | the invariant of the two lists and its proof |

`PROJECT.json` maps every definition to the lines it models.

### SpscTaskQueue

`buffer_`, `head_`, `tail_`, `pending_`, `exit_now_` and the mutex are the fields of
the class. Tasks are numbered in the order they are pushed. `ppc` and `cpc` are the program
counters of the producer (the launching thread) and of the consumer (the worker).

* `PushBegin`, `EnqueueStore`, `EnqueuePublish`, `PushAdd`, `PushNotify`: `Push`, cut
  where another thread can look. `Enqueue` fails and is retried while the ring is full.
  The notification takes the mutex only when `fetch_add` returned -1.
* `SignalForKill` sets the flag and notifies, under the mutex.
* The actions named `Pop...`: the busy wait, `fetch_sub`, the test of the predicate
  under the mutex, the sleep, the check after waking, the removal from the ring.
  `pending_` is an `int8_t`: its arithmetic is modulo 256 (`Int8`).

The atomics with acquire and release ordering are modelled as sequentially consistent;
the ring has one producer and one consumer, and the store of the slot precedes the
release of `tail_` that publishes it.

### ThreadPool

Pool and launcher are thread-local, so there is one launching thread. Lane `t` is where
task `t` runs: worker `t`, or the main thread for task 0 when `exclude_worker0_` is
set. The state of a task's body is its position among its barrier calls; after them it
returns 0 or fails.

* `Launch` .. `PushTask` .. `PushedAll` .. `WaitReturnsOk` / `WaitReturnsError`:
  `ThreadPool::Launch` with `ParallelLauncher::Init` and `WaitForJobs`. `Reshape` is the
  growth of `par_errors_` and `sync_counter_`. A launch of more tasks than workers in use
  fails an `ICHECK` and changes nothing.
* `LaunchInline`: `TVMBackendParallelLaunch` when one thread may run.
* `PopTask`, `WorkerExits`: `RunWorker`.
* `BarrierArrive`, `BarrierPeer`, `BarrierPass`: `TVMBackendParallelBarrier`, one peer at a
  time. A counter beyond the allocated ones (`Loads`) may read as anything.
* `SignalJobFinish`; `SignalJobError`, `RecordError`, `FlagError`: the error path is three
  separate accesses, as in the code.
* `Configure`: `config_threadpool`; `Reset`, `Reinit`: `ThreadPool::Reset`.

### PipelinePlanning, InjectPipeline, PipelineExec

A loop body is a sequence of statements, a statement the sets of buffers it reads and
writes (and whether it reads them through `tvm_access_ptr`). Regions are abstracted to
whole buffers. `Plan` is the annotation that `PipelinePlanning` puts on the loop;
`Analysis` is what `PipelineRewriter::BuildPipeline` computes: versions, commit groups,
which statements commit and which wait, and the numbers that `WaitCount` is made of.

`PipelineExec` starts with a loop, plans it (`PlanLoop`), rewrites it (`InjectLoop`) or rejects
it (`RejectLoop`), then runs the prologue, body and epilogue. `Run` executes a synchronous
statement, `Issue` an asynchronous copy, `Skip` a statement whose predicate is false. `Land`
lets a copy arrive at any time after it was issued; the wait before a statement is a guard
on the groups in flight. A buffer version contains the statement instance that wrote
it, so "reads the same instances as the original loop" means "computes the same".

### RpcTracker, RpcClient, RpcServer

The tracker is an event loop, so a handler runs as one step; what interleaves are messages and the
ends of connections. A connection is two in-order channels that end in `EOF`. A device kind
has a scheduler: a list of free servers (`values`) and a heap of requests, kept here in the order the
heap pops them (`heappush`).

* `Handle(c)`: the next message of connection `c` (`PutHandler`, request, summary of pending keys,
  `UPDATE_INFO`) or its end (`CloseHandler`, which takes the servers of the connection off the list).
  Each ends in `Schedule`, as `put` and `request` do.
* `SendRequest`, `ClientStep`: `TrackerSession.request`. A client sends its request, waits, connects to
  the server with the match key it was given, and retries `max_retry` times. `ClientCrash` is the death of
  its process at any point.
* `ServerStep`: `_listen_loop` and `_accept_conn`. A server connects, registers, puts a fresh key, then
  polls: it accepts a client, rejects one with another key, or asks every `ping_period` whether its key is still
  pending and makes a new one when it was not for `unmatch_timeout`. `SessionTimeout` and `ServerTerminate`
  end a session and a server.
* `ConnectionReset`, `TrackerFails`: a connection breaks, the tracker restarts with empty tables.

### RpcProxy

The proxy is an event loop as well. A `ForwardHandler` is a record: its peer (`forward_proxy`), what it has still to
write, what has been written. In proxy mode both sides wait in `server_pool` and `client_pool` under the key
they name, each with a timer; in tracker mode the proxy makes up a match key for each server and puts it to the tracker.

* `ServerArrives`, `ClientArrives`: `handler_ready`, with `PairUp`, the refusal of a duplicate,
  or a timer.
* `OnData`, `OnClose`, `OnWritable` (with `Write`, `Shut`, `SignalClose`, `CloseHandlerPair`): `tornado_util.py` and `ForwardHandler`.
  A socket may be full at any time, so what cannot be written waits, and `signal_close` closes only when it was. A send to a peer
  that has left may fail, which closes both sides.
* `PeriodicUpdate`: `_update_tracker`, which blocks on the tracker. The connection may break after any of its messages.
* `Cleanup`: the timer of a waiting connection.
* `Sends`, `ServerReads`, `ClientReads`, `ClientLeaves`, `ServerDies`: the processes on both sides.

### PopenPool

`pc[w]` is where pool thread `w` is in `_worker_run`; its child has a main thread (`main`), a timer per task (`timer`), a
lock and a `status` per task. `toChild` and `fromChild` are the two pipes.

* Parent: take a task, start a child if there is none or it is used up, send the initializer and the task, receive; a timeout,
  an end of file or an answer that is cut short takes the paths of `recv`. `Delete` is `__del__`.
* Child: read, run (return, raise or hang), cancel the timer, answer under the lock. A timer may fire at any moment between its
  start and its cancellation, and answers if it gets the lock while the status is `RUNNING`.
* `ChildDies`: at any point, possibly in the middle of an answer.

### PipelineRuntime

Runtime 0 runs in the user's thread, the others in threads of their own. For every binding of an output to an input there is a
`SPSCLockFreeQueue` and a `DataNotify`. A tensor is the set of the frames it was computed from.

* User: set the inputs, run, get the outputs (`DataIsReady`, then a poll of every output).
* A thread, for each input in turn: poll the queue, or wait for the notification and poll again; then run; then for each binding
  push (a test for room and a store to the tail, in two steps) and notify.
* `ForwardData` returns false at once when the queue is full and the state is `STOPPED`, which is the state of the global runtime.

### MicroSession

Both ends have the same `Session`; the device's end is `MicroRPCServer` in the main loop of the Zephyr project. A packet is its bytes after
framing: session id, type and body; `wire` has the packets under way.

* Host: `Open` (a fresh session object that starts with a random nonce), `Retry` (start again when no reply came), `Send`, `HostReceive`, `Recv`,
  `Timeout`, `Close`.
* Device: `DeviceReceive` handles a packet and answers; `Abort` is a packet that arrives while a complete message is still in the buffer
  (`TVMPlatformAbort`, which reboots on Zephyr); `Reset` is a reset from outside.
* `RegenerateNonce` is the arithmetic of the code on a byte.

### WorkspacePool

`Alloc` takes the smallest free block that fits, or gives the largest one back to the device and asks for a new one, or just
asks; the device may throw when it takes the block back, which is then `lost` to the pool, and when it is asked for a new one. `Free` looks for the block from the end and puts it back in order. `Release` empties the pool.

## 3. What is checked

Nine runs pass; each checks its safety and liveness properties on one instance.

| Run | Instance | Distinct states | Properties |
|---|---|---|---|
| `task_queue` (`SpscTaskQueue.cfg`) | ring of 3 slots, 5 pushes, kill at any time between pushes | 402 | `SanityCheck`, `InOrder`, `NoLostWakeup`, `PendingInRange`, `ImplementsTaskQueue` |
| `thread_pool` (`ThreadPool.cfg`) | 3 lanes, 2 barriers, failures at the end of any task, 2 launches, reconfiguration and reset, task 0 on main or on a worker | 161,044 | `LaunchIsComplete`, `BarrierHolds`, `LaunchReturns`, `ResetReturns` |
| `pipeline` (`Pipeline.cfg`) | all well-formed bodies of 2 to 4 statements over nine kinds of statements, the loop of attention, an indirect load; 1 to 3 stages; loops shorter and longer than the prologue | 75,445 | `ReadsAsSequential`, `ExactlyOnce`, `FinalMemory`, `WaitIsTight` |
| `rpc_tracker` (`RpcServer.cfg`) | a server, 2 clients of different priority and patience, one fault at any point | 77,126 | `NoIdleMatch`, `OffersAreCurrent`, `ImplementsLease`, `WaitingIsServed`, `OfferReturns` |
| `rpc_proxy` (`RpcProxy.cfg`) | a server that reconnects, 2 clients, one fault, with and without a tracker | 212,960 | `PoolsHoldWaiting`, `StreamIsOfPartner`, `LastWordsArrive`, `WaitsItsTime`, `EveryoneIsAnswered`, `EndsTogether` |
| `popen_pool` (`PopenPool.cfg`) | 2 threads, 3 tasks of which one hangs, an initializer, 2 uses of a process, one child that dies | 112,358 | `OwnResult`, `InStep`, `ResultIsFinal`, `UsesAreBounded`, `EveryTaskEnds` |
| `pipeline_runtime` (`PipelineRuntime.cfg`) | 3 runtimes in a chain, one with a second input of the user, 2 outputs, queues of one element, 3 frames | 533,474 | `DataIsThere`, `FramesInStep`, `WakeUpIsDue`, `EveryFrameComesOut` |
| `micro_session` (`MicroSession.cfg`) | 2 starts while packets are under way, 2 requests, 2 resets | 61,841 | `SessionsAgree`, `NeverConfused`, `AnswerIsOwn`, `StartSucceeds` |
| `workspace_pool` (`WorkspacePool.cfg`) | requests of 0, 1, 2 and 3 pages, 4 workspaces in use, 5 addresses, a device that may throw at each call of `Alloc` | 310,826 | `HeldOnce`, `NoMoreThanPeak`, `AllocIsTight` |

What they say:

* **Queue.** A worker never takes from an empty ring although `pending_` and `tail_` change
  at different times (`SanityCheck`, the `ICHECK` of `Pop`); tasks come out once each, in
  order (`InOrder`); no wake-up is lost (`NoLostWakeup`); `pending_` stays in range. The
  queue implements `TaskQueue`, including its fairness (`ImplementsTaskQueue`): every task is
  delivered unless the queue is killed, and every kill ends the worker.
* **Pool.** When `Launch` has returned, every task has run exactly once and none is still
  in its body, so the closure on the caller's stack may go away (`LaunchIsComplete`). Nobody
  passes a barrier that another task has not reached (`BarrierHolds`), though the counters
  are reused from launch to launch. `Launch` and `Reset` return.
* **Pipeline.** Every statement instance reads what it reads in the original loop, however
  late the copies land (`ReadsAsSequential`); each instance runs exactly once; memory that
  outlives the loop ends up the same (`FinalMemory`); no wait forces a copy that its
  statement does not need (`WaitIsTight`).
* **Tracker.** Free servers and waiting requests of one kind never coexist (`NoIdleMatch`); what is on offer
  can be had, and under the key the server expects (`OffersAreCurrent`). A match key goes to one client and admits
  that client once, while it is the newest key (`ImplementsLease`), also when the client dies with it, the connection
  breaks or the tracker restarts. A client that waits is served or told (`WaitingIsServed`), and a server whose
  key was taken by somebody who never comes is on offer again (`OfferReturns`).
* **Proxy.** The pools hold exactly the connections that wait (`PoolsHoldWaiting`). A connection gets what its own partner
  sent, in order (`StreamIsOfPartner`), all of it before the end if the partner closed in order (`LastWordsArrive`). The timer that an earlier
  connection left under a key turns nobody else away (`WaitsItsTime`). Everybody is answered (`EveryoneIsAnswered`), and a session that one side
  has left ends on the other, unless that does not read what is pending for it (`EndsTogether`).
* **Worker processes.** A future has the result of its own task (`OwnResult`), though timers fire late and race the answer for the
  lock; between tasks the pipes are empty (`InStep`); a task that timed out has stopped running when the caller is told
  (`ResultIsFinal`); a process is not used more often than `maximum_uses` (`UsesAreBounded`, for processes whose initializer returned);
  every future gets a result.
* **Pipeline executor.** `GetOutput` finds the data that `DataIsReady` saw (`DataIsThere`, a `LOG(FATAL)` of the code); a module never
  mixes frames and the k-th output is that of the k-th run (`FramesInStep`); no wake-up is lost (`WakeUpIsDue`); every frame comes out
  (`EveryFrameComesOut`), up to the first one whose input was dropped (section 4).
* **microTVM session.** Two ends that both have a session have the same one (`SessionsAgree`) and never lose track of the protocol
  (`NeverConfused`); `Recv` returns the answer to the request it was called for (`AnswerIsOwn`), for a caller that leaves the session after a timeout;
  a start that is repeated succeeds (`StartSucceeds`), unless the host's buffer is blocked (section 4).
* **Workspaces.** A buffer of the device is in exactly one list, also when the device has no memory in the middle of `Alloc`; only a buffer that the
  device refuses to take back, by a throw of `FreeDataSpace`, is in none (`HeldOnce`, and section 4); the pool keeps
  no more buffers than were needed at once (`NoMoreThanPeak`); `Alloc` returns the smallest block that fits (`AllocIsTight`), for which the list has to
  be sorted.

`TypeOK` of a module is an invariant of the same instance and can be added to its configuration. It is proved for the queue
and the pool.

**Bounds.** The ring of the code has 2 slots and so holds one task; 3 slots let the indices
differ by more than one, and 5 pushes go around the ring. Three lanes are the fewest where a lane
waits for two peers that differ; two barriers let one task be at the next barrier while
another leaves the first; two launches show what is left over from one to the next.
In the pipeline, three stages and loops of 1, 2, 4 and 5 iterations make the body empty,
short or repeated, and four statements allow two tiles with separate consumers. The counters
`MaxPush` and `MaxLaunch` bound the length of a behaviour only.

With one server two clients compete for it, one with a higher priority and one that gives up earlier; the single fault may be a
crash, a reset, a restart or a termination, and comes at every point. A peer connects twice, so that its
second connection meets what is left of its first; `MaxKeys` is more than a server generates. At the proxy a server has
two sessions in a row and one client sends two messages, so that order and completeness mean something. Two threads and three tasks make one
child run two tasks, the second while the timer of the first may still be about; the task that hangs times out. A queue of one
element (`len_ = 2`) is full and empty all the time, three frames go around it (fewer than the pipeline holds, so that `Run` never waits for a `GetOutput` of the same thread), and the late input of the last runtime overtakes the
others. Two early starts and two resets leave packets of three sessions under way; nonces are drawn in turn from a list, so that no
two of these share one: the code draws a byte at random, of which `RegenerateNonce` leaves about 64 values, and a collision is excluded here. Five addresses for four
workspaces let the device hand out an address again.

**Conditions on the loops** (`MCPipeline`): a buffer allocated in the loop is written before
it is read; a prefetched copy fills a buffer of the loop and reads nothing that the loop
writes; a loop with stores to global memory is as long as the prologue; a loop with accesses
through `tvm_access_ptr` starts at 0. The last three are not checked by the passes;
section 4 shows what happens without them.

**Fairness.** In the queue and the pool, weak fairness of the producer and of the consumer, of the main thread
inside a launch or reset, and of every lane: the operating system schedules all threads, and the
waiting loops call `YieldThread`. Nothing obliges a caller to push, launch, configure, kill
or reset, and nothing provides spurious wake-ups. In the pool, tasks terminate: they
make their barrier calls and return. The pipeline and the workspace pool are checked for safety only.

* Tracker: the event loop serves every peer, clients and servers go on with what they have begun, sessions end. No user
  has to ask, no fault has to happen.
* Proxy: only the event loop and its timers are fair (`ProxyServes`). Whoever connects may stop reading or sending for good: a full
  socket is sure to take more only when its peer has read all it was sent.
* Worker processes: the threads of the pool, the children and the timers go on; a task that hangs does not return.
* Pipeline executor: every thread is scheduled, and the user asks for outputs while some are missing.
* microTVM: both ends read what arrives, and the host repeats a start that has no reply. Only `MaxEarly` of these starts overtake packets that
  are under way: retries are assumed to become slower than a round trip in the end, which the host's timeouts are chosen for.

**Deadlock** is checked for the queue, the pool and the pipeline, where a queue whose worker has been joined and a loop that has ended
stutter explicitly. The other systems stop when nobody asks for anything any more, and their progress is the subject of the liveness properties.

## 4. Disagreements between the code and what it says

Each run below checks one property that a comment or a header states, and TLC shows a
behaviour of the code that violates it. The instances are as small as possible.

| Run | Property | What happens |
|---|---|---|
| `barrier_failure` (`ThreadPoolBarrierFailure.cfg`) | `FailureReturns` | a task that fails before a barrier leaves the others spinning; the launch does not return |
| `outer_tile` (`PipelineOuterTile.cfg`) | `ReadsAsSequential` | a tile allocated outside the loop keeps one version, and is prefetched over |
| `input_dropped` (`PipelineRuntimeFull.cfg`) | `InputsAreKept` | an input set while the queue of a later runtime is full is dropped: the global runtime, on whose behalf it is pushed, is never in the state `RUNNING` |

Further instances show where a property ceases to hold. They are kept beside the runs, and TLC finds each of them violated
(`tlc -config X.cfg` with the module named).

| Instance | Module | Property | What happens |
|---|---|---|---|
| `ThreadPoolError.cfg` | `MCThreadPool` | `ErrorReported` | `SignalJobError` decrements `num_pending_` before it stores the message and raises the flag, so `WaitForJobs` can return 0 for a launch that failed (`c_backend_api.h`: "-1 when failure happens") |
| `ThreadPoolBlame.cfg` | `MCThreadPool` | `BlamesTheFailed` | a failure of task 0 on the main thread is recorded under the id of the task that was pushed last |
| `ThreadPoolCounters.cfg` | `MCThreadPool` | `CountersAllocated` | `par_errors_` grows to `num_task + 1`, `sync_counter_` to `num_task`; a later launch of one more task uses a counter that was not allocated |
| `ThreadPoolLittle.cfg` | `MCThreadPool` | `LaunchReturns` | configured for the little cores of a machine without any, a launch has 0 tasks, runs task 0 and waits for `num_pending_` to return to 0 from -1 |
| `PipelineShort.cfg` | `MCPipeline` | `ExactlyOnce` | prologue and epilogue of a loop shorter than the pipeline overlap, and a statement of a middle stage runs twice for an iteration |
| `PipelineOffset.cfg` | `MCPipeline` | `ReadsAsSequential` | `tvm_access_ptr` is rewritten with the loop variable, loads and stores with its distance from the start: different versions when the loop does not start at 0 |
| `RpcProxyRegenerate.cfg` | `MCRpcProxy` | `OfferedUnderOwnKey` | `proxy.py:323` passes the set of keys where `random_key` takes its delimiter; the new key of a server whose old one was lent names another kind of device |
| `RpcProxyReconnect.cfg` | `MCRpcProxy` | `KeepsReconnecting` | after a lost tracker connection the keys of the pool are replaced while the pool is iterated over; the `RuntimeError` leaves the update, which is then not scheduled again |
| `PopenPoolUses.cfg` | `MCPopenPool` | `EveryUseIsCounted` | an initializer that raises leaves the count of uses unset, and the process is used without limit |
| `MicroSessionStart.cfg` | `MCMicroSession` | `StartAlwaysSucceeds` | a normal message of another session is left in the host's receive buffer, which then takes no packet any more; starting again does not clear it ("Start a new session regardless of state", `session.h:128`) |
| `MicroSessionTorn.cfg` | `MCMicroSession` | `AnswerIsOwn` | a packet that is cut short leaves its bytes in the receive buffer (`framing.cc:161` reports no end of packet), and the next message is appended to them |
| `MicroSessionGoesOn.cfg` | `MCMicroSession` | `AnswerIsOwn` | a caller that uses the channel again after a timeout of `Recv` is given the late answer to its earlier request |
| `WorkspacePoolThrow.cfg` | `WorkspacePool` | `NothingLost` | `Alloc` takes a block off the free list before it gives it back to the device; when `FreeDataSpace` throws the block is in no list, and the pool never frees it |

In `thread_pool` failures happen after the last barrier and launches use all the workers in
use, so that neither `barrier_failure` nor the missing counters hide the other questions; `Torn` and `GoesOn` are
`FALSE` in `micro_session` for the same reason.

## 5. What is proved

All proofs are checked by TLAPS, with Z3, Zenon and LS4. The two large hypotheses on inputs (`LoopsLong`,
`LoopsRegular`) and the ones on the session (`~Torn`, `~GoesOn`, `NoncesDiffer`) are satisfied by the runs `pipeline` and `micro_session`, and
section 4 has an instance for nearly each of them in which the property fails without it.

**`SpscTaskQueueProofs`** — for every `kRingSize` in 2..128 (`RingAssumption`) and every number
of pushes: `TypeCorrect`, `SanityCheckHolds`, `InOrderHolds`, `NoLostWakeupHolds`,
`PendingInRangeHolds`, and `Refinement`: the initial states and the steps of the queue are those of
`TaskQueue` under the refinement mapping. None of the properties is inductive. The invariant `IInv` adds
* `ShapeInv`: `tail_` is as many slots after `head_` as there are published tasks that have not
  been popped (`After` is the position in the ring);
* `ContentsInv`: those slots hold those tasks in order, and the slot behind them the task
  that is about to be published;
* `PendingInv`: `pending_` is exactly the tasks counted by `fetch_add` minus the ones claimed by
  `fetch_sub`; a worker past its wait has a task, or has to exit;
* `WakeInv`: the mutex is held between test and sleep, so a worker that sleeps with
  its predicate true is seen only while the notifier is on its way.

For `Refinement`, what the mapping reads off the ring (`Contents`) is the window of the tasks that are published and
not yet copied out (`WindowLemma`); a push extends the window at its end, a pop takes its head (`WindowSteps`), and every other step
leaves it and stutters.

**`ThreadPoolProofs`** — for every number of workers, tasks, barriers, launches, every
set of configurations and every pattern of failures: `TypeCorrect`, `LaunchIsCompleteHolds` and, as
long as every launch has allocated its counters, `BarrierIsABarrier`. The invariant `IInv`
(one lemma per action) has
* `PhaseInv`: a lane is fresh until its task is handed over, then queued, running or done, and
  done when the launch has returned;
* `CountInv`: `num_pending_` is the number of tasks that are not done. The exception (`Surplus`)
  is the launch of no task, which is exactly the case of `ThreadPoolLittle.cfg`: the count is then one too low, and
  `Launch` does not return;
* `SizeInv`: the error strings suffice for all lanes that may still store one, including
  lanes that are still in the error path of an earlier launch;
* `SyncInv`, for the barrier: a counter is the number of arrivals of its task; a spinning task
  has seen the peers before `peer[t]` arrive; a running task is not ahead of anybody's arrivals.

The hypothesis `[]CountersAllocated` of `BarrierIsABarrier` cannot be dropped: `ThreadPoolCounters.cfg` shows
that the code does not establish it.

**`PipelineProofs`** — for every body, every plan that `ValidatePipelineBody` accepts, any number of stages and
loops of any length: `VersionsSuffice` (a later iteration with the same version writes only after
every read of the earlier one, also where `ComputeBufferVersions` saves a version),
`TileSurvives` (a later statement finds the version as the writer of its iteration left it) and `ConflictsKept` (any two accesses to
one version, one of them a write, keep their order). The
argument is the distance between two iterations of one version (`SameVersion`), the live range
that encloses all accesses (`LiveRange`), and, where one version is saved, the order in the
slot that the negation of `NeedMultiVersion` gives. For `ConflictsKept` the plan itself is reasoned about: the orders that the planner counts out are a
permutation of the places (by cardinality, not by induction over the body), and it moves a copy only past statements it does not conflict with.

**`PipelineExecProofs`** — about the two passes and the execution of what they emit, for every set of loops that satisfies `LoopAssumption`
(a body, at least one stage) and any delays of the copies:
* `ExactlyOnceHolds`, if the accepted loops that store to global memory are as long as the prologue (`LoopsLong`). `Progress` says
  that the instances that have run are exactly those that are due (`Due`, `Ran`), where the three sections of the loop are one sequence of slots;
* `ReadsAsSequentialHolds`, `FinalMemoryHolds` and `WaitIsTightHolds`, if the accepted loops are also regular (`LoopsRegular`: the conditions of section 3).
  The invariant `Data` counts the commit groups (`GroupsCommitted`), identifies each copy by its group (`CopiesIssued`), says that a
  copy in flight has no reader that ran (`CopiesAhead`: what the wait counts are for), and that a cell holds the value of the last writer
  in the order of the *original* loop that has landed (`MemoryCurrent`). The step that needs `ConflictsKept` is the last one: the next writer in the
  pipelined order is also the next in the original one, among the writers of that cell.

`PipelineShort.cfg`, `PipelineOffset.cfg` and `outer_tile` show what happens without `LongEnough`, `PtrFromZero` and `CopiesAreIndependent`.

**`PopenPoolProofs`** — for every number of threads and tasks, with or without timeout and initializer, any
number of uses and of deaths: `OwnResultHolds`, `InStepHolds`, `ResultIsFinalHolds`, `UsesAreBoundedHolds`. What makes the first three true is that the two threads of
the child that may answer agree through the status of the task, under the lock, and that the parent kills the child whenever
it has not read the answer in order. The invariant `IInv` says so:
* `JobInv`: a task without a result is in the queue of the pool or with one thread only;
* `StageInv`: the job a thread waits for is on its way to the child, runs there, has been answered once, or the child is
  broken (`Sent`, `Running`, `Responded`, `Broken`), and what the pipes hold follows from which;
* `LockInv`: only the holder of the lock answers, and for a task that is `RUNNING`;
* `TimerInv`: a timer that still counts belongs to the answer that is awaited, or to a task that has its result.

`UsesAreBoundedHolds` rests on `UseInv`: the uses a process has left, those it has made and the one on its way to it are together at most
`maximum_uses`.

The first lemmas cover the steps of the child, the later ones those of the parent, including start, kill and death.

**`PipelineRuntimeProofs`** — for every pipeline that satisfies `PipelineAssumption`, every queue length and number of frames: `NoLostWakeUp`,
`NoMissingData` and, if every module has an input (`ModulesHaveInputs`; one without would run without waiting for a frame), `FramesStayInStep`. A queue has one
producer and one consumer (`RoleInv`), so what one of them tested stays true until it stores
(`RingInv`); what `DataIsReady` saw is left alone by everybody else (`OutputInv`); and a worker that is between its failed poll and its sleep, or
asleep, with data in the queue has its notification set or on the way (`WakeInv`).

The frames are not a matter of induction along the pipeline. `InStep` says that there are numbers of data pushed to and polled from each queue and of
rounds of each thread (`Counted`) with which the state agrees: the ring holds, as its k-th datum, that of frame k (`CountInv`); a worker has polled
from each input, and pushed to each output, as often as it has finished rounds, or once more (`WorkerInv`); what the user sends follows the calls of `Run`
(`SendInv`), and what `GetOutput` took is in order (`TakeInv`). No two queues have to be compared: each agrees with the numbers of its two ends. All of it is
claimed for the frames before the first one that lost an input (`Intact`), because after that the code does mix frames (`input_dropped`).

**`MicroSessionProofs`** — for any number of starts, requests, timeouts and resets, in any order with the packets: `SessionsAgreeHolds` and `NeverConfusedHolds` if
packets are not cut short (`~Torn`) and the nonces of the host differ (`NoncesDiffer`), and `AnswerIsOwnHolds` if the caller also leaves the session after
a timeout (`~GoesOn`). `MicroSessionTorn.cfg` and `MicroSessionGoesOn.cfg` show that two of these are needed; the third excludes the collision of two random nonces.
Nothing is assumed of the nonces of the device. At most `MaxEarly` starts in a row overtake packets under way, and the list of nonces is longer than that (`SessionAssumption`);
otherwise a nonce would come round again while its packets are still about. The invariant `IInv` is about what is under way:
* `RecentInv`: a packet of a session carries a nonce of one of the starts that have overtaken each other, so never one that will be drawn next;
* `StartInv`, `ReplyInv`: the present start is the last one on its way; once its reply is on the way back no start is, it is the last reply, and the device, if
  it has a session, has that of the reply;
* `AgreeInv`: once the host has its session neither start nor reply is under way, and the device has the same session or none;
* `OwnInv`: of the requests and answers of the present session at most one is under way, the one that the host waits for.

**`WorkspacePoolProofs`** — for every page size, any requests, any order of frees, and a device that may throw at each of its calls in `Alloc`: `HeldOnceHolds`, `NoMoreThanPeakHolds` and
the action property `AllocIsTightHolds`. The invariant `IInv` has the shape of the lists behind their guards, without duplicates (`IsList`), the order of the free list
(`Sorted`), on which the search for the smallest block relies, that the device, but for the buffers at which `FreeDataSpace` threw, and the lists agree with sizes (`Holds`), that those buffers
are the device's still (`LostInv`), and `PeakInv`. The linear searches of `Alloc` and
`Free` are described by the index they stop at, which exists by well-foundedness of the natural numbers.

The assumptions are the named `ASSUME`s of `SpscTaskQueue`, `ThreadPool`, `PopenPool`, `PipelineExec`, `PipelineRuntime`, `MicroSession` and `WorkspacePool`; TLC evaluates them
in every run of these modules.

**Only model-checked:**
* liveness, because fairness and `ENABLED` are beyond the prover, and the fairness that `ImplementsTaskQueue` includes;
* the tracker with its servers and clients (`NoIdleMatch`, `OffersAreCurrent`, `ImplementsLease`): `Schedule` and the handler of a
  closed connection go through queues of any length and are folds over sequences, so what they return for every queue needs an
  induction over data that the prover does not do;
* the proxy (`PoolsHoldWaiting`, `StreamIsOfPartner`, `LastWordsArrive`, `WaitsItsTime`), which is a composition over the same tracker.

## 6. What is not modelled

* Weak memory: all atomics behave sequentially consistently.
* Thread affinity (`SetAffinity`), the OpenMP build and the Hexagon threads of `threading_backend.cc`.
* `need_sync = 0`, which no caller in the repository passes; nested launches, which an `ICHECK` rejects.
* Regions inside buffers, predicates of statements, and nested pipelines.
* The barriers between the threads of a block, which the later pass `ThreadSync` inserts.
* RPC: what a session does after its key was accepted (the endpoint in C++), the summary for users, the WebSocket
  handler of the proxy and its HTML pages, the framing of messages on a stream.
* Worker processes: wording of exceptions, `stdout` and `stderr` of the child. (An answer that is cut short by the death of the child is modelled: `recv`
  raises without a kill, and the next task of that worker fails at the end of file.)
* Pipeline executor: the JSON configuration, loading of modules and parameters. `StopPipeline` is called by `~BackendRuntime` only, which is not reached: the global
  runtime and the runtimes hold shared pointers to each other.
* microTVM: escapes and checksums inside a packet (a packet arrives whole, cut short, or not at all), the capacity of the receive buffer, write timeouts, the
  orderly shutdown of the server. The board of the Arduino project halts where Zephyr's reboots; that is a device that is never reset again. Both
  ends starting at the same time is handled by `Session` and not reached: only the host starts.
* Workspaces: the table of pools per device and thread, which only its own thread uses.
* Everything marked "plan" or "no" in section 1, with the reason in `PROJECT.json`.

## 7. Plan

Modules and compositions, in the order they are to be added:

1. **RPC endpoint** (`RpcEndpoint`): the event handler at both ends of a session, nested calls and callbacks, exceptions and shutdown in the middle of
   a call. It composes with `RpcProxy`, whose forwarding it relies on.
2. **Framing** (`Framing`): escapes, checksums and resynchronisation on a stream that loses bytes, as the detailed specification of the packets
   of `MicroSession`.
3. **Memory** (`PooledAllocator`, `VtcmPool`, Hexagon `RingBuffer`): no block is handed out twice, space comes back.
4. **TL layouts**: inverse, fragments and loop partition as operators, checked against their
   definition over small shapes; the fixpoint of the layout inference.

Theorems to add: the life of a match key, with the schedulers rewritten so that a step takes one match; `PoolsHoldWaiting` of the proxy without its tracker.
