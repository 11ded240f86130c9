----------------------- MODULE PipelineRuntimeProofs ------------------------
(***************************************************************************)
(* Proofs about PipelineRuntime, for every pipeline and every length of    *)
(* the queues: no wake-up is lost, GetOutput polls no empty queue, and the *)
(* frames stay in step on all paths.                                       *)
(***************************************************************************)
EXTENDS PipelineRuntime, TLAPS

\* A leaf goes to Zenon unless it names another prover.
USE Zenon

\* The one thread that pushes to a queue, and the one that polls it.
Producer(q) == IF q.src = GLOBAL THEN User ELSE q.src
Consumer(q) == IF q.dst = GLOBAL THEN User ELSE q.dst

Producing == {"forward", "publish", "notify"}
Consuming == {"load", "poll", "polled", "empty", "wait"}

\* What the argument needs of the types.
RangeInv ==
  /\ head_ \in [Queues -> Slots] /\ tail_ \in [Queues -> Slots]
  /\ data_ready_ \in [Queues -> BOOLEAN]
  /\ pc \in [Threads -> {"idle"} \union Producing \union Consuming]
  /\ todo \in [Threads -> SUBSET Queues] /\ at \in [Threads -> SUBSET Queues]

\* A thread pushes only to queues it is the producer of and polls only queues it is the
\* consumer of, one at a time.
RoleInv ==
  \A t \in Threads :
    /\ pc[t] \in Producing => \A q \in todo[t] : Producer(q) = t
    /\ pc[t] \in Consuming => \A q \in todo[t] : Consumer(q) = t
    /\ pc[t] \in {"publish", "notify", "poll", "polled", "empty", "wait"} =>
         \E q \in todo[t] : at[t] = {q}
    /\ pc[t] \in {"empty", "wait"} => t # User

\* Between the test of Full and the store to the tail the queue does not become full;
\* between the test of Empty and the store to the head it does not become empty.
RingInv ==
  \A t \in Threads : \A q \in at[t] :
    /\ pc[t] = "publish" => ~Full(q)
    /\ pc[t] = "polled" => ~Empty(q)

\* What DataIsReady has found stays true of the queues the user has yet to poll.
OutputInv ==
  pc[User] \in {"load", "poll", "polled"} => \A q \in todo[User] : ~Empty(q)

\* A worker that is about to sleep, or sleeps, has nothing to wait for only when the
\* notification is there or on its way.
WakeInv ==
  \A t \in Threads : pc[t] \in {"empty", "wait"} =>
    \A q \in at[t] :
      \/ Empty(q) \/ data_ready_[q]
      \/ \E p \in Threads : pc[p] = "notify" /\ at[p] = {q}

\* The user sets global inputs.
UnsetInv == unset \subseteq Children(GLOBAL)

IInv == RangeInv /\ RoleInv /\ RingInv /\ OutputInv /\ WakeInv

-----------------------------------------------------------------------------
\* The next index is in the ring, is another one, and tells its predecessor.
LEMMA AfterLemma ==
  ASSUME NEW i \in Slots
  PROVE  /\ After(i) \in Slots
         /\ After(i) # i
         /\ \A j \in Slots : After(i) = After(j) => i = j
<1> DEFINE S(k) == IF k + 1 < len_ THEN k + 1 ELSE 0
<1>1. len_ \in Nat /\ len_ > 1
  BY SMTT(30), PipelineAssumption
<1>2. \A k \in Slots : After(k) = S(k)
  <2> SUFFICES ASSUME NEW k \in 0 .. len_ - 1 PROVE (k + 1) % len_ = S(k)
    BY DEF After, Slots
  <2>1. CASE k + 1 < len_
    BY SMTT(30), <1>1, <2>1
  <2>2. CASE k + 1 = len_
    BY SMTT(30), <1>1, <2>2
  <2> QED BY SMTT(30), <1>1, <2>1, <2>2
<1>3. /\ S(i) \in Slots
      /\ S(i) # i
      /\ \A j \in Slots : S(i) = S(j) => i = j
  BY SMTT(30), <1>1 DEF Slots
<1> QED BY <1>2, <1>3

\* The queues of a runtime, on both sides.
LEMMA TopologyLemma ==
  /\ User \in Threads /\ GLOBAL \notin Threads
  /\ \A r \in Threads : \A q \in Children(r) : q \in Queues /\ Producer(q) = r
  /\ \A r \in Threads \ {User} : \A q \in Inputs(r) : q \in Queues /\ Consumer(q) = r
  /\ \A q \in Inputs(GLOBAL) : q \in Queues /\ Consumer(q) = User
  /\ \A q \in Children(GLOBAL) : q.dst # 0 => q \in Queues /\ Producer(q) = User
<1>1. N \in Nat /\ N > 0
  BY SMTT(30), PipelineAssumption
<1>2. User \in Threads /\ \A r \in Threads : r # GLOBAL
  BY SMTT(30), <1>1 DEF User, Threads, Runtimes, GLOBAL
<1> QED BY <1>2 DEF Children, Inputs, Queues, Producer, Consumer

\* The first runtime gets its inputs from the user, without a queue.
LEMMA FirstLemma ==
  /\ \A b \in Bindings : b.dst = 0 => b \in Children(GLOBAL)
  /\ \A q \in Queues : q.dst # 0
<1>1. ASSUME NEW b \in Bindings, b.dst = 0 PROVE b.src = GLOBAL
  <2>1. b.src \in Runtimes \union {GLOBAL} /\ (b.dst = GLOBAL \/ b.src < b.dst)
    BY PipelineAssumption
  <2> QED BY SMTT(30), <1>1, <2>1, PipelineAssumption DEF Runtimes, GLOBAL
<1> QED BY <1>1 DEF Children, Queues

LEMMA InitInv == Init => IInv
<1> SUFFICES ASSUME Init PROVE IInv
  OBVIOUS
<1> USE DEF Init
<1>1. 0 \in Slots
  BY SMTT(30), PipelineAssumption DEF Slots
<1>2. RangeInv
  BY <1>1, TopologyLemma DEF RangeInv, Producing, Consuming
<1>3. RoleInv
  BY TopologyLemma DEF RoleInv, Producing, Consuming
<1>4. RingInv /\ OutputInv /\ WakeInv
  BY TopologyLemma DEF RingInv, OutputInv, WakeInv
<1> QED BY <1>2, <1>3, <1>4 DEF IInv

-----------------------------------------------------------------------------
(* The steps that leave the queues and the notifications alone *)

\* What such a step has to keep, of the one thread that takes it.
Keeps(t) ==
  /\ UNCHANGED <<head_, tail_, data_ready_>>
  /\ pc' \in [Threads -> {"idle"} \union Producing \union Consuming]
  /\ todo' \in [Threads -> SUBSET Queues] /\ at' \in [Threads -> SUBSET Queues]
  /\ \A s \in Threads \ {t} : pc'[s] = pc[s] /\ todo'[s] = todo[s] /\ at'[s] = at[s]
  /\ pc[t] # "notify"
  /\ pc'[t] \in Producing => \A q \in todo'[t] : Producer(q) = t
  /\ pc'[t] \in Consuming => \A q \in todo'[t] : Consumer(q) = t
  /\ pc'[t] \in {"publish", "notify", "poll", "polled", "empty", "wait"} =>
       \E q \in todo'[t] : at'[t] = {q}
  /\ pc'[t] \in {"empty", "wait"} => t # User
  /\ \A q \in at'[t] : /\ pc'[t] = "publish" => ~Full(q)
                       /\ pc'[t] = "polled" => ~Empty(q)
                       /\ pc'[t] = "empty" => Empty(q)
                       /\ pc'[t] = "wait" => pc[t] = "empty" /\ q \in at[t]
  /\ t = User /\ pc'[t] \in {"load", "poll", "polled"} =>
       \A q \in todo'[t] : ~Empty(q)

LEMMA KeepsInv ==
  ASSUME IInv, NEW t \in Threads, Keeps(t)
  PROVE  IInv'
<1> USE DEF IInv, Keeps
<1>1. RangeInv'
  BY DEF RangeInv
<1>2. RoleInv'
  BY SMTT(30) DEF RoleInv
<1>3. RingInv'
  BY SMTT(30) DEF RingInv, Full, Empty, After
<1>4. OutputInv'
  BY TopologyLemma DEF OutputInv, Empty
<1>5. WakeInv'
  <2> SUFFICES ASSUME NEW s \in Threads, pc'[s] \in {"empty", "wait"}, NEW q \in at'[s]
               PROVE  \/ Empty(q)' \/ data_ready_'[q]
                      \/ \E p \in Threads : pc'[p] = "notify" /\ at'[p] = {q}
    BY DEF WakeInv
  <2>1. Empty(q) \/ data_ready_[q]
        \/ \E p \in Threads : pc[p] = "notify" /\ at[p] = {q}
    BY DEF WakeInv
  <2>2. \A p \in Threads : pc[p] = "notify" => pc'[p] = "notify" /\ at'[p] = at[p]
    OBVIOUS
  <2> QED BY <2>1, <2>2 DEF Empty
<1> QED BY <1>1, <1>2, <1>3, <1>4, <1>5

LEMMA LoadKeeps ==
  ASSUME IInv, NEW t \in Threads, Choose(t) \/ Poll(t) \/ PollEmpty(t) \/ Sleep(t)
  PROVE  Keeps(t)
<1> USE DEF IInv, RangeInv, RoleInv, Producing, Consuming, queueVars
<1>1. CASE Choose(t)
  BY SMTT(30), <1>1 DEF Choose, Keeps, OutputInv
<1>2. CASE Poll(t)
  BY SMTT(30), <1>2 DEF Poll, Keeps, OutputInv
<1>3. CASE PollEmpty(t)
  BY SMTT(30), <1>3 DEF PollEmpty, Keeps
<1>4. CASE Sleep(t)
  BY <1>4 DEF Sleep, Keeps
<1> QED BY <1>1, <1>2, <1>3, <1>4

LEMMA ForwardKeeps ==
  ASSUME IInv, NEW t \in Threads, RunModule(t) \/ Push(t) \/ GiveUp(t)
  PROVE  Keeps(t)
<1> USE DEF IInv, RangeInv, RoleInv, Producing, Consuming, queueVars
<1>1. CASE RunModule(t)
  BY SMTT(30), <1>1, TopologyLemma DEF RunModule, Keeps
<1>2. CASE Push(t)
  BY SMTT(30), <1>2 DEF Push, Keeps
<1>3. CASE GiveUp(t)
  BY SMTT(30), <1>3, TopologyLemma DEF GiveUp, Returned, Keeps
<1> QED BY <1>1, <1>2, <1>3

LEMMA UserKeeps ==
  ASSUME IInv, UnsetInv, SetPipelineInput \/ Run \/ GetOutput
  PROVE  Keeps(User)
<1> USE TopologyLemma DEF IInv, RangeInv, RoleInv, UnsetInv, Producing, Consuming, queueVars,
      threadVars
<1>1. CASE SetPipelineInput
  BY SMTT(30), <1>1 DEF SetPipelineInput, Keeps
<1>2. CASE Run
  BY SMTT(30), <1>2 DEF Run, Keeps, User
<1>3. CASE GetOutput
  BY SMTT(30), <1>3 DEF GetOutput, DataIsReady, Keeps
<1> QED BY <1>1, <1>2, <1>3

-----------------------------------------------------------------------------
(* The steps that change a queue or a notification *)

LEMMA WaitInv ==
  ASSUME IInv, NEW t \in Threads, Wait(t)
  PROVE  IInv'
<1> USE DEF IInv
<1>1. PICK q \in todo[t] : at[t] = {q}
  BY DEF RoleInv, Wait
<1>2. /\ pc[t] \in {"empty", "wait"} /\ t # User
      /\ pc' = [pc EXCEPT ![t] = "poll"]
      /\ data_ready_' = [data_ready_ EXCEPT ![q] = FALSE]
      /\ UNCHANGED <<head_, tail_, todo, at>>
      /\ q \in Queues /\ Consumer(q) = t
  BY <1>1 DEF Wait, RoleInv, RangeInv, Consuming
<1>3. RangeInv'
  BY <1>2 DEF RangeInv, Consuming
<1>4. RoleInv'
  BY SMTT(30), <1>2 DEF RoleInv, Producing, Consuming
<1>5. RingInv' /\ OutputInv'
  BY SMTT(30), <1>2 DEF RingInv, OutputInv, Full, Empty, After, RangeInv
<1>6. WakeInv'
  <2> SUFFICES ASSUME NEW s \in Threads, pc'[s] \in {"empty", "wait"}, NEW r \in at'[s]
               PROVE  \/ Empty(r)' \/ data_ready_'[r]
                      \/ \E p \in Threads : pc'[p] = "notify" /\ at'[p] = {r}
    BY DEF WakeInv
  <2>1. s # t /\ r \in at[s] /\ pc[s] = pc'[s]
    BY <1>2 DEF RangeInv
  <2>2. Consumer(r) = s /\ r \in Queues
    BY SMTT(30), <2>1 DEF RoleInv, RangeInv, Consuming
  <2>3. r # q
    BY <1>2, <2>1, <2>2
  <2>4. Empty(r) \/ data_ready_[r]
        \/ \E p \in Threads : pc[p] = "notify" /\ at[p] = {r}
    BY <2>1 DEF WakeInv
  <2>5. \A p \in Threads : pc[p] = "notify" => pc'[p] = "notify" /\ at'[p] = at[p]
    BY <1>2 DEF RangeInv
  <2> QED BY <1>2, <2>2, <2>3, <2>4, <2>5 DEF Empty, RangeInv
<1> QED BY <1>3, <1>4, <1>5, <1>6

LEMMA NotifyInv ==
  ASSUME IInv, NEW t \in Threads, Notify(t)
  PROVE  IInv'
<1> USE DEF IInv
<1>1. PICK q \in todo[t] : at[t] = {q}
  BY DEF RoleInv, Notify
<1>2. /\ pc[t] = "notify" /\ q \in Queues
      /\ data_ready_' = [data_ready_ EXCEPT ![q] = Notified(q)]
      /\ UNCHANGED <<head_, tail_, at>>
      /\ IF todo[t] = {q} THEN Returned(t)
         ELSE /\ todo' = [todo EXCEPT ![t] = @ \ {q}]
              /\ pc' = [pc EXCEPT ![t] = "forward"]
  BY <1>1 DEF Notify, RangeInv
<1>3. /\ \A s \in Threads \ {t} : pc'[s] = pc[s] /\ todo'[s] = todo[s]
      /\ pc'[t] \in {"idle", "load", "forward"}
  BY <1>2 DEF Returned, RangeInv
<1>4. RangeInv'
  <2>1. pc' \in [Threads -> {"idle"} \union Producing \union Consuming]
        /\ todo' \in [Threads -> SUBSET Queues]
    BY SMTT(30), <1>2, TopologyLemma DEF RangeInv, Returned, Producing, Consuming
  <2>2. data_ready_' \in [Queues -> BOOLEAN]
    BY <1>2 DEF RangeInv, Notified
  <2> QED BY <1>2, <2>1, <2>2 DEF RangeInv
<1>5. RoleInv'
  <2>1. /\ pc'[t] \in Producing => \A r \in todo'[t] : Producer(r) = t
        /\ pc'[t] \in Consuming => \A r \in todo'[t] : Consumer(r) = t
    BY SMTT(30), <1>2, TopologyLemma DEF RoleInv, RangeInv, Returned, Producing, Consuming
  <2> QED BY <1>2, <1>3, <2>1 DEF RoleInv
<1>6. RingInv'
  BY SMTT(30), <1>2, <1>3 DEF RingInv, Full, Empty, After
<1>7. OutputInv'
  <2>1. t = User => pc'[t] \in {"idle", "forward"}
    BY <1>2 DEF Returned, RangeInv
  <2> QED BY <1>2, <1>3, <2>1, TopologyLemma DEF OutputInv, Empty
<1>8. WakeInv'
  <2> SUFFICES ASSUME NEW s \in Threads, pc'[s] \in {"empty", "wait"}, NEW r \in at'[s]
               PROVE  \/ Empty(r)' \/ data_ready_'[r]
                      \/ \E p \in Threads : pc'[p] = "notify" /\ at'[p] = {r}
    BY DEF WakeInv
  <2>1. s # t /\ r \in at[s] /\ pc[s] = pc'[s]
    BY <1>2, <1>3
  <2>2. Consumer(r) = s /\ r \in Queues /\ s # User
    BY SMTT(30), <2>1 DEF RoleInv, RangeInv, Consuming
  <2>3. CASE r = q
    BY <1>2, <2>2, <2>3 DEF Notified, Consumer, RangeInv
  <2>4. CASE r # q
    <3>1. Empty(r) \/ data_ready_[r]
          \/ \E p \in Threads : pc[p] = "notify" /\ at[p] = {r}
      BY <2>1 DEF WakeInv
    <3>2. \A p \in Threads : pc[p] = "notify" /\ at[p] = {r} => p # t
      BY <1>1, <2>4
    <3> QED BY <1>2, <1>3, <2>2, <2>4, <3>1, <3>2 DEF Empty, RangeInv
  <2> QED BY <2>3, <2>4
<1> QED BY <1>4, <1>5, <1>6, <1>7, <1>8

\* The step that makes a datum visible.
LEMMA PublishInv ==
  ASSUME IInv, NEW t \in Threads, Publish(t)
  PROVE  IInv'
<1> USE DEF IInv
<1>1. PICK q \in todo[t] : at[t] = {q}
  BY DEF RoleInv, Publish
<1>2. /\ pc[t] = "publish" /\ pc' = [pc EXCEPT ![t] = "notify"]
      /\ q \in Queues /\ Producer(q) = t /\ ~Full(q)
      /\ tail_' = [tail_ EXCEPT ![q] = After(tail_[q])]
      /\ UNCHANGED <<head_, data_ready_, todo, at>>
  BY <1>1 DEF Publish, RoleInv, RangeInv, RingInv, Producing
<1>3. tail_'[q] \in Slots /\ ~Empty(q)'
  BY <1>2, AfterLemma DEF RangeInv, Full, Empty
<1>4. RangeInv'
  BY <1>2, <1>3 DEF RangeInv, Producing
<1>5. RoleInv'
  BY SMTT(30), <1>2 DEF RoleInv, Producing, Consuming
<1>6. RingInv'
  <2> SUFFICES ASSUME NEW s \in Threads, NEW r \in at'[s]
               PROVE  /\ pc'[s] = "publish" => ~Full(r)'
                      /\ pc'[s] = "polled" => ~Empty(r)'
    BY DEF RingInv
  <2>1. r \in Queues
    BY <1>2 DEF RangeInv
  <2>2. pc'[s] = "publish" => s # t /\ pc[s] = "publish"
    BY <1>2 DEF RangeInv
  <2>3. pc[s] = "publish" => Producer(r) = s
    BY SMTT(30), <1>2 DEF RoleInv, Producing
  <2>4. pc'[s] = "publish" => r # q /\ ~Full(r)
    BY <1>2, <2>2, <2>3 DEF RingInv
  <2>5. pc'[s] = "polled" => pc[s] = "polled" /\ ~Empty(r)
    BY <1>2 DEF RangeInv, RingInv
  <2>6. r # q => tail_'[r] = tail_[r]
    BY <1>2, <2>1 DEF RangeInv
  <2> QED BY <1>2, <1>3, <2>4, <2>5, <2>6 DEF Full, Empty, After
<1>7. OutputInv'
  <2>1. \A r \in Queues : ~Empty(r) => ~Empty(r)'
    BY <1>2, <1>3 DEF Empty, RangeInv
  <2> QED BY <1>2, <2>1, TopologyLemma DEF OutputInv, RangeInv
<1>8. WakeInv'
  <2> SUFFICES ASSUME NEW s \in Threads, pc'[s] \in {"empty", "wait"}, NEW r \in at'[s]
               PROVE  \/ Empty(r)' \/ data_ready_'[r]
                      \/ \E p \in Threads : pc'[p] = "notify" /\ at'[p] = {r}
    BY DEF WakeInv
  <2>1. pc[s] = pc'[s] /\ r \in at[s] /\ r \in Queues
    BY <1>2 DEF RangeInv
  <2>2. CASE r = q
    BY <1>1, <1>2, <2>2 DEF RangeInv
  <2>3. CASE r # q
    <3>1. Empty(r) \/ data_ready_[r]
          \/ \E p \in Threads : pc[p] = "notify" /\ at[p] = {r}
      BY <2>1 DEF WakeInv
    <3>2. \A p \in Threads : pc[p] = "notify" => pc'[p] = "notify" /\ at'[p] = at[p]
      BY <1>2 DEF RangeInv
    <3> QED BY <1>2, <2>1, <2>3, <3>1, <3>2 DEF Empty, RangeInv
  <2> QED BY <2>2, <2>3
<1> QED BY <1>4, <1>5, <1>6, <1>7, <1>8

\* The step that hands a slot back, of a worker or of the user.
HeadMoves(t, q) ==
  /\ pc[t] = "polled" /\ q \in todo[t] /\ at[t] = {q}
  /\ head_' = [head_ EXCEPT ![q] = After(head_[q])]
  /\ todo' = [todo EXCEPT ![t] = todo[t] \ {q}]
  /\ UNCHANGED <<tail_, data_ready_, at>>

LEMMA HeadMovesInv ==
  ASSUME IInv, NEW t \in Threads, NEW q, HeadMoves(t, q),
         NEW next \in {"load", "idle"}, pc' = [pc EXCEPT ![t] = next]
  PROVE  IInv'
<1> USE DEF IInv
<1>1. /\ q \in Queues /\ Consumer(q) = t /\ ~Empty(q)
      /\ \A r \in Queues \ {q} : head_'[r] = head_[r]
      /\ head_'[q] = After(head_[q]) /\ head_'[q] \in Slots
      /\ \A s \in Threads \ {t} : pc'[s] = pc[s] /\ todo'[s] = todo[s]
      /\ pc'[t] = next /\ todo'[t] = todo[t] \ {q}
  BY AfterLemma DEF HeadMoves, RangeInv, RoleInv, RingInv, Consuming
<1>2. RangeInv'
  BY <1>1 DEF HeadMoves, RangeInv, Consuming
<1>3. RoleInv'
  BY SMTT(30), <1>1 DEF HeadMoves, RoleInv, Producing, Consuming
<1>4. RingInv'
  <2> SUFFICES ASSUME NEW s \in Threads, NEW r \in at'[s]
               PROVE  /\ pc'[s] = "publish" => ~Full(r)'
                      /\ pc'[s] = "polled" => ~Empty(r)'
    BY DEF RingInv
  <2>1. r \in at[s] /\ r \in Queues
    BY DEF HeadMoves, RangeInv
  <2>2. s = t => pc'[s] \notin {"publish", "polled"}
    BY <1>1
  <2>3. s # t /\ pc[s] = "polled" => Consumer(r) = s
    BY SMTT(30), <2>1 DEF RoleInv, Consuming
  <2>4. s # t => /\ pc[s] = "publish" => ~Full(r)
                 /\ pc[s] = "polled" => ~Empty(r) /\ r # q
    BY <1>1, <2>1, <2>3 DEF RingInv
  <2>5. After(tail_[q]) # After(head_[q])
    BY <1>1, AfterLemma DEF Empty, RangeInv
  <2>6. ~Full(q)'
    BY <1>1, <2>5 DEF Full, After, HeadMoves
  <2> QED BY <1>1, <2>1, <2>2, <2>4, <2>6 DEF Full, Empty, After, HeadMoves
<1>5. OutputInv'
  <2> SUFFICES ASSUME pc'[User] \in {"load", "poll", "polled"}, NEW r \in todo'[User]
               PROVE  ~Empty(r)'
    BY DEF OutputInv
  <2>1. pc[User] \in {"load", "poll", "polled"} /\ r \in todo[User] /\ r \in Queues
    BY SMTT(30), <1>1, TopologyLemma DEF HeadMoves, RangeInv
  <2>2. ~Empty(r) /\ Consumer(r) = User
    BY <2>1, TopologyLemma DEF OutputInv, RoleInv, Consuming
  <2>3. r # q
    BY <1>1, <2>2
  <2> QED BY <1>1, <2>1, <2>2, <2>3 DEF Empty, HeadMoves
<1>6. WakeInv'
  <2> SUFFICES ASSUME NEW s \in Threads, pc'[s] \in {"empty", "wait"}, NEW r \in at'[s]
               PROVE  \/ Empty(r)' \/ data_ready_'[r]
                      \/ \E p \in Threads : pc'[p] = "notify" /\ at'[p] = {r}
    BY DEF WakeInv
  <2>1. s # t /\ pc[s] = pc'[s] /\ r \in at[s] /\ r \in Queues
    BY <1>1 DEF HeadMoves, RangeInv
  <2>2. Consumer(r) = s
    BY SMTT(30), <2>1 DEF RoleInv, Consuming
  <2>3. r # q
    BY <1>1, <2>1, <2>2
  <2>4. Empty(r) \/ data_ready_[r]
        \/ \E p \in Threads : pc[p] = "notify" /\ at[p] = {r}
    BY <2>1 DEF WakeInv
  <2>5. \A p \in Threads : pc[p] = "notify" => pc'[p] = "notify" /\ at'[p] = at[p]
    BY <1>1 DEF HeadMoves
  <2> QED BY SMTT(30), <1>1, <2>1, <2>3, <2>4, <2>5 DEF Empty, HeadMoves
<1> QED BY <1>2, <1>3, <1>4, <1>5, <1>6

LEMMA PolledInv ==
  ASSUME IInv, NEW t \in Threads, Polled(t) \/ (t = User /\ PolledOutput)
  PROVE  IInv'
<1>1. PICK q \in todo[t] : at[t] = {q}
  BY DEF IInv, RoleInv, Polled, PolledOutput
<1>2. HeadMoves(t, q)
  BY <1>1 DEF Polled, PolledOutput, HeadMoves
<1>3. PICK next \in {"load", "idle"} : pc' = [pc EXCEPT ![t] = next]
  BY <1>1 DEF Polled, PolledOutput
<1> QED BY <1>2, <1>3, HeadMovesInv

-----------------------------------------------------------------------------
LEMMA StepInv == IInv /\ UnsetInv /\ [Next]_vars => IInv' /\ UnsetInv'
<1> SUFFICES ASSUME IInv, UnsetInv, [Next]_vars PROVE IInv' /\ UnsetInv'
  OBVIOUS
<1>1. UnsetInv'
  <2>1. UNCHANGED unset \/ SetPipelineInput \/ Run
    BY DEF Next, ThreadStep, UserStep, Choose, Poll, PollEmpty, Wait, Sleep, Polled, RunModule,
           Push, Publish, Notify, GiveUp, GetOutput, PolledOutput, userVars, vars
  <2> QED BY <2>1 DEF UnsetInv, SetPipelineInput, Run
<1>2. CASE \E t \in Threads : ThreadStep(t)
  <2> PICK t \in Threads : ThreadStep(t)
    BY <1>2
  <2> QED BY <1>1, LoadKeeps, ForwardKeeps, KeepsInv, WaitInv, PolledInv, PublishInv, NotifyInv
          DEF ThreadStep
<1>3. CASE UserStep
  BY <1>1, <1>3, UserKeeps, KeepsInv, PolledInv, TopologyLemma DEF UserStep
<1>4. CASE UNCHANGED vars
  BY ZenonT(60), <1>1, <1>4
  DEF vars, queueVars, threadVars, IInv, RangeInv, RoleInv, RingInv, OutputInv, WakeInv,
     Full, Empty, After
<1> QED BY <1>1, <1>2, <1>3, <1>4 DEF Next

LEMMA InvHolds == Spec => [](IInv /\ UnsetInv)
<1>1. Init => IInv /\ UnsetInv
  BY InitInv DEF Init, UnsetInv
<1> QED BY <1>1, StepInv, PTL DEF Spec

\* For every pipeline and every length of the queues: a worker that waits for data which
\* is there has been notified, or is about to be (DataNotify, ForwardData).
THEOREM NoLostWakeUp == Spec => []WakeUpIsDue
<1>1. IInv => WakeUpIsDue
  BY DEF IInv, WakeInv, WakeUpIsDue
<1> QED BY <1>1, InvHolds, PTL

\* For every pipeline: what DataIsReady has found is still there when GetOutput polls, so
\* that the LOG(FATAL) of GetOutput is never reached.
THEOREM NoMissingData == Spec => []DataIsThere
<1>1. IInv => DataIsThere
  <2> SUFFICES ASSUME IInv, pc[User] = "poll", NEW q \in at[User]
               PROVE  ~Empty(q)
    BY DEF DataIsThere
  <2>1. PICK p \in todo[User] : at[User] = {p}
    BY TopologyLemma DEF IInv, RoleInv
  <2>2. q = p
    BY <2>1
  <2> QED BY <2>2 DEF IInv, OutputInv
<1> QED BY <1>1, InvHolds, PTL

-----------------------------------------------------------------------------
(* The frames stay in step.  The queues do not count what goes through     *)
(* them; the argument does: pushed[q] data have been published to queue q, *)
(* polled[q] have been taken from it, and thread t has finished turn[t]    *)
(* rounds of loading, running and forwarding.                              *)

\* Every module computes from something.
ModulesHaveInputs == \A r \in Runtimes : \E b \in Bindings : b.dst = r

\* What the argument needs of the values.
ValueInv ==
  /\ queue_ \in [Queues -> [Slots -> SUBSET Nat]]
  /\ data \in [Threads -> SUBSET Nat]
  /\ tensor \in [Bindings -> SUBSET Nat]
  /\ owner \in [Threads -> Threads \union {GLOBAL}]
  /\ outputs \in [Inputs(GLOBAL) -> [1 .. MaxFrame -> SUBSET Nat]]
  /\ frame \in Nat /\ count \in 0 .. MaxFrame /\ dropped \in Nat

\* A queue holds what was pushed and not yet polled: as its k-th datum that of frame k.
CountInv(pushed, polled) ==
  \A q \in Queues :
    /\ polled[q] <= pushed[q] /\ pushed[q] < polled[q] + len_
    /\ head_[q] = polled[q] % len_ /\ tail_[q] = pushed[q] % len_
    /\ \A k \in Nat : polled[q] <= k /\ k < pushed[q] /\ Intact(k + 1) =>
         queue_[q][k % len_] = {k + 1}

\* What a thread has copied from a queue, or stored to it, is what belongs there.
HandInv(polled) ==
  \A t \in Threads : \A q \in at[t] :
    /\ pc[t] = "polled" /\ Intact(polled[q] + 1) => data[t] = {polled[q] + 1}
    /\ pc[t] = "publish" => queue_[q][tail_[q]] = data[t]

\* The thread has yet to publish its data to the queue.
Left(t, q) == q \in todo[t] /\ ~(pc[t] = "notify" /\ at[t] = {q})

\* A worker has taken one datum more from the queues it is done with in this round, and
\* published one more.
WorkerInv(t, pushed, polled, turn) ==
  /\ owner[t] = t
  /\ \A q \in Inputs(t) : polled[q] > 0 /\ Intact(polled[q]) => tensor[q] = {polled[q]}
  /\ pc[t] \in Consuming =>
       /\ \A q \in Inputs(t) : polled[q] = IF q \in todo[t] THEN turn[t] ELSE turn[t] + 1
       /\ \A q \in Children(t) : pushed[q] = turn[t]
  /\ pc[t] \in Producing =>
       /\ \A q \in Inputs(t) : polled[q] = turn[t] + 1
       /\ \A q \in Children(t) : pushed[q] = IF Left(t, q) THEN turn[t] ELSE turn[t] + 1
       /\ Intact(turn[t] + 1) => data[t] = {turn[t] + 1}

\* The user forwards the outputs of runtime r, or with GLOBAL an input of the pipeline.
Sending(r) == pc[User] \in Producing /\ owner[User] = r

\* The outputs of runtime 0 follow the calls of Run, the inputs of the pipeline those of
\* SetPipelineInput; a queue that lost an input had got those of the frames before.
SendInv(pushed) ==
  /\ owner[User] \in {0, GLOBAL}
  /\ pc[User] \in Producing => \A q \in todo[User] : q.src = owner[User]
  /\ Sending(0) => frame > 0 /\ data[User] = {frame}
  /\ Sending(GLOBAL) => data[User] = {frame + 1} /\ \A q \in todo[User] : q \notin unset
  /\ \A q \in Children(0) : pushed[q] = IF Sending(0) /\ Left(User, q) THEN frame - 1 ELSE frame
  /\ \A b \in Children(GLOBAL) : b.dst # 0 =>
       /\ dropped = 0 => pushed[b] = IF b \in unset \/ (Sending(GLOBAL) /\ Left(User, b))
                                     THEN frame ELSE frame + 1
       /\ dropped # 0 => pushed[b] + 1 >= dropped

\* What the user has set directly.
InputInv == \A b \in Bindings : b.dst = 0 /\ b \notin unset => tensor[b] = {frame + 1}

\* The outputs that GetOutput has taken.
TakeInv(polled) ==
  /\ pc[User] \in Consuming => count > 0
  /\ \A q \in Inputs(GLOBAL) :
       polled[q] = IF pc[User] \in Consuming /\ q \in todo[User] THEN count - 1 ELSE count
  /\ \A q \in Inputs(GLOBAL), k \in 1 .. MaxFrame :
       Intact(k) => outputs[q][k] \in {{}, {k}}

Counted(pushed, polled, turn) ==
  /\ pushed \in [Queues -> Nat] /\ polled \in [Queues -> Nat] /\ turn \in [Threads -> Nat]
  /\ CountInv(pushed, polled) /\ HandInv(polled)
  /\ \A t \in Threads \ {User} : WorkerInv(t, pushed, polled, turn)
  /\ SendInv(pushed) /\ TakeInv(polled)

InStep ==
  /\ ValueInv /\ InputInv
  /\ \E pushed, polled, turn : Counted(pushed, polled, turn)

-----------------------------------------------------------------------------
\* A remainder is told by the division.
LEMMA ModUnique ==
  ASSUME NEW V \in Nat \ {0}, NEW x \in Int, NEW d \in Int, NEW r \in 0 .. V - 1, x = V * d + r
  PROVE  x % V = r
<1> DEFINE e == x \div V
           m == x % V
<1>1. e \in Int /\ m \in 0 .. V - 1 /\ x = V * e + m
  BY SMTT(30)
<1> HIDE DEF e, m
<1>2. V * d + r = V * e + m
  BY <1>1
<1>3. CASE d > e
  <2>1. V * d >= V * (e + 1)
    BY SMTT(30), <1>1, <1>3
  <2>2. V * (e + 1) = V * e + V
    BY SMTT(30), <1>1
  <2> QED BY SMTT(30), <1>1, <1>2, <2>1, <2>2
<1>4. CASE d < e
  <2>1. V * e >= V * (d + 1)
    BY SMTT(30), <1>1, <1>4
  <2>2. V * (d + 1) = V * d + V
    BY SMTT(30), <1>1
  <2> QED BY SMTT(30), <1>1, <1>2, <2>1, <2>2
<1>5. CASE d = e
  BY SMTT(30), <1>1, <1>2, <1>5
<1> QED BY SMTT(30), <1>1, <1>3, <1>4, <1>5

\* The index after that of datum a is that of datum a + 1; a full turn brings an index
\* back, and less than a turn does not.
LEMMA IndexLemma ==
  ASSUME NEW a \in Nat
  PROVE  /\ a % len_ \in Slots
         /\ After(a % len_) = (a + 1) % len_
         /\ (a + len_) % len_ = a % len_
         /\ \A b \in Nat : a < b /\ b < a + len_ => a % len_ # b % len_
<1> DEFINE d == a \div len_
           r == a % len_
<1>1. len_ \in Nat \ {0} /\ len_ > 1
  BY SMTT(30), PipelineAssumption
<1>2. d \in Int /\ r \in 0 .. len_ - 1 /\ a = len_ * d + r
  BY SMTT(30), <1>1
<1> HIDE DEF d
<1>3. len_ * (d + 1) = len_ * d + len_
  BY SMTT(30), <1>1, <1>2
<1>4. (a + len_) % len_ = r
  <2> HIDE DEF r
  <2>1. a + len_ = len_ * (d + 1) + r
    BY SMTT(30), <1>1, <1>2, <1>3
  <2>2. a + len_ \in Int /\ d + 1 \in Int
    BY SMTT(30), <1>1, <1>2
  <2> QED BY <1>1, <1>2, <2>1, <2>2, ModUnique
<1>5. (a + 1) % len_ = (r + 1) % len_
  <2> HIDE DEF r
  <2>1. CASE r + 1 < len_
    <3>1. a + 1 = len_ * d + (r + 1) /\ r + 1 \in 0 .. len_ - 1 /\ a + 1 \in Int
      BY SMTT(30), <1>1, <1>2, <2>1
    <3>2. (a + 1) % len_ = r + 1
      BY <1>1, <1>2, <3>1, ModUnique
    <3>3. (r + 1) % len_ = r + 1
      BY SMTT(30), <1>1, <1>2, <2>1
    <3> QED BY <3>2, <3>3
  <2>2. CASE r + 1 = len_
    <3>1. a + 1 = len_ * (d + 1) + 0 /\ 0 \in 0 .. len_ - 1 /\ a + 1 \in Int /\ d + 1 \in Int
      BY SMTT(30), <1>1, <1>2, <1>3, <2>2
    <3>2. (a + 1) % len_ = 0
      BY <1>1, <3>1, ModUnique
    <3>3. len_ % len_ = 0
      BY SMTT(30), <1>1
    <3> QED BY <2>2, <3>2, <3>3
  <2> QED BY SMTT(30), <1>1, <1>2, <2>1, <2>2
<1>6. ASSUME NEW b \in Nat, a < b, b < a + len_, r = b % len_ PROVE FALSE
  <2> DEFINE e == b \div len_
  <2>1. e \in Int /\ b = len_ * e + r
    BY SMTT(30), <1>1, <1>6
  <2> HIDE DEF r, e
  <2>2. len_ * d < len_ * e /\ len_ * e < len_ * d + len_
    BY SMTT(30), <1>1, <1>2, <1>6, <2>1
  <2>3. CASE e <= d
    <3>1. len_ * e <= len_ * d
      BY SMTT(30), <1>1, <1>2, <2>1, <2>3
    <3> QED BY SMTT(30), <1>1, <1>2, <2>1, <2>2, <3>1
  <2>4. CASE e >= d + 1
    <3>1. len_ * e >= len_ * (d + 1)
      BY SMTT(30), <1>1, <1>2, <2>1, <2>4
    <3> QED BY SMTT(30), <1>1, <1>2, <1>3, <2>1, <2>2, <3>1
  <2> QED BY SMTT(30), <1>2, <2>1, <2>3, <2>4
<1> QED BY <1>2, <1>4, <1>5, <1>6 DEF After, Slots

-----------------------------------------------------------------------------
(* What a step leaves alone *)

\* The state of a thread.
SameThread(t) ==
  /\ pc'[t] = pc[t] /\ owner'[t] = owner[t] /\ todo'[t] = todo[t] /\ at'[t] = at[t]
  /\ data'[t] = data[t]

\* A step of another thread leaves the counts of a worker's queues and its inputs alone.
LEMMA WorkerKept ==
  ASSUME NEW t \in Threads \ {User}, NEW p, NEW o, NEW n, NEW p2, NEW o2, NEW n2,
         WorkerInv(t, p, o, n), SameThread(t), n2[t] = n[t],
         \A q \in Inputs(t) : o2[q] = o[q] /\ tensor'[q] = tensor[q],
         \A q \in Children(t) : p2[q] = p[q],
         \A k \in Nat : Intact(k)' => Intact(k),
         o \in [Queues -> Nat], n \in [Threads -> Nat]
  PROVE  WorkerInv(t, p2, o2, n2)'
<1>1. n[t] + 1 \in Nat /\ \A q \in Inputs(t) : o[q] \in Nat
  BY SMTT(30) DEF Inputs
<1>2. owner'[t] = t
  BY DEF WorkerInv, SameThread
<1>3. \A q \in Inputs(t) : o2[q] > 0 /\ Intact(o2[q])' => tensor'[q] = {o2[q]}
  BY <1>1 DEF WorkerInv
<1>4. \A q \in Children(t) : Left(t, q)' <=> Left(t, q)
  BY DEF Left, SameThread
<1>5. pc'[t] \in Consuming =>
       /\ \A q \in Inputs(t) : o2[q] = IF q \in todo'[t] THEN n2[t] ELSE n2[t] + 1
       /\ \A q \in Children(t) : p2[q] = n2[t]
  BY SMTT(30) DEF WorkerInv, SameThread
<1>6. pc'[t] \in Producing =>
       /\ \A q \in Inputs(t) : o2[q] = n2[t] + 1
       /\ \A q \in Children(t) : p2[q] = IF Left(t, q)' THEN n2[t] ELSE n2[t] + 1
       /\ Intact(n2[t] + 1)' => data'[t] = {n2[t] + 1}
  BY <1>1, <1>4 DEF WorkerInv, SameThread
<1> QED BY <1>2, <1>3, <1>5, <1>6 DEF WorkerInv

\* A step of a worker leaves what the user sends and takes alone.
LEMMA UserKept ==
  ASSUME NEW p, NEW o, NEW p2, NEW o2, SendInv(p), TakeInv(o), InputInv, SameThread(User),
         \A q \in Queues : Producer(q) = User => p2[q] = p[q],
         \A q \in Queues : Consumer(q) = User => o2[q] = o[q],
         \A b \in Bindings : b.dst = 0 => tensor'[b] = tensor[b],
         UNCHANGED userVars
  PROVE  SendInv(p2)' /\ TakeInv(o2)' /\ InputInv'
<1>1. /\ \A q \in Children(0) : p2[q] = p[q]
      /\ \A q \in Children(GLOBAL) : q.dst # 0 => p2[q] = p[q]
      /\ \A q \in Inputs(GLOBAL) : o2[q] = o[q]
  BY TopologyLemma DEF User
<1>2. /\ Sending(0)' <=> Sending(0)
      /\ Sending(GLOBAL)' <=> Sending(GLOBAL)
      /\ \A q : Left(User, q)' <=> Left(User, q)
  BY DEF Sending, Left, SameThread
<1>3. frame' = frame /\ unset' = unset /\ dropped' = dropped /\ count' = count /\ outputs' = outputs
  BY DEF userVars
<1>4. SendInv(p2)'
  <2> USE <1>1, <1>2, <1>3
  <2>1. owner'[User] \in {0, GLOBAL}
        /\ (pc'[User] \in Producing => \A q \in todo'[User] : q.src = owner'[User])
    BY DEF SendInv, SameThread
  <2>2. /\ Sending(0)' => frame' > 0 /\ data'[User] = {frame'}
        /\ Sending(GLOBAL)' => /\ data'[User] = {frame' + 1}
                               /\ \A q \in todo'[User] : q \notin unset'
    BY DEF SendInv, SameThread
  <2>3. \A q \in Children(0) :
          p2[q] = IF Sending(0)' /\ Left(User, q)' THEN frame' - 1 ELSE frame'
    BY DEF SendInv
  <2>4. \A b \in Children(GLOBAL) : b.dst # 0 =>
          /\ dropped' = 0 => p2[b] = IF b \in unset' \/ (Sending(GLOBAL)' /\ Left(User, b)')
                                     THEN frame' ELSE frame' + 1
          /\ dropped' # 0 => p2[b] + 1 >= dropped'
    BY DEF SendInv
  <2> QED BY <2>1, <2>2, <2>3, <2>4 DEF SendInv
<1>5. TakeInv(o2)'
  BY <1>1, <1>3 DEF TakeInv, SameThread, Intact
<1>6. InputInv'
  BY <1>3 DEF InputInv
<1> QED BY <1>4, <1>5, <1>6

\* The queues and their counts.
LEMMA CountKept ==
  ASSUME NEW p, NEW o, CountInv(p, o), UNCHANGED <<queue_, head_, tail_>>,
         \A k \in Nat : Intact(k)' => Intact(k)
  PROVE  CountInv(p, o)'
<1>1. \A k \in Nat : Intact(k + 1)' => Intact(k + 1)
  BY SMTT(30)
<1> QED BY <1>1 DEF CountInv

\* What the other threads hold.
LEMMA HandKept ==
  ASSUME IInv, NEW o, NEW o2, NEW t \in Threads, HandInv(o), o \in [Queues -> Nat],
         \A s \in Threads \ {t} : SameThread(s),
         \A q \in Queues : Consumer(q) # t => o2[q] = o[q],
         \A q \in Queues : Producer(q) # t => queue_'[q][tail_'[q]] = queue_[q][tail_[q]],
         \A k \in Nat : Intact(k)' => Intact(k),
         \A q \in at'[t] :
           /\ pc'[t] = "polled" /\ Intact(o2[q] + 1)' => data'[t] = {o2[q] + 1}
           /\ pc'[t] = "publish" => queue_'[q][tail_'[q]] = data'[t]
  PROVE  HandInv(o2)'
<1> SUFFICES ASSUME NEW s \in Threads \ {t}, NEW q \in at'[s]
             PROVE  /\ pc'[s] = "polled" /\ Intact(o2[q] + 1)' => data'[s] = {o2[q] + 1}
                    /\ pc'[s] = "publish" => queue_'[q][tail_'[q]] = data'[s]
  BY ZenonT(60) DEF HandInv
<1>1. q \in at[s] /\ q \in Queues /\ pc'[s] = pc[s] /\ data'[s] = data[s]
  BY DEF SameThread, IInv, RangeInv
<1>2. pc[s] = "polled" => Consumer(q) = s
  BY SMTT(30), <1>1 DEF IInv, RoleInv, Consuming
<1>3. pc[s] = "publish" => Producer(q) = s
  BY SMTT(30), <1>1 DEF IInv, RoleInv, Producing
<1>4. o[q] + 1 \in Nat
  BY SMTT(30), <1>1
<1> QED BY SMTT(30), <1>1, <1>2, <1>3, <1>4 DEF HandInv

\* What the user has sent does not change while they take outputs or do nothing.
LEMMA SendKept ==
  ASSUME NEW p, SendInv(p), pc[User] \notin Producing, pc'[User] \notin Producing,
         owner'[User] = owner[User], UNCHANGED <<frame, unset, dropped>>
  PROVE  SendInv(p)'
<1>1. ~Sending(0) /\ ~Sending(GLOBAL) /\ ~Sending(0)' /\ ~Sending(GLOBAL)'
  BY DEF Sending
<1>2. \A q \in Children(0) : p[q] = IF Sending(0)' /\ Left(User, q)' THEN frame' - 1 ELSE frame'
  BY <1>1 DEF SendInv
<1>3. \A b \in Children(GLOBAL) : b.dst # 0 =>
        /\ dropped' = 0 => p[b] = IF b \in unset' \/ (Sending(GLOBAL)' /\ Left(User, b)')
                                  THEN frame' ELSE frame' + 1
        /\ dropped' # 0 => p[b] + 1 >= dropped'
  BY <1>1 DEF SendInv
<1> QED BY <1>1, <1>2, <1>3 DEF SendInv

\* The state of the other threads, and the producing and consuming side of a step.
OthersSame(t) == \A s \in Threads \ {t} : SameThread(s)

\* The steps of loading up to the copy of a datum: what Poll copies is the datum after
\* those that have been taken.
LEMMA LoadInStep ==
  ASSUME IInv, ValueInv, InputInv, NEW p, NEW o, NEW n, Counted(p, o, n), NEW t \in Threads,
         Choose(t) \/ Poll(t) \/ PollEmpty(t) \/ Wait(t) \/ Sleep(t)
  PROVE  InStep'
<1>1. /\ pc \in [Threads -> {"idle"} \union Producing \union Consuming]
      /\ pc[t] \in Consuming /\ pc'[t] \in Consuming /\ pc'[t] \notin Producing
      /\ pc[t] \notin Producing
      /\ \A s \in Threads \ {t} : pc'[s] = pc[s]
      /\ at \in [Threads -> SUBSET Queues]
  BY DEF IInv, RangeInv, Choose, Poll, PollEmpty, Wait, Sleep, Producing, Consuming
<1>2. /\ UNCHANGED <<queue_, head_, tail_, owner, todo, tensor>>
      /\ UNCHANGED userVars
  BY DEF Choose, Poll, PollEmpty, Wait, Sleep, queueVars
<1>3. OthersSame(t)
  BY <1>1, <1>2 DEF Choose, Poll, PollEmpty, Wait, Sleep, SameThread, OthersSame, ValueInv
<1>4. \A k \in Nat : Intact(k)' => Intact(k)
  BY <1>2 DEF userVars, Intact
<1>5. /\ \A q \in at'[t] : pc'[t] = "polled" =>
           q \in Queues /\ ~Empty(q) /\ data' = [data EXCEPT ![t] = queue_[q][head_[q]]]
      /\ pc'[t] # "polled" => data' = data
  <2>1. CASE Poll(t)
    <3>1. PICK r \in at[t] : ~Empty(r) /\ data' = [data EXCEPT ![t] = queue_[r][head_[r]]]
      BY <2>1 DEF Poll
    <3>2. PICK r2 \in todo[t] : at[t] = {r2}
      BY <2>1 DEF Poll, IInv, RoleInv
    <3> QED BY <1>1, <2>1, <3>1, <3>2 DEF Poll
  <2>2. CASE ~Poll(t)
    BY <1>1, <2>2 DEF Choose, Poll, PollEmpty, Wait, Sleep
  <2> QED BY <2>1, <2>2
<1>6. ValueInv'
  <2>1. data' \in [Threads -> SUBSET Nat]
    <3>1. CASE pc'[t] = "polled"
      <4>1. PICK q \in at'[t] : TRUE
        BY <1>1, <1>2, <3>1 DEF Choose, Poll, PollEmpty, Wait, Sleep
      <4>2. queue_[q][head_[q]] \in SUBSET Nat
        BY SMTT(30), <1>5, <3>1, <4>1 DEF ValueInv, IInv, RangeInv
      <4> QED BY SMTT(30), <1>5, <3>1, <4>1, <4>2 DEF ValueInv
    <3>2. CASE pc'[t] # "polled"
      BY <1>5, <3>2 DEF ValueInv
    <3> QED BY <3>1, <3>2
  <2> QED BY <1>2, <2>1 DEF ValueInv, userVars
<1>7. CountInv(p, o)'
  BY <1>2, <1>4, CountKept DEF Counted
<1>8. HandInv(o)'
  <2>1. ASSUME NEW q \in at'[t], pc'[t] = "polled", Intact(o[q] + 1)'
        PROVE  data'[t] = {o[q] + 1}
    <3>1. q \in Queues /\ ~Empty(q) /\ data'[t] = queue_[q][head_[q]]
      BY <1>5, <2>1 DEF ValueInv
    <3>2. o[q] \in Nat /\ p[q] \in Nat
      BY <3>1 DEF Counted
    <3>3. o[q] < p[q] /\ head_[q] = o[q] % len_
      BY SMTT(30), <3>1, <3>2 DEF Counted, CountInv, Empty
    <3>4. Intact(o[q] + 1)
      BY SMTT(30), <1>4, <2>1, <3>2
    <3> QED BY SMTT(30), <3>1, <3>2, <3>3, <3>4 DEF Counted, CountInv
  <2>2. pc'[t] # "publish"
    BY <1>1 DEF Producing
  <2> QED BY <1>2, <1>3, <1>4, <2>1, <2>2, HandKept DEF Counted, OthersSame
<1>9. ASSUME NEW s \in Threads \ {User} PROVE WorkerInv(s, p, o, n)'
  <2>1. WorkerInv(s, p, o, n)
    BY DEF Counted
  <2>2. CASE s = t
    <3>1. pc[t] \in Consuming /\ pc'[t] \in Consuming /\ pc'[t] \notin Producing
      BY <1>1
    <3>2. \A q \in Inputs(t) : o[q] > 0 /\ Intact(o[q])' => tensor'[q] = {o[q]}
      <4>1. \A q \in Inputs(t) : o[q] \in Nat
        BY DEF Inputs, Counted
      <4> QED BY <1>2, <1>4, <2>1, <2>2, <4>1 DEF WorkerInv
    <3> QED BY <1>2, <2>1, <2>2, <3>1, <3>2 DEF WorkerInv
  <2>3. CASE s # t
    BY <1>2, <1>3, <1>4, <2>1, <2>3, WorkerKept DEF OthersSame, Counted
  <2> QED BY <2>2, <2>3
<1>10. SendInv(p)' /\ TakeInv(o)' /\ InputInv'
  <2>1. CASE t = User
    <3>1. SendInv(p)'
      BY <1>1, <1>2, <2>1, SendKept DEF Counted, userVars
    <3>2. TakeInv(o)'
      BY <1>1, <1>2, <2>1 DEF Counted, TakeInv, userVars, Intact
    <3>3. InputInv'
      BY <1>2 DEF InputInv, userVars
    <3> QED BY <3>1, <3>2, <3>3
  <2>2. CASE t # User
    <3>1. SameThread(User)
      BY <1>3, <2>2, TopologyLemma DEF OthersSame
    <3> QED BY <1>2, <3>1, UserKept DEF Counted
  <2> QED BY <2>1, <2>2
<1>11. Counted(p, o, n)'
  BY <1>7, <1>8, <1>9, <1>10 DEF Counted
<1> QED BY <1>6, <1>10, <1>11 DEF InStep

\* A slot handed back is one datum more that has been taken.
LEMMA HeadCount ==
  ASSUME IInv, NEW p, NEW o, NEW n, Counted(p, o, n), NEW q \in Queues, ~Empty(q),
         head_' = [head_ EXCEPT ![q] = After(head_[q])], UNCHANGED <<queue_, tail_, dropped>>
  PROVE  CountInv(p, [o EXCEPT ![q] = o[q] + 1])'
<1> DEFINE o2 == [o EXCEPT ![q] = o[q] + 1]
<1>1. /\ p \in [Queues -> Nat] /\ o \in [Queues -> Nat] /\ head_ \in [Queues -> Slots]
      /\ len_ \in Nat
  BY PipelineAssumption DEF Counted, IInv, RangeInv
<1>2. o2[q] = o[q] + 1 /\ \A r \in Queues \ {q} : o2[r] = o[r]
  BY <1>1
<1>3. head_'[q] = After(head_[q]) /\ \A r \in Queues \ {q} : head_'[r] = head_[r]
  BY <1>1
<1>4. o[q] < p[q] /\ head_'[q] = (o[q] + 1) % len_
  <2>1. head_[q] = o[q] % len_ /\ tail_[q] = p[q] % len_ /\ o[q] <= p[q]
    BY DEF Counted, CountInv
  <2>2. o[q] \in Nat /\ p[q] \in Nat
    BY <1>1
  <2>3. After(o[q] % len_) = (o[q] + 1) % len_
    BY <2>2, IndexLemma
  <2>4. o[q] # p[q]
    BY <2>1 DEF Empty
  <2> QED BY SMTT(30), <1>3, <2>1, <2>2, <2>3, <2>4
<1> HIDE DEF o2
<1> SUFFICES ASSUME NEW r \in Queues
             PROVE  /\ o2[r] <= p[r] /\ p[r] < o2[r] + len_
                    /\ head_'[r] = o2[r] % len_ /\ tail_'[r] = p[r] % len_
                    /\ \A k \in Nat : o2[r] <= k /\ k < p[r] /\ Intact(k + 1)' =>
                         queue_'[r][k % len_] = {k + 1}
  BY DEF CountInv, o2
<1>5. /\ o[r] <= p[r] /\ p[r] < o[r] + len_
      /\ head_[r] = o[r] % len_ /\ tail_[r] = p[r] % len_
      /\ \A k \in Nat : o[r] <= k /\ k < p[r] /\ Intact(k + 1) =>
           queue_[r][k % len_] = {k + 1}
  BY DEF Counted, CountInv
<1>6. \A k \in Nat : Intact(k + 1)' => Intact(k + 1)
  BY DEF Intact
<1>7. o[r] \in Nat /\ p[r] \in Nat
  BY <1>1
<1>8. CASE r = q
  <2>1. o2[r] = o[r] + 1 /\ o[r] < p[r] /\ head_'[r] = (o[r] + 1) % len_
    BY <1>2, <1>4, <1>8
  <2>2. \A k \in Nat : o2[r] <= k => o[r] <= k
    BY SMTT(30), <1>7, <2>1
  <2>3. o2[r] <= p[r] /\ p[r] < o2[r] + len_
    BY SMTT(30), <1>1, <1>5, <1>7, <2>1
  <2> QED BY <1>5, <1>6, <2>1, <2>2, <2>3
<1>9. CASE r # q
  BY <1>2, <1>3, <1>5, <1>6, <1>9
<1> QED BY <1>8, <1>9

\* A worker has loaded one more of the inputs of this round.
LEMMA PolledInStep ==
  ASSUME IInv, ValueInv, InputInv, NEW p, NEW o, NEW n, Counted(p, o, n), NEW t \in Threads,
         Polled(t)
  PROVE  InStep'
<1>1. PICK q \in todo[t] : at[t] = {q}
  BY DEF IInv, RoleInv, Polled
<1> DEFINE o2 == [o EXCEPT ![q] = o[q] + 1]
<1>2. /\ t # User /\ q \in Queues /\ Consumer(q) = t /\ ~Empty(q)
      /\ pc[t] = "polled" /\ pc' = [pc EXCEPT ![t] = "load"]
      /\ head_' = [head_ EXCEPT ![q] = After(head_[q])]
      /\ tensor' = [tensor EXCEPT ![q] = data[t]]
      /\ todo' = [todo EXCEPT ![t] = todo[t] \ {q}]
      /\ UNCHANGED <<queue_, tail_, owner, at, data>> /\ UNCHANGED userVars
  BY <1>1 DEF Polled, IInv, RangeInv, RoleInv, RingInv, Consuming
<1>3. /\ p \in [Queues -> Nat] /\ o \in [Queues -> Nat] /\ n \in [Threads -> Nat]
      /\ pc \in [Threads -> {"idle"} \union Producing \union Consuming]
      /\ todo \in [Threads -> SUBSET Queues] /\ Queues \subseteq Bindings
      /\ tensor \in [Bindings -> SUBSET Nat] /\ data \in [Threads -> SUBSET Nat]
  BY DEF Counted, IInv, RangeInv, ValueInv, Queues
<1>4. /\ o2 \in [Queues -> Nat] /\ o2[q] = o[q] + 1 /\ \A r \in Queues \ {q} : o2[r] = o[r]
  BY SMTT(30), <1>2, <1>3
<1>5. CountInv(p, o2)'
  BY <1>2, HeadCount DEF userVars
<1> HIDE DEF o2
<1>6. OthersSame(t)
  BY <1>2, <1>3 DEF OthersSame, SameThread
<1>7. ValueInv'
  BY <1>2, <1>3 DEF ValueInv, userVars
<1>8. \A k \in Nat : Intact(k)' => Intact(k)
  BY <1>2 DEF userVars, Intact
<1>9. \A r \in Queues : Consumer(r) # t => o2[r] = o[r]
  BY <1>2, <1>4
<1>10. pc'[t] = "load"
  BY <1>2, <1>3
<1>11. HandInv(o2)'
  BY <1>2, <1>3, <1>6, <1>8, <1>9, <1>10, HandKept DEF Counted, OthersSame
<1>12. tensor'[q] = data[t] /\ \A r \in Bindings \ {q} : tensor'[r] = tensor[r]
  BY <1>2, <1>3
<1>13. ASSUME NEW s \in Threads \ {User} PROVE WorkerInv(s, p, o2, n)'
  <2>1. WorkerInv(s, p, o, n)
    BY DEF Counted
  <2>2. CASE s = t
    <3>1. owner'[t] = t /\ pc[t] \in Consuming /\ pc'[t] \notin Producing /\ q \in Inputs(t)
      BY <1>2, <1>10, <2>1, <2>2, TopologyLemma
      DEF WorkerInv, Consuming, Producing, Inputs, Consumer
    <3>2. \A r \in Inputs(t) : o2[r] > 0 /\ Intact(o2[r])' => tensor'[r] = {o2[r]}
      <4> SUFFICES ASSUME NEW r \in Inputs(t), o2[r] > 0, Intact(o2[r])'
                   PROVE  tensor'[r] = {o2[r]}
        OBVIOUS
      <4>1. r \in Queues /\ o2[r] \in Nat /\ Intact(o2[r])
        BY <1>4, <1>8 DEF Inputs
      <4>2. CASE r = q
        BY SMTT(30), <1>1, <1>2, <1>4, <1>12, <4>1, <4>2 DEF Counted, HandInv
      <4>3. CASE r # q
        BY <1>3, <1>4, <1>12, <2>1, <2>2, <4>1, <4>3 DEF WorkerInv
      <4> QED BY <4>2, <4>3
    <3>3. \A r \in Inputs(t) : o[r] = IF r \in todo[t] THEN n[t] ELSE n[t] + 1
      BY <2>1, <2>2, <3>1 DEF WorkerInv
    <3>4. \A r \in Inputs(t) : o2[r] = IF r \in todo'[t] THEN n[t] ELSE n[t] + 1
      <4>1. todo'[t] = todo[t] \ {q}
        BY <1>2, <1>3
      <4> QED BY SMTT(30), <1>1, <1>4, <3>1, <3>3, <4>1 DEF Inputs
    <3>5. \A r \in Children(t) : p[r] = n[t]
      BY <2>1, <2>2, <3>1 DEF WorkerInv
    <3> QED BY <2>2, <3>1, <3>2, <3>4, <3>5 DEF WorkerInv
  <2>3. CASE s # t
    <3>1. \A r \in Inputs(s) : r # q /\ r \in Queues /\ r \in Bindings
      BY <1>2, <1>3, <2>3, TopologyLemma DEF Inputs
    <3> QED BY SMTT(30), <1>3, <1>4, <1>6, <1>8, <1>12, <2>1, <2>3, <3>1, WorkerKept DEF OthersSame
  <2> QED BY <2>2, <2>3
<1>14. SendInv(p)' /\ TakeInv(o2)' /\ InputInv'
  <2>1. SameThread(User)
    BY <1>2, <1>6, TopologyLemma DEF OthersSame
  <2>2. \A b \in Bindings : b.dst = 0 => b # q
    BY <1>2, TopologyLemma DEF Consumer, User, GLOBAL
  <2>3. \A r \in Queues : Consumer(r) = User => o2[r] = o[r]
    BY <1>2, <1>9
  <2> QED BY <1>2, <1>12, <2>1, <2>2, <2>3, UserKept DEF Counted
<1>15. Counted(p, o2, n)'
  BY <1>3, <1>4, <1>5, <1>11, <1>13, <1>14 DEF Counted
<1> QED BY <1>7, <1>14, <1>15 DEF InStep

\* The user has taken one more of the outputs of this call of GetOutput.
LEMMA PolledOutputInStep ==
  ASSUME IInv, ValueInv, InputInv, NEW p, NEW o, NEW n, Counted(p, o, n), PolledOutput
  PROVE  InStep'
<1>1. PICK q \in todo[User] : at[User] = {q}
  BY TopologyLemma DEF IInv, RoleInv, PolledOutput
<1> DEFINE o2 == [o EXCEPT ![q] = o[q] + 1]
           next == IF todo[User] = {q} THEN "idle" ELSE "load"
<1>2. /\ User \in Threads /\ q \in Queues /\ Consumer(q) = User /\ ~Empty(q)
      /\ pc[User] = "polled"
  BY <1>1, TopologyLemma DEF PolledOutput, IInv, RangeInv, RoleInv, RingInv, Consuming
<1>3. /\ pc' = [pc EXCEPT ![User] = next]
      /\ head_' = [head_ EXCEPT ![q] = After(head_[q])]
      /\ outputs' = [outputs EXCEPT ![q][count] = data[User]]
      /\ todo' = [todo EXCEPT ![User] = todo[User] \ {q}]
      /\ UNCHANGED <<queue_, tail_, tensor, owner, at, data, frame, unset, count, dropped>>
  BY <1>1 DEF PolledOutput
<1>4. /\ p \in [Queues -> Nat] /\ o \in [Queues -> Nat] /\ n \in [Threads -> Nat]
      /\ pc \in [Threads -> {"idle"} \union Producing \union Consuming]
      /\ todo \in [Threads -> SUBSET Queues] /\ data \in [Threads -> SUBSET Nat]
      /\ outputs \in [Inputs(GLOBAL) -> [1 .. MaxFrame -> SUBSET Nat]]
      /\ count \in 0 .. MaxFrame
  BY DEF Counted, IInv, RangeInv, ValueInv
<1>5. /\ o2 \in [Queues -> Nat] /\ o2[q] = o[q] + 1 /\ \A r \in Queues \ {q} : o2[r] = o[r]
  BY SMTT(30), <1>2, <1>4
<1>6. CountInv(p, o2)'
  BY <1>2, <1>3, HeadCount
<1> HIDE DEF o2
<1>7. /\ pc'[User] = next /\ pc'[User] \notin Producing /\ pc[User] \notin Producing
      /\ pc[User] \in Consuming /\ todo'[User] = todo[User] \ {q}
      /\ pc'[User] \in Consuming \/ todo[User] = {q}
  BY <1>2, <1>3, <1>4 DEF Producing, Consuming
<1>8. OthersSame(User)
  BY <1>2, <1>3, <1>4 DEF OthersSame, SameThread
<1>9. q \in Inputs(GLOBAL) /\ o[q] = count - 1 /\ count \in 1 .. MaxFrame
  <2>1. q \in Inputs(GLOBAL)
    BY <1>2, FirstLemma DEF Inputs, Consumer, User
  <2>2. o[q] = count - 1 /\ count > 0
    BY <1>1, <1>7, <2>1 DEF Counted, TakeInv
  <2> QED BY SMTT(30), <1>4, <2>1, <2>2
<1>10. ValueInv'
  BY <1>2, <1>3, <1>4, <1>9 DEF ValueInv
<1>11. \A k \in Nat : Intact(k)' => Intact(k)
  BY <1>3 DEF Intact
<1>12. HandInv(o2)'
  <2>1. \A r \in Queues : Consumer(r) # User => o2[r] = o[r]
    BY <1>2, <1>5
  <2>2. pc'[User] # "polled" /\ pc'[User] # "publish"
    BY <1>7
  <2> QED BY <1>2, <1>3, <1>4, <1>8, <1>11, <2>1, <2>2, HandKept DEF Counted, OthersSame
<1>13. ASSUME NEW s \in Threads \ {User} PROVE WorkerInv(s, p, o2, n)'
  <2>1. WorkerInv(s, p, o, n)
    BY DEF Counted
  <2>2. \A r \in Inputs(s) : r # q /\ r \in Queues
    BY <1>2, TopologyLemma
  <2>3. SameThread(s)
    BY <1>8 DEF OthersSame
  <2> QED BY <1>3, <1>4, <1>5, <1>11, <2>1, <2>2, <2>3, WorkerKept
<1>14. SendInv(p)'
  BY <1>3, <1>7, SendKept DEF Counted
<1>15. TakeInv(o2)'
  <2>1. pc'[User] \in Consuming => count' > 0
    BY SMTT(30), <1>3, <1>9
  <2>2. ASSUME NEW r \in Inputs(GLOBAL)
        PROVE  o2[r] = IF pc'[User] \in Consuming /\ r \in todo'[User] THEN count' - 1 ELSE count'
    <3>1. r \in Queues
      BY DEF Inputs
    <3>2. o[r] = IF r \in todo[User] THEN count - 1 ELSE count
      BY <1>7 DEF Counted, TakeInv
    <3>3. CASE r = q
      BY SMTT(30), <1>3, <1>5, <1>7, <1>9, <3>3
    <3>4. CASE r # q
      BY <1>3, <1>5, <1>7, <3>1, <3>2, <3>4
    <3> QED BY <3>3, <3>4
  <2>3. ASSUME NEW r \in Inputs(GLOBAL), NEW k \in 1 .. MaxFrame, Intact(k)'
        PROVE  outputs'[r][k] \in {{}, {k}}
    <3>1. Intact(k)
      BY SMTT(30), <1>11, <2>3
    <3>2. outputs[r][k] \in {{}, {k}}
      BY <3>1 DEF Counted, TakeInv
    <3>3. CASE r = q /\ k = count
      <4>1. o[q] + 1 = k
        BY SMTT(30), <1>9, <3>3
      <4>2. data[User] = {k}
        BY <1>1, <1>2, <3>1, <4>1 DEF Counted, HandInv
      <4>3. outputs'[r][k] = data[User]
        BY <1>3, <1>4, <1>9, <3>3
      <4> QED BY <4>2, <4>3
    <3>4. CASE ~(r = q /\ k = count)
      <4>1. outputs'[r][k] = outputs[r][k]
        BY <1>3, <1>4, <1>9, <3>4
      <4> QED BY <3>2, <4>1
    <3> QED BY <3>3, <3>4
  <2> QED BY <2>1, <2>2, <2>3 DEF TakeInv
<1>16. InputInv'
  BY <1>3 DEF InputInv
<1>17. Counted(p, o2, n)'
  BY <1>4, <1>5, <1>6, <1>12, <1>13, <1>14, <1>15 DEF Counted
<1> QED BY <1>10, <1>16, <1>17 DEF InStep

-----------------------------------------------------------------------------
\* A module whose inputs are all of one frame computes the outputs of that frame.
LEMMA ComputedLemma ==
  ASSUME NEW r \in Runtimes
  PROVE  /\ ValueInv => Computed(r) \in SUBSET Nat
         /\ \A v : ModulesHaveInputs /\ (\A b \in Bindings : b.dst = r => tensor[b] = {v})
              => Computed(r) = {v}
<1>1. ASSUME ValueInv PROVE Computed(r) \in SUBSET Nat
  BY SMTT(30), <1>1 DEF Computed, ValueInv
<1>2. ASSUME NEW v, ModulesHaveInputs, \A b \in Bindings : b.dst = r => tensor[b] = {v}
      PROVE  Computed(r) = {v}
  <2>1. PICK b \in Bindings : b.dst = r
    BY <1>2 DEF ModulesHaveInputs
  <2>2. v \in Computed(r)
    BY <1>2, <2>1 DEF Computed
  <2>3. \A x \in Computed(r) : x = v
    BY SMTT(30), <1>2 DEF Computed
  <2> QED BY <2>2, <2>3
<1> QED BY <1>1, <1>2

\* A worker that has loaded all its inputs has loaded them of one frame.
LEMMA RunModuleInStep ==
  ASSUME ModulesHaveInputs,
         IInv, ValueInv, InputInv, NEW p, NEW o, NEW n, Counted(p, o, n), NEW t \in Threads,
         RunModule(t)
  PROVE  InStep'
<1>1. /\ pc[t] = "load" /\ todo[t] = {} /\ t # User /\ t \in Runtimes
      /\ data' = [data EXCEPT ![t] = Computed(t)]
      /\ todo' = [todo EXCEPT ![t] = Children(t)]
      /\ pc' = [pc EXCEPT ![t] = "forward"]
      /\ UNCHANGED <<queue_, head_, tail_, tensor, owner, at>> /\ UNCHANGED userVars
  BY DEF RunModule, queueVars, Threads
<1>2. /\ p \in [Queues -> Nat] /\ o \in [Queues -> Nat] /\ n \in [Threads -> Nat]
      /\ pc \in [Threads -> {"idle"} \union Producing \union Consuming]
      /\ todo \in [Threads -> SUBSET Queues] /\ data \in [Threads -> SUBSET Nat]
  BY DEF Counted, IInv, RangeInv, ValueInv
<1>3. /\ pc'[t] = "forward" /\ todo'[t] = Children(t) /\ data'[t] = Computed(t)
      /\ pc[t] \in Consuming /\ pc'[t] \notin Consuming
  BY <1>1, <1>2 DEF Consuming
<1>4. OthersSame(t)
  BY <1>1, <1>2 DEF OthersSame, SameThread
<1>5. ValueInv'
  BY <1>1, <1>2, ComputedLemma DEF ValueInv, userVars
<1>6. \A k \in Nat : Intact(k)' => Intact(k)
  BY <1>1 DEF userVars, Intact
<1>7. CountInv(p, o)'
  BY <1>1, <1>6, CountKept DEF Counted
<1>8. HandInv(o)'
  BY <1>1, <1>2, <1>3, <1>4, <1>6, HandKept DEF Counted, OthersSame
<1>9. ASSUME NEW s \in Threads \ {User} PROVE WorkerInv(s, p, o, n)'
  <2>1. WorkerInv(s, p, o, n)
    BY DEF Counted
  <2>2. CASE s = t
    <3>1. /\ owner[t] = t
          /\ \A q \in Inputs(t) : o[q] = n[t] + 1
          /\ \A q \in Children(t) : p[q] = n[t]
      BY <1>1, <1>3, <2>1, <2>2 DEF WorkerInv
    <3>2. \A q \in Inputs(t) : Intact(n[t] + 1) => tensor[q] = {n[t] + 1}
      BY SMTT(30), <1>2, <2>1, <2>2, <3>1 DEF WorkerInv
    <3>3. \A b \in Bindings : b.dst = t => b \in Inputs(t)
      BY <1>1 DEF Inputs, Queues, User
    <3>4. Intact(n[t] + 1)' => data'[t] = {n[t] + 1}
      <4>1. Intact(n[t] + 1)' => Intact(n[t] + 1)
        BY SMTT(30), <1>2, <1>6
      <4>2. t \in Runtimes /\ data'[t] = Computed(t)
        BY <1>1, <1>3
      <4>3. Intact(n[t] + 1) => \A b \in Bindings : b.dst = t => tensor[b] = {n[t] + 1}
        BY <3>2, <3>3
      <4>4. Intact(n[t] + 1) => Computed(t) = {n[t] + 1}
        BY <4>2, <4>3, ComputedLemma
      <4> QED BY <4>1, <4>2, <4>4
    <3>5. \A q \in Children(t) : Left(t, q)'
      BY <1>3 DEF Left
    <3>6. \A q \in Children(t) : p[q] = IF Left(t, q)' THEN n[t] ELSE n[t] + 1
      BY <3>1, <3>5
    <3>7. \A q \in Inputs(t) : o[q] > 0 /\ Intact(o[q])' => tensor'[q] = {o[q]}
      <4>1. \A q \in Inputs(t) : Intact(o[q])' => Intact(o[q])
        BY <1>2, <1>6 DEF Inputs
      <4> QED BY <1>1, <2>1, <2>2, <4>1 DEF WorkerInv
    <3> QED BY <1>1, <1>3, <2>2, <3>1, <3>4, <3>6, <3>7 DEF WorkerInv
  <2>3. CASE s # t
    BY <1>1, <1>2, <1>4, <1>6, <2>1, <2>3, WorkerKept DEF OthersSame
  <2> QED BY <2>2, <2>3
<1>10. SendInv(p)' /\ TakeInv(o)' /\ InputInv'
  <2>1. SameThread(User)
    BY <1>1, <1>4, TopologyLemma DEF OthersSame
  <2> QED BY <1>1, <2>1, UserKept DEF Counted
<1>11. Counted(p, o, n)'
  BY <1>2, <1>7, <1>8, <1>9, <1>10 DEF Counted
<1> QED BY <1>5, <1>10, <1>11 DEF InStep

\* Push writes to a slot that holds none of the data yet to be polled.
LEMMA PushInStep ==
  ASSUME IInv, ValueInv, InputInv, NEW p, NEW o, NEW n, Counted(p, o, n), NEW t \in Threads,
         Push(t)
  PROVE  InStep'
<1>1. PICK q \in todo[t] : /\ ~Full(q)
                           /\ queue_' = [queue_ EXCEPT ![q][tail_[q]] = data[t]]
                           /\ at' = [at EXCEPT ![t] = {q}]
  BY DEF Push
<1>2. /\ pc[t] = "forward" /\ pc' = [pc EXCEPT ![t] = "publish"]
      /\ UNCHANGED <<head_, tail_, tensor, owner, todo, data>> /\ UNCHANGED userVars
  BY DEF Push
<1>3. /\ p \in [Queues -> Nat] /\ o \in [Queues -> Nat] /\ n \in [Threads -> Nat]
      /\ pc \in [Threads -> {"idle"} \union Producing \union Consuming]
      /\ todo \in [Threads -> SUBSET Queues] /\ data \in [Threads -> SUBSET Nat]
      /\ at \in [Threads -> SUBSET Queues] /\ tail_ \in [Queues -> Slots]
      /\ queue_ \in [Queues -> [Slots -> SUBSET Nat]]
  BY DEF Counted, IInv, RangeInv, ValueInv
<1>4. q \in Queues /\ Producer(q) = t
  BY <1>2, <1>3 DEF IInv, RoleInv, Producing
<1>5. /\ pc'[t] = "publish" /\ at'[t] = {q}
      /\ pc[t] \in Producing /\ pc'[t] \in Producing
      /\ pc[t] \notin Consuming /\ pc'[t] \notin Consuming
  BY <1>1, <1>2, <1>3 DEF Consuming, Producing
<1>6. /\ queue_'[q][tail_[q]] = data[t]
      /\ \A i \in Slots : i # tail_[q] => queue_'[q][i] = queue_[q][i]
      /\ \A r \in Queues \ {q} : queue_'[r] = queue_[r]
  BY <1>1, <1>3, <1>4
<1>7. OthersSame(t)
  BY <1>1, <1>2, <1>3 DEF OthersSame, SameThread
<1>8. ValueInv'
  <2>1. queue_' \in [Queues -> [Slots -> SUBSET Nat]]
    BY <1>1, <1>3, <1>4
  <2> QED BY <1>2, <2>1 DEF ValueInv, userVars
<1>9. \A k \in Nat : Intact(k)' => Intact(k)
  BY <1>2 DEF userVars, Intact
<1>10. CountInv(p, o)'
  <2> SUFFICES ASSUME NEW r \in Queues
               PROVE  /\ o[r] <= p[r] /\ p[r] < o[r] + len_
                      /\ head_'[r] = o[r] % len_ /\ tail_'[r] = p[r] % len_
                      /\ \A k \in Nat : o[r] <= k /\ k < p[r] /\ Intact(k + 1)' =>
                           queue_'[r][k % len_] = {k + 1}
    BY DEF CountInv
  <2>1. /\ o[r] <= p[r] /\ p[r] < o[r] + len_
        /\ head_[r] = o[r] % len_ /\ tail_[r] = p[r] % len_
        /\ \A k \in Nat : o[r] <= k /\ k < p[r] /\ Intact(k + 1) =>
             queue_[r][k % len_] = {k + 1}
    BY DEF Counted, CountInv
  <2>2. o[r] \in Nat /\ p[r] \in Nat /\ len_ \in Nat
    BY <1>3, PipelineAssumption
  <2>3. ASSUME NEW k \in Nat, o[r] <= k, k < p[r], Intact(k + 1)'
        PROVE  queue_'[r][k % len_] = {k + 1}
    <3>1. Intact(k + 1)
      BY SMTT(30), <1>9, <2>3
    <3>2. queue_[r][k % len_] = {k + 1}
      BY <2>1, <2>3, <3>1
    <3>3. p[r] < k + len_
      BY SMTT(30), <2>1, <2>2, <2>3
    <3>4. k % len_ \in Slots /\ k % len_ # p[r] % len_
      BY <2>2, <2>3, <3>3, IndexLemma
    <3>5. queue_'[r][k % len_] = queue_[r][k % len_]
      BY <1>6, <2>1, <3>4
    <3> QED BY <3>2, <3>5
  <2> QED BY <1>2, <2>1, <2>3
<1>11. HandInv(o)'
  <2>1. \A r \in Queues : Producer(r) # t => queue_'[r][tail_'[r]] = queue_[r][tail_[r]]
    BY <1>2, <1>4, <1>6
  <2>2. \A r \in at'[t] : queue_'[r][tail_'[r]] = data'[t]
    BY <1>2, <1>5, <1>6
  <2>3. pc'[t] # "polled"
    BY <1>5
  <2> QED BY SMTT(30), <1>3, <1>7, <1>9, <2>1, <2>2, <2>3, HandKept DEF Counted, OthersSame
<1>12. \A r : Left(t, r)' <=> Left(t, r)
  BY <1>2, <1>5 DEF Left
<1>13. ASSUME NEW s \in Threads \ {User} PROVE WorkerInv(s, p, o, n)'
  <2>1. WorkerInv(s, p, o, n)
    BY DEF Counted
  <2>2. CASE s = t
    <3>1. \A r \in Inputs(t) : Intact(o[r])' => Intact(o[r])
      BY <1>3, <1>9 DEF Inputs
    <3>2. Intact(n[t] + 1)' => Intact(n[t] + 1)
      BY SMTT(30), <1>3, <1>9
    <3>3. \A r \in Children(t) : p[r] = IF Left(t, r)' THEN n[t] ELSE n[t] + 1
      BY <1>5, <1>12, <2>1, <2>2 DEF WorkerInv
    <3> QED BY <1>2, <1>5, <2>1, <2>2, <3>1, <3>2, <3>3 DEF WorkerInv
  <2>3. CASE s # t
    BY <1>2, <1>3, <1>7, <1>9, <2>1, <2>3, WorkerKept DEF OthersSame
  <2> QED BY <2>2, <2>3
<1>14. SendInv(p)' /\ TakeInv(o)' /\ InputInv'
  <2>1. CASE t = User
    <3>1. Sending(0)' <=> Sending(0)
      BY <1>2, <1>5, <2>1 DEF Sending
    <3>2. Sending(GLOBAL)' <=> Sending(GLOBAL)
      BY <1>2, <1>5, <2>1 DEF Sending
    <3>3. SendInv(p)'
      BY <1>2, <1>5, <1>12, <2>1, <3>1, <3>2 DEF Counted, SendInv, userVars
    <3>4. TakeInv(o)'
      BY <1>2, <1>5, <2>1 DEF Counted, TakeInv, userVars, Intact
    <3>5. InputInv'
      BY <1>2 DEF InputInv, userVars
    <3> QED BY <3>3, <3>4, <3>5
  <2>2. CASE t # User
    <3>1. SameThread(User)
      BY <1>7, <2>2, TopologyLemma DEF OthersSame
    <3> QED BY <1>2, <3>1, UserKept DEF Counted
  <2> QED BY <2>1, <2>2
<1>15. Counted(p, o, n)'
  BY <1>3, <1>10, <1>11, <1>13, <1>14 DEF Counted
<1> QED BY <1>8, <1>14, <1>15 DEF InStep

\* The datum that becomes visible is that of the frame whose turn it is on this queue.
LEMMA PublishedFrame ==
  ASSUME IInv, ValueInv, NEW p, NEW o, NEW n, Counted(p, o, n), NEW t \in Threads,
         pc[t] = "publish", NEW q \in todo[t], at[t] = {q}, Intact(p[q] + 1)
  PROVE  data[t] = {p[q] + 1}
<1>1. q \in Queues /\ Producer(q) = t /\ pc[t] \in Producing /\ p[q] \in Nat /\ n[t] \in Nat
  BY DEF IInv, RangeInv, RoleInv, Producing, Counted
<1>2. Left(t, q)
  BY DEF Left
<1>3. CASE t # User
  <2>1. q \in Children(t)
    BY <1>1, <1>3 DEF Children, Queues, Producer, User
  <2>2. p[q] = n[t]
    BY <1>1, <1>2, <1>3, <2>1 DEF Counted, WorkerInv
  <2> QED BY <1>1, <1>3, <2>2 DEF Counted, WorkerInv
<1>4. CASE t = User
  <2>1. q.src = owner[User] /\ owner[User] \in {0, GLOBAL}
    BY <1>1, <1>4 DEF Counted, SendInv
  <2>2. CASE owner[User] = 0
    <3>1. Sending(0) /\ q \in Children(0)
      BY <1>1, <1>4, <2>1, <2>2 DEF Sending, Children, Queues
    <3>2. p[q] = frame - 1 /\ data[User] = {frame}
      BY <1>2, <1>4, <3>1 DEF Counted, SendInv
    <3>3. p[q] + 1 = frame
      BY SMTT(30), <3>2 DEF ValueInv
    <3> QED BY <1>4, <3>2, <3>3
  <2>3. CASE owner[User] = GLOBAL
    <3>1. Sending(GLOBAL) /\ q \in Children(GLOBAL) /\ q.dst # 0
      BY <1>1, <1>4, <2>1, <2>3, FirstLemma DEF Sending, Children, Queues
    <3>2. dropped = 0 => p[q] = frame
      BY <1>2, <1>4, <3>1 DEF Counted, SendInv
    <3>3. dropped = 0
      <4>1. dropped # 0 => p[q] + 1 >= dropped
        BY <3>1 DEF Counted, SendInv
      <4>2. dropped = 0 \/ p[q] + 1 < dropped
        BY DEF Intact
      <4> QED BY SMTT(30), <1>1, <4>1, <4>2 DEF ValueInv
    <3>4. data[User] = {frame + 1}
      BY <3>1 DEF Counted, SendInv
    <3> QED BY <1>4, <3>2, <3>3, <3>4
  <2> QED BY <2>1, <2>2, <2>3
<1> QED BY <1>3, <1>4

\* The tail moves: one datum more has been published.
LEMMA TailCount ==
  ASSUME IInv, ValueInv, NEW p, NEW o, NEW n, Counted(p, o, n), NEW t \in Threads,
         pc[t] = "publish", NEW q \in todo[t], at[t] = {q},
         tail_' = [tail_ EXCEPT ![q] = After(tail_[q])], UNCHANGED <<queue_, head_, dropped>>
  PROVE  CountInv([p EXCEPT ![q] = p[q] + 1], o)'
<1> DEFINE p2 == [p EXCEPT ![q] = p[q] + 1]
<1>1. /\ p \in [Queues -> Nat] /\ o \in [Queues -> Nat] /\ tail_ \in [Queues -> Slots]
      /\ len_ \in Nat /\ q \in Queues /\ ~Full(q)
  BY PipelineAssumption DEF Counted, IInv, RangeInv, RingInv
<1>2. p2[q] = p[q] + 1 /\ \A r \in Queues \ {q} : p2[r] = p[r]
  BY <1>1
<1>3. tail_'[q] = After(tail_[q]) /\ \A r \in Queues \ {q} : tail_'[r] = tail_[r]
  BY <1>1
<1>4. p[q] + 1 < o[q] + len_ /\ tail_'[q] = (p[q] + 1) % len_ /\ tail_[q] = p[q] % len_
  <2>1. /\ head_[q] = o[q] % len_ /\ tail_[q] = p[q] % len_ /\ o[q] <= p[q]
        /\ p[q] < o[q] + len_
    BY <1>1 DEF Counted, CountInv
  <2>2. o[q] \in Nat /\ p[q] \in Nat
    BY <1>1
  <2>3. After(p[q] % len_) = (p[q] + 1) % len_ /\ (o[q] + len_) % len_ = o[q] % len_
    BY <2>2, IndexLemma
  <2>4. p[q] + 1 # o[q] + len_
    BY <1>1, <2>1, <2>3 DEF Full
  <2> QED BY SMTT(30), <1>1, <1>3, <2>1, <2>2, <2>3, <2>4
<1>5. Intact(p[q] + 1) => queue_[q][p[q] % len_] = {p[q] + 1}
  <2>1. queue_[q][tail_[q]] = data[t]
    BY DEF Counted, HandInv
  <2>2. ASSUME Intact(p[q] + 1) PROVE data[t] = {p[q] + 1}
    BY <2>2, PublishedFrame
  <2> QED BY <1>4, <2>1, <2>2
<1> HIDE DEF p2
<1> SUFFICES ASSUME NEW r \in Queues
             PROVE  /\ o[r] <= p2[r] /\ p2[r] < o[r] + len_
                    /\ head_'[r] = o[r] % len_ /\ tail_'[r] = p2[r] % len_
                    /\ \A k \in Nat : o[r] <= k /\ k < p2[r] /\ Intact(k + 1)' =>
                         queue_'[r][k % len_] = {k + 1}
  BY DEF CountInv, p2
<1>6. /\ o[r] <= p[r] /\ p[r] < o[r] + len_
      /\ head_[r] = o[r] % len_ /\ tail_[r] = p[r] % len_
      /\ \A k \in Nat : o[r] <= k /\ k < p[r] /\ Intact(k + 1) =>
           queue_[r][k % len_] = {k + 1}
  BY DEF Counted, CountInv
<1>7. \A k \in Nat : Intact(k + 1)' => Intact(k + 1)
  BY DEF Intact
<1>8. o[r] \in Nat /\ p[r] \in Nat
  BY <1>1
<1>9. CASE r = q
  <2>1. p2[r] = p[r] + 1 /\ p2[r] < o[r] + len_ /\ tail_'[r] = p2[r] % len_
    BY <1>2, <1>4, <1>9
  <2>2. o[r] <= p2[r]
    BY SMTT(30), <1>6, <1>8, <2>1
  <2>3. \A k \in Nat : k < p2[r] => k < p[r] \/ k = p[r]
    BY SMTT(30), <1>8, <2>1
  <2>4. \A k \in Nat : o[r] <= k /\ k < p2[r] /\ Intact(k + 1)' => queue_'[r][k % len_] = {k + 1}
    BY <1>5, <1>6, <1>7, <1>9, <2>3
  <2> QED BY <1>6, <2>1, <2>2, <2>4
<1>10. CASE r # q
  BY <1>2, <1>3, <1>6, <1>7, <1>10
<1> QED BY <1>9, <1>10

LEMMA PublishInStep ==
  ASSUME IInv, ValueInv, InputInv, NEW p, NEW o, NEW n, Counted(p, o, n), NEW t \in Threads,
         Publish(t)
  PROVE  InStep'
<1>1. PICK q \in todo[t] : at[t] = {q}
  BY DEF IInv, RoleInv, Publish
<1> DEFINE p2 == [p EXCEPT ![q] = p[q] + 1]
<1>2. /\ pc[t] = "publish" /\ pc' = [pc EXCEPT ![t] = "notify"]
      /\ tail_' = [tail_ EXCEPT ![q] = After(tail_[q])]
      /\ UNCHANGED <<queue_, head_, tensor, owner, todo, at, data>> /\ UNCHANGED userVars
  BY <1>1 DEF Publish
<1>3. /\ p \in [Queues -> Nat] /\ o \in [Queues -> Nat] /\ n \in [Threads -> Nat]
      /\ pc \in [Threads -> {"idle"} \union Producing \union Consuming]
      /\ tail_ \in [Queues -> Slots] /\ todo \in [Threads -> SUBSET Queues]
  BY DEF Counted, IInv, RangeInv
<1>4. q \in Queues /\ Producer(q) = t
  BY <1>1, <1>2, <1>3 DEF IInv, RoleInv, Producing
<1>5. /\ p2 \in [Queues -> Nat] /\ p2[q] = p[q] + 1 /\ \A r \in Queues \ {q} : p2[r] = p[r]
  BY SMTT(30), <1>3, <1>4
<1>6. CountInv(p2, o)'
  BY <1>1, <1>2, TailCount DEF userVars
<1> HIDE DEF p2
<1>7. /\ pc'[t] = "notify"
      /\ pc[t] \in Producing /\ pc'[t] \in Producing
      /\ pc[t] \notin Consuming /\ pc'[t] \notin Consuming
  BY <1>2, <1>3 DEF Consuming, Producing
<1>8. OthersSame(t)
  BY <1>2, <1>3 DEF OthersSame, SameThread
<1>9. ValueInv'
  BY <1>2 DEF ValueInv, userVars
<1>10. \A k \in Nat : Intact(k)' => Intact(k)
  BY <1>2 DEF userVars, Intact
<1>11. HandInv(o)'
  <2>1. \A r \in Queues : Producer(r) # t => queue_'[r][tail_'[r]] = queue_[r][tail_[r]]
    BY <1>2, <1>3, <1>4
  <2>2. pc'[t] # "polled" /\ pc'[t] # "publish"
    BY <1>7
  <2> QED BY <1>3, <1>8, <1>10, <2>1, <2>2, HandKept DEF Counted, OthersSame
<1>12. /\ Left(t, q) /\ ~Left(t, q)'
       /\ \A r : r # q => (Left(t, r)' <=> Left(t, r))
  BY <1>1, <1>2, <1>7 DEF Left
<1>13. ASSUME NEW s \in Threads \ {User} PROVE WorkerInv(s, p2, o, n)'
  <2>1. WorkerInv(s, p, o, n)
    BY DEF Counted
  <2>2. CASE s = t
    <3>1. \A r \in Inputs(t) : Intact(o[r])' => Intact(o[r])
      BY <1>3, <1>10 DEF Inputs
    <3>2. Intact(n[t] + 1)' => Intact(n[t] + 1)
      BY SMTT(30), <1>3, <1>10
    <3>3. ASSUME NEW r \in Children(t) PROVE p2[r] = IF Left(t, r)' THEN n[t] ELSE n[t] + 1
      <4>1. p[r] = IF Left(t, r) THEN n[t] ELSE n[t] + 1
        BY <1>7, <2>1, <2>2 DEF WorkerInv
      <4>2. r \in Queues
        BY TopologyLemma
      <4>3. CASE r = q
        BY <1>5, <1>12, <4>1, <4>3
      <4>4. CASE r # q
        BY <1>5, <1>12, <4>1, <4>2, <4>4
      <4> QED BY <4>3, <4>4
    <3> QED BY <1>2, <1>7, <2>1, <2>2, <3>1, <3>2, <3>3 DEF WorkerInv
  <2>3. CASE s # t
    <3>1. \A r \in Children(s) : p2[r] = p[r]
      BY <1>4, <1>5, <2>3, TopologyLemma
    <3> QED BY <1>2, <1>3, <1>8, <1>10, <2>1, <2>3, <3>1, WorkerKept DEF OthersSame
  <2> QED BY <2>2, <2>3
<1>14. SendInv(p2)' /\ TakeInv(o)' /\ InputInv'
  <2>1. CASE t = User
    <3>1. Sending(0)' <=> Sending(0)
      BY <1>2, <1>7, <2>1 DEF Sending
    <3>2. Sending(GLOBAL)' <=> Sending(GLOBAL)
      BY <1>2, <1>7, <2>1 DEF Sending
    <3>3. /\ SendInv(p) /\ frame' = frame /\ unset' = unset /\ dropped' = dropped
          /\ q.src = owner[User] /\ frame \in Nat
      BY <1>1, <1>2, <1>7, <2>1 DEF Counted, SendInv, userVars, ValueInv
    <3>4. ASSUME NEW r \in Children(0)
          PROVE  p2[r] = IF Sending(0)' /\ Left(User, r)' THEN frame' - 1 ELSE frame'
      <4>1. p[r] = IF Sending(0) /\ Left(User, r) THEN frame - 1 ELSE frame
        BY <3>3 DEF SendInv
      <4>2. r \in Queues /\ r.src = 0
        BY TopologyLemma DEF Children, User
      <4>3. CASE r = q
        <5>1. Sending(0)
          BY <1>7, <2>1, <3>3, <4>2, <4>3 DEF Sending
        <5> QED BY SMTT(30), <1>5, <1>12, <2>1, <3>3, <4>1, <4>3, <5>1
      <4>4. CASE r # q
        BY <1>5, <1>12, <2>1, <3>1, <3>3, <4>1, <4>2, <4>4
      <4> QED BY <4>3, <4>4
    <3>5. ASSUME NEW b \in Children(GLOBAL), b.dst # 0
          PROVE  /\ dropped' = 0 => p2[b] = IF b \in unset' \/ (Sending(GLOBAL)' /\ Left(User, b)')
                                            THEN frame' ELSE frame' + 1
                 /\ dropped' # 0 => p2[b] + 1 >= dropped'
      <4>1. /\ dropped = 0 => p[b] = IF b \in unset \/ (Sending(GLOBAL) /\ Left(User, b))
                                     THEN frame ELSE frame + 1
            /\ dropped # 0 => p[b] + 1 >= dropped
        BY <3>3, <3>5 DEF SendInv
      <4>2. b \in Queues /\ b.src = GLOBAL
        BY <3>5, TopologyLemma DEF Children
      <4>3. CASE b = q
        <5>1. Sending(GLOBAL)
          BY <1>7, <2>1, <3>3, <4>2, <4>3 DEF Sending
        <5>2. b \notin unset
          BY <1>1, <3>3, <4>3, <5>1, <2>1 DEF SendInv
        <5>3. p2[b] = p[b] + 1 /\ p[b] \in Nat /\ dropped \in Nat
          BY <1>3, <1>4, <1>5, <4>3 DEF ValueInv
        <5>4. Left(User, b) /\ ~Left(User, b)'
          BY <1>12, <2>1, <4>3
        <5>5. dropped = 0 => p2[b] = frame + 1
          BY <4>1, <5>1, <5>3, <5>4
        <5>6. dropped # 0 => p2[b] + 1 >= dropped
          BY SMTT(30), <4>1, <5>3
        <5> QED BY <3>3, <5>2, <5>4, <5>5, <5>6
      <4>4. CASE b # q
        BY <1>5, <1>12, <2>1, <3>2, <3>3, <4>1, <4>2, <4>4
      <4> QED BY <4>3, <4>4
    <3>6. SendInv(p2)'
      BY <1>2, <1>7, <2>1, <3>1, <3>2, <3>3, <3>4, <3>5 DEF SendInv
    <3>7. TakeInv(o)'
      BY <1>2, <1>7, <2>1 DEF Counted, TakeInv, userVars, Intact
    <3>8. InputInv'
      BY <1>2 DEF InputInv, userVars
    <3> QED BY <3>6, <3>7, <3>8
  <2>2. CASE t # User
    <3>1. SameThread(User)
      BY <1>8, <2>2, TopologyLemma DEF OthersSame
    <3>2. \A r \in Queues : Producer(r) = User => p2[r] = p[r]
      BY <1>4, <1>5, <2>2
    <3> QED BY <1>2, <3>1, <3>2, UserKept DEF Counted
  <2> QED BY <2>1, <2>2
<1>15. Counted(p2, o, n)'
  BY <1>3, <1>5, <1>6, <1>11, <1>13, <1>14 DEF Counted
<1> QED BY <1>9, <1>14, <1>15 DEF InStep

\* The thread goes on with the next of its children, or with its next round.
LEMMA NotifyInStep ==
  ASSUME IInv, ValueInv, InputInv, NEW p, NEW o, NEW n, Counted(p, o, n), NEW t \in Threads,
         Notify(t)
  PROVE  InStep'
<1>1. PICK q \in todo[t] : at[t] = {q}
  BY DEF IInv, RoleInv, Notify
<1> DEFINE last == todo[t] = {q}
<1>2. /\ pc[t] = "notify"
      /\ UNCHANGED <<queue_, head_, tail_, tensor, owner, at, data>> /\ UNCHANGED userVars
      /\ last => Returned(t)
      /\ ~last => /\ todo' = [todo EXCEPT ![t] = todo[t] \ {q}]
                  /\ pc' = [pc EXCEPT ![t] = "forward"]
  BY <1>1 DEF Notify
<1>3. /\ p \in [Queues -> Nat] /\ o \in [Queues -> Nat] /\ n \in [Threads -> Nat]
      /\ pc \in [Threads -> {"idle"} \union Producing \union Consuming]
      /\ todo \in [Threads -> SUBSET Queues]
  BY DEF Counted, IInv, RangeInv
<1>4. PICK n2 \in [Threads -> Nat] : /\ \A s \in Threads \ {t} : n2[s] = n[s]
                                     /\ n2[t] = IF last THEN n[t] + 1 ELSE n[t]
  <2>1. [n EXCEPT ![t] = n[t] + 1] \in [Threads -> Nat]
    BY SMTT(30), <1>3
  <2>2. CASE last
    BY <1>3, <2>1, <2>2
  <2>3. CASE ~last
    BY <1>3, <2>3
  <2> QED BY <2>2, <2>3
<1>5. /\ last => /\ pc'[t] = IF t = User THEN "idle" ELSE "load"
                 /\ todo'[t] = IF t = User THEN {} ELSE Inputs(t)
      /\ ~last => pc'[t] = "forward" /\ todo'[t] = todo[t] \ {q}
      /\ \A s \in Threads \ {t} : pc'[s] = pc[s] /\ todo'[s] = todo[s]
  BY <1>2, <1>3 DEF Returned
<1>6. OthersSame(t)
  BY <1>2, <1>5 DEF OthersSame, SameThread
<1>7. ValueInv'
  BY <1>2 DEF ValueInv, userVars
<1>8. \A k \in Nat : Intact(k)' => Intact(k)
  BY <1>2 DEF userVars, Intact
<1>9. CountInv(p, o)'
  BY <1>2, <1>8, CountKept DEF Counted
<1>10. pc'[t] # "polled" /\ pc'[t] # "publish" /\ pc'[t] # "notify" /\ pc[t] \in Producing
       /\ pc[t] \notin Consuming
  BY <1>2, <1>5 DEF Producing, Consuming
<1>11. HandInv(o)'
  BY <1>2, <1>3, <1>6, <1>8, <1>10, HandKept DEF Counted, OthersSame
<1>12. /\ ~last => \A r : Left(t, r)' <=> Left(t, r)
       /\ last => \A r : ~Left(t, r)
  BY <1>1, <1>2, <1>5 DEF Left
<1>13. ASSUME NEW s \in Threads \ {User} PROVE WorkerInv(s, p, o, n2)'
  <2>1. WorkerInv(s, p, o, n)
    BY DEF Counted
  <2>2. CASE s = t
    <3>1. \A r \in Inputs(t) : Intact(o[r])' => Intact(o[r])
      BY <1>3, <1>8 DEF Inputs
    <3>2. Intact(n[t] + 1)' => Intact(n[t] + 1)
      BY SMTT(30), <1>3, <1>8
    <3>3. /\ owner[t] = t
          /\ \A r \in Inputs(t) : o[r] > 0 /\ Intact(o[r]) => tensor[r] = {o[r]}
          /\ \A r \in Inputs(t) : o[r] = n[t] + 1
          /\ \A r \in Children(t) : p[r] = IF Left(t, r) THEN n[t] ELSE n[t] + 1
          /\ Intact(n[t] + 1) => data[t] = {n[t] + 1}
      BY <1>10, <2>1, <2>2 DEF WorkerInv
    <3>4. CASE last
      <4>1. pc'[t] = "load" /\ todo'[t] = Inputs(t) /\ n2[t] = n[t] + 1
        BY <1>4, <1>5, <2>2, <3>4
      <4>2. pc'[t] \notin Producing
        BY <4>1 DEF Producing
      <4>3. \A r \in Inputs(t) : o[r] = IF r \in todo'[t] THEN n2[t] ELSE n2[t] + 1
        BY <3>3, <4>1
      <4>4. \A r \in Children(t) : p[r] = n2[t]
        BY <1>12, <3>3, <3>4, <4>1
      <4> QED BY <1>2, <2>2, <3>1, <3>3, <4>2, <4>3, <4>4 DEF WorkerInv
    <3>5. CASE ~last
      <4>1. pc'[t] = "forward" /\ n2[t] = n[t]
        BY <1>4, <1>5, <3>5
      <4>2. pc'[t] \notin Consuming
        BY <4>1 DEF Consuming
      <4>3. \A r \in Children(t) : p[r] = IF Left(t, r)' THEN n2[t] ELSE n2[t] + 1
        BY <1>12, <3>3, <3>5, <4>1
      <4> QED BY <1>2, <2>2, <3>1, <3>2, <3>3, <4>1, <4>2, <4>3 DEF WorkerInv
    <3> QED BY <3>4, <3>5
  <2>3. CASE s # t
    BY <1>2, <1>3, <1>4, <1>6, <1>8, <2>1, <2>3, WorkerKept DEF OthersSame
  <2> QED BY <2>2, <2>3
<1>14. SendInv(p)' /\ TakeInv(o)' /\ InputInv'
  <2>1. CASE t = User
    <3>1. SendInv(p) /\ frame' = frame /\ unset' = unset /\ dropped' = dropped
      BY <1>2 DEF Counted, userVars
    <3>2. \A x : Sending(x) /\ last => ~Sending(x)'
      BY <1>5, <2>1 DEF Sending, Producing
    <3>3. ~last => Sending(0)' = Sending(0) /\ Sending(GLOBAL)' = Sending(GLOBAL)
      BY <1>2, <1>5, <1>10, <2>1 DEF Sending, Producing
    <3>4. /\ Sending(0)' /\ Left(User, q)' => Sending(0)
          /\ last => ~Sending(0)' /\ ~Sending(GLOBAL)'
      BY <1>5, <2>1, <3>3 DEF Sending, Producing
    <3>5. \A r : Sending(0)' /\ Left(User, r)' <=> Sending(0) /\ Left(User, r)
      BY <1>12, <2>1, <3>3, <3>4
    <3>6. \A r : Sending(GLOBAL)' /\ Left(User, r)' <=> Sending(GLOBAL) /\ Left(User, r)
      BY <1>12, <2>1, <3>3, <3>4
    <3>7. /\ pc'[User] \in Producing => \A r \in todo'[User] : r.src = owner'[User]
          /\ \A r \in todo'[User] : ~last => r \in todo[User]
      BY <1>2, <1>5, <1>10, <2>1 DEF Counted, SendInv, Producing
    <3>8. /\ Sending(0)' => frame' > 0 /\ data'[User] = {frame'}
          /\ Sending(GLOBAL)' => /\ data'[User] = {frame' + 1}
                                 /\ \A r \in todo'[User] : r \notin unset'
      BY <1>2, <3>1, <3>3, <3>4, <3>7 DEF SendInv
    <3>9. SendInv(p)'
      BY <1>2, <3>1, <3>5, <3>6, <3>7, <3>8 DEF SendInv
    <3>10. TakeInv(o)'
      <4>1. pc'[User] \notin Consuming /\ pc[User] \notin Consuming
        BY <1>5, <1>10, <2>1 DEF Consuming
      <4> QED BY <1>2, <4>1 DEF Counted, TakeInv, userVars, Intact
    <3>11. InputInv'
      BY <1>2 DEF InputInv, userVars
    <3> QED BY <3>9, <3>10, <3>11
  <2>2. CASE t # User
    <3>1. SameThread(User)
      BY <1>6, <2>2, TopologyLemma DEF OthersSame
    <3> QED BY <1>2, <3>1, UserKept DEF Counted
  <2> QED BY <2>1, <2>2
<1>15. Counted(p, o, n2)'
  BY <1>3, <1>4, <1>9, <1>11, <1>13, <1>14 DEF Counted
<1> QED BY <1>7, <1>14, <1>15 DEF InStep

\* Only an input of the pipeline is ever given up, and every queue has got those of the
\* frames before.
LEMMA GiveUpInStep ==
  ASSUME IInv, ValueInv, InputInv, NEW p, NEW o, NEW n, Counted(p, o, n), NEW t \in Threads,
         GiveUp(t)
  PROVE  InStep'
<1>1. /\ pc[t] = "forward" /\ owner[t] = GLOBAL /\ Returned(t)
      /\ dropped' = IF dropped = 0 THEN frame + 1 ELSE dropped
      /\ UNCHANGED <<queue_, head_, tail_, tensor, frame, unset, outputs, count, owner, at, data>>
  BY DEF GiveUp, PipelineIsStop, queueVars
<1>2. t = User
  BY <1>1, TopologyLemma DEF Counted, WorkerInv
<1>3. /\ p \in [Queues -> Nat] /\ o \in [Queues -> Nat] /\ n \in [Threads -> Nat]
      /\ pc \in [Threads -> {"idle"} \union Producing \union Consuming]
      /\ todo \in [Threads -> SUBSET Queues] /\ frame \in Nat /\ dropped \in Nat
  BY DEF Counted, IInv, RangeInv, ValueInv
<1>4. /\ pc'[User] = "idle" /\ todo'[User] = {}
      /\ \A s \in Threads \ {User} : pc'[s] = pc[s] /\ todo'[s] = todo[s]
  BY <1>1, <1>2, <1>3 DEF Returned
<1>5. OthersSame(User)
  BY <1>1, <1>4 DEF OthersSame, SameThread
<1>6. ValueInv'
  BY SMTT(30), <1>1, <1>3 DEF ValueInv
<1>7. \A k \in Nat : Intact(k)' => Intact(k)
  BY <1>1, <1>3 DEF Intact
<1>8. CountInv(p, o)'
  BY <1>1, <1>7, CountKept DEF Counted
<1>9. /\ pc[User] \in Producing /\ pc'[User] \notin Producing
      /\ pc[User] \notin Consuming /\ pc'[User] \notin Consuming
  BY <1>1, <1>2, <1>4 DEF Producing, Consuming
<1>10. HandInv(o)'
  BY <1>1, <1>2, <1>3, <1>4, <1>5, <1>7, HandKept DEF Counted, OthersSame
<1>11. ASSUME NEW s \in Threads \ {User} PROVE WorkerInv(s, p, o, n)'
  BY <1>1, <1>3, <1>5, <1>7, WorkerKept DEF OthersSame, Counted
<1>12. SendInv(p)'
  <2>1. ~Sending(0) /\ ~Sending(0)' /\ ~Sending(GLOBAL)'
    BY SMTT(30), <1>1, <1>2, <1>9 DEF Sending, GLOBAL
  <2>2. \A q \in Children(0) : p[q] = IF Sending(0)' /\ Left(User, q)' THEN frame' - 1 ELSE frame'
    BY <1>1, <2>1 DEF Counted, SendInv
  <2>3. ASSUME NEW b \in Children(GLOBAL), b.dst # 0
        PROVE  dropped' # 0 /\ p[b] + 1 >= dropped'
    <3>1. /\ dropped = 0 => p[b] = frame \/ p[b] = frame + 1
          /\ dropped # 0 => p[b] + 1 >= dropped
      BY <2>3 DEF Counted, SendInv
    <3> QED BY SMTT(30), <1>1, <1>3, <3>1
  <2> QED BY <1>1, <1>9, <2>1, <2>2, <2>3 DEF Counted, SendInv
<1>13. TakeInv(o)'
  <2>1. \A k \in 1 .. MaxFrame : k \in Nat
    BY SMTT(30), PipelineAssumption
  <2> QED BY <1>1, <1>7, <1>9, <2>1 DEF Counted, TakeInv
<1>14. InputInv'
  BY <1>1 DEF InputInv
<1>15. Counted(p, o, n)'
  BY <1>3, <1>8, <1>10, <1>11, <1>12, <1>13 DEF Counted
<1> QED BY <1>6, <1>14, <1>15 DEF InStep

\* An input of the next frame, for the first runtime or for a later one.
LEMMA SetInputInStep ==
  ASSUME IInv, UnsetInv, ValueInv, InputInv, NEW p, NEW o, NEW n, Counted(p, o, n),
         SetPipelineInput
  PROVE  InStep'
<1>1. PICK b \in unset :
        /\ unset' = unset \ {b}
        /\ b.dst = 0 => tensor' = [tensor EXCEPT ![b] = {frame + 1}] /\ UNCHANGED threadVars
        /\ b.dst # 0 => /\ data' = [data EXCEPT ![User] = {frame + 1}]
                        /\ owner' = [owner EXCEPT ![User] = GLOBAL]
                        /\ todo' = [todo EXCEPT ![User] = {b}]
                        /\ pc' = [pc EXCEPT ![User] = "forward"]
                        /\ UNCHANGED <<tensor, at>>
  BY DEF SetPipelineInput
<1>2. /\ pc[User] = "idle" /\ b \in Children(GLOBAL) /\ b \in Bindings /\ b.src = GLOBAL
      /\ UNCHANGED <<queue_, head_, tail_, frame, outputs, count, dropped>>
  BY <1>1 DEF SetPipelineInput, queueVars, UnsetInv, Children
<1>3. /\ p \in [Queues -> Nat] /\ o \in [Queues -> Nat] /\ n \in [Threads -> Nat]
      /\ pc \in [Threads -> {"idle"} \union Producing \union Consuming]
      /\ todo \in [Threads -> SUBSET Queues] /\ frame \in Nat /\ frame + 1 \in Nat
      /\ data \in [Threads -> SUBSET Nat] /\ tensor \in [Bindings -> SUBSET Nat]
      /\ owner \in [Threads -> Threads \union {GLOBAL}] /\ User \in Threads
  BY SMTT(30), TopologyLemma DEF Counted, IInv, RangeInv, ValueInv
<1>4. \A s \in Threads \ {User} : SameThread(s)
  BY <1>1, <1>2, <1>3 DEF SameThread, threadVars
<1>5. \A r \in Bindings \ {b} : tensor'[r] = tensor[r]
  BY <1>1, <1>3
<1>6. ValueInv'
  <2>1. {frame + 1} \in SUBSET Nat
    BY <1>3
  <2>2. tensor' \in [Bindings -> SUBSET Nat]
    BY <1>1, <1>2, <1>3, <2>1
  <2>3. data' \in [Threads -> SUBSET Nat]
    BY <1>1, <1>3, <2>1 DEF threadVars
  <2>4. owner' \in [Threads -> Threads \union {GLOBAL}]
    BY <1>1, <1>3 DEF threadVars
  <2> QED BY <1>2, <2>2, <2>3, <2>4 DEF ValueInv
<1>7. \A k \in Nat : Intact(k)' => Intact(k)
  BY <1>2 DEF Intact
<1>8. CountInv(p, o)'
  BY <1>2, <1>7, CountKept DEF Counted
<1>9. /\ pc[User] \notin Producing /\ pc[User] \notin Consuming /\ pc'[User] \notin Consuming
      /\ pc'[User] # "polled" /\ pc'[User] # "publish"
      /\ b.dst = 0 => pc'[User] \notin Producing /\ owner'[User] = owner[User]
      /\ b.dst # 0 => /\ pc'[User] = "forward" /\ todo'[User] = {b}
                      /\ owner'[User] = GLOBAL /\ data'[User] = {frame + 1}
  BY <1>1, <1>2, <1>3 DEF Producing, Consuming, threadVars
<1>10. HandInv(o)'
  BY <1>2, <1>3, <1>4, <1>7, <1>9, HandKept DEF Counted
<1>11. ASSUME NEW s \in Threads \ {User} PROVE WorkerInv(s, p, o, n)'
  <2>1. \A q \in Inputs(s) : tensor'[q] = tensor[q]
    <3>1. CASE b.dst = 0
      <4>1. \A q \in Inputs(s) : q # b /\ q \in Bindings
        BY <3>1 DEF Inputs, Queues, User
      <4> QED BY <1>5, <4>1
    <3>2. CASE b.dst # 0
      BY <1>1, <3>2
    <3> QED BY <3>1, <3>2
  <2> QED BY <1>3, <1>4, <1>7, <2>1, WorkerKept DEF Counted
<1>12. SendInv(p)'
  <2>1. /\ ~Sending(0) /\ ~Sending(GLOBAL) /\ ~Sending(0)'
        /\ Sending(GLOBAL)' <=> b.dst # 0
    BY SMTT(30), <1>9, <1>3 DEF Sending, GLOBAL, Producing
  <2>2. \A q \in Children(0) : p[q] = IF Sending(0)' /\ Left(User, q)' THEN frame' - 1 ELSE frame'
    BY <1>2, <2>1 DEF Counted, SendInv
  <2>3. \A r : Sending(GLOBAL)' /\ Left(User, r)' <=> b.dst # 0 /\ r = b
    BY <1>9, <2>1 DEF Left
  <2>4. ASSUME NEW c \in Children(GLOBAL), c.dst # 0
        PROVE  /\ dropped' = 0 => p[c] = IF c \in unset' \/ (Sending(GLOBAL)' /\ Left(User, c)')
                                         THEN frame' ELSE frame' + 1
               /\ dropped' # 0 => p[c] + 1 >= dropped'
    <3>1. /\ dropped = 0 => p[c] = IF c \in unset THEN frame ELSE frame + 1
          /\ dropped # 0 => p[c] + 1 >= dropped
      BY <2>1, <2>4 DEF Counted, SendInv
    <3>2. c \in unset <=> c \in unset' \/ (Sending(GLOBAL)' /\ Left(User, c)')
      BY <1>1, <2>3, <2>4
    <3> QED BY <1>2, <3>1, <3>2
  <2>5. /\ owner'[User] \in {0, GLOBAL}
        /\ pc'[User] \in Producing => \A q \in todo'[User] : q.src = owner'[User]
        /\ Sending(GLOBAL)' => /\ data'[User] = {frame' + 1}
                               /\ \A q \in todo'[User] : q \notin unset'
    BY <1>1, <1>2, <1>9, <2>1 DEF Counted, SendInv
  <2> QED BY <2>1, <2>2, <2>4, <2>5 DEF SendInv
<1>13. TakeInv(o)'
  BY <1>2, <1>9 DEF Counted, TakeInv, Intact
<1>14. InputInv'
  <2> SUFFICES ASSUME NEW c \in Bindings, c.dst = 0, c \notin unset'
               PROVE  tensor'[c] = {frame + 1}
    BY <1>2 DEF InputInv
  <2>1. CASE c = b
    BY <1>1, <1>3, <2>1
  <2>2. CASE c # b
    BY <1>1, <1>5, <2>2 DEF InputInv
  <2> QED BY <2>1, <2>2
<1>15. Counted(p, o, n)'
  BY <1>3, <1>8, <1>10, <1>11, <1>12, <1>13 DEF Counted
<1> QED BY <1>6, <1>14, <1>15 DEF InStep

\* The first runtime computes from the inputs of the frame, all of them set.
LEMMA RunInStep ==
  ASSUME ModulesHaveInputs,
         IInv, ValueInv, InputInv, NEW p, NEW o, NEW n, Counted(p, o, n), Run
  PROVE  InStep'
<1>1. /\ pc[User] = "idle" /\ unset = {} /\ frame' = frame + 1 /\ unset' = Children(GLOBAL)
      /\ data' = [data EXCEPT ![User] = Computed(0)]
      /\ owner' = [owner EXCEPT ![User] = 0]
      /\ todo' = [todo EXCEPT ![User] = Children(0)]
      /\ pc' = [pc EXCEPT ![User] = "forward"]
      /\ UNCHANGED <<queue_, head_, tail_, tensor, outputs, count, dropped, at>>
  BY DEF Run, queueVars
<1>2. /\ p \in [Queues -> Nat] /\ o \in [Queues -> Nat] /\ n \in [Threads -> Nat]
      /\ pc \in [Threads -> {"idle"} \union Producing \union Consuming]
      /\ todo \in [Threads -> SUBSET Queues] /\ frame \in Nat
      /\ data \in [Threads -> SUBSET Nat]
      /\ owner \in [Threads -> Threads \union {GLOBAL}] /\ User \in Threads /\ 0 \in Runtimes
  BY TopologyLemma DEF Counted, IInv, RangeInv, ValueInv, User, Threads
<1>3. /\ pc'[User] = "forward" /\ todo'[User] = Children(0) /\ owner'[User] = 0
      /\ data'[User] = Computed(0)
      /\ pc[User] \notin Producing /\ pc[User] \notin Consuming /\ pc'[User] \notin Consuming
      /\ pc'[User] \in Producing
  BY <1>1, <1>2 DEF Producing, Consuming
<1>4. Computed(0) = {frame + 1}
  <2>1. \A b \in Bindings : b.dst = 0 => tensor[b] = {frame + 1}
    BY <1>1 DEF InputInv
  <2> QED BY <1>2, <2>1, ComputedLemma
<1>5. \A s \in Threads \ {User} : SameThread(s)
  BY <1>1, <1>2 DEF SameThread
<1>6. ValueInv'
  <2>1. owner' \in [Threads -> Threads \union {GLOBAL}]
    BY <1>1, <1>2 DEF Threads
  <2>2. data' \in [Threads -> SUBSET Nat] /\ frame' \in Nat
    BY SMTT(30), <1>1, <1>2, <1>4
  <2> QED BY <1>1, <2>1, <2>2 DEF ValueInv
<1>7. \A k \in Nat : Intact(k)' => Intact(k)
  BY <1>1 DEF Intact
<1>8. CountInv(p, o)'
  BY <1>1, <1>7, CountKept DEF Counted
<1>9. HandInv(o)'
  BY <1>1, <1>2, <1>3, <1>5, <1>7, HandKept DEF Counted
<1>10. ASSUME NEW s \in Threads \ {User} PROVE WorkerInv(s, p, o, n)'
  BY <1>1, <1>2, <1>5, <1>7, WorkerKept DEF Counted
<1>11. SendInv(p)'
  <2>1. ~Sending(0) /\ ~Sending(GLOBAL) /\ Sending(0)' /\ ~Sending(GLOBAL)'
    BY SMTT(30), <1>3 DEF Sending, GLOBAL
  <2>2. ASSUME NEW q \in Children(0)
        PROVE  p[q] = IF Sending(0)' /\ Left(User, q)' THEN frame' - 1 ELSE frame'
    <3>1. p[q] = frame
      BY <2>1 DEF Counted, SendInv
    <3>2. Left(User, q)'
      BY <1>3 DEF Left
    <3>3. frame' - 1 = frame
      BY SMTT(30), <1>1, <1>2
    <3> QED BY <2>1, <3>1, <3>2, <3>3
  <2>3. ASSUME NEW b \in Children(GLOBAL), b.dst # 0
        PROVE  /\ dropped' = 0 => p[b] = IF b \in unset' \/ (Sending(GLOBAL)' /\ Left(User, b)')
                                         THEN frame' ELSE frame' + 1
               /\ dropped' # 0 => p[b] + 1 >= dropped'
    <3>1. /\ dropped = 0 => p[b] = frame + 1
          /\ dropped # 0 => p[b] + 1 >= dropped
      BY <1>1, <2>1, <2>3 DEF Counted, SendInv
    <3> QED BY <1>1, <3>1
  <2>4. /\ \A q \in todo'[User] : q.src = owner'[User]
        /\ frame' > 0 /\ data'[User] = {frame'}
    BY SMTT(30), <1>1, <1>2, <1>3, <1>4 DEF Children
  <2> QED BY <1>3, <2>1, <2>2, <2>3, <2>4 DEF SendInv
<1>12. TakeInv(o)'
  BY <1>1, <1>3 DEF Counted, TakeInv, Intact
<1>13. InputInv'
  BY <1>1, FirstLemma DEF InputInv
<1>14. Counted(p, o, n)'
  BY <1>2, <1>8, <1>9, <1>10, <1>11, <1>12 DEF Counted
<1> QED BY <1>6, <1>13, <1>14 DEF InStep

LEMMA GetOutputInStep ==
  ASSUME IInv, ValueInv, InputInv, NEW p, NEW o, NEW n, Counted(p, o, n), GetOutput
  PROVE  InStep'
<1>1. /\ pc[User] = "idle" /\ count < MaxFrame /\ count' = count + 1
      /\ todo' = [todo EXCEPT ![User] = Inputs(GLOBAL)]
      /\ pc' = [pc EXCEPT ![User] = "load"]
      /\ UNCHANGED <<queue_, head_, tail_, tensor, frame, unset, outputs, dropped, owner, at, data>>
  BY DEF GetOutput, queueVars
<1>2. /\ p \in [Queues -> Nat] /\ o \in [Queues -> Nat] /\ n \in [Threads -> Nat]
      /\ pc \in [Threads -> {"idle"} \union Producing \union Consuming]
      /\ todo \in [Threads -> SUBSET Queues] /\ count \in 0 .. MaxFrame /\ MaxFrame \in Nat
      /\ User \in Threads
  BY TopologyLemma, PipelineAssumption DEF Counted, IInv, RangeInv, ValueInv
<1>3. /\ pc'[User] = "load" /\ todo'[User] = Inputs(GLOBAL)
      /\ pc[User] \notin Producing /\ pc[User] \notin Consuming /\ pc'[User] \in Consuming
      /\ pc'[User] \notin Producing
  BY <1>1, <1>2 DEF Producing, Consuming
<1>4. \A s \in Threads \ {User} : SameThread(s)
  BY <1>1, <1>2 DEF SameThread
<1>5. ValueInv'
  BY SMTT(30), <1>1, <1>2 DEF ValueInv
<1>6. \A k \in Nat : Intact(k)' => Intact(k)
  BY <1>1 DEF Intact
<1>7. CountInv(p, o)'
  BY <1>1, <1>6, CountKept DEF Counted
<1>8. HandInv(o)'
  BY <1>1, <1>2, <1>3, <1>4, <1>6, HandKept DEF Counted
<1>9. ASSUME NEW s \in Threads \ {User} PROVE WorkerInv(s, p, o, n)'
  BY <1>1, <1>2, <1>4, <1>6, WorkerKept DEF Counted
<1>10. SendInv(p)'
  BY <1>1, <1>3, SendKept DEF Counted
<1>11. TakeInv(o)'
  <2>1. \A q \in Inputs(GLOBAL) : o[q] = count
    BY <1>3 DEF Counted, TakeInv
  <2>2. count' - 1 = count /\ count' > 0
    BY SMTT(30), <1>1, <1>2
  <2>3. \A q \in Inputs(GLOBAL), k \in 1 .. MaxFrame : Intact(k)' => outputs'[q][k] \in {{}, {k}}
    BY <1>1 DEF Counted, TakeInv, Intact
  <2> QED BY <1>3, <2>1, <2>2, <2>3 DEF TakeInv
<1>12. InputInv'
  BY <1>1 DEF InputInv
<1>13. Counted(p, o, n)'
  BY <1>2, <1>7, <1>8, <1>9, <1>10, <1>11 DEF Counted
<1> QED BY <1>5, <1>12, <1>13 DEF InStep

-----------------------------------------------------------------------------
LEMMA InitInStep == Init => InStep
<1> SUFFICES ASSUME Init PROVE InStep
  OBVIOUS
<1> DEFINE z == [q \in Queues |-> 0]
           y == [t \in Threads |-> 0]
<1>1. /\ z \in [Queues -> Nat] /\ y \in [Threads -> Nat] /\ \A q \in Queues : z[q] = 0
      /\ \A t \in Threads : y[t] = 0
  OBVIOUS
<1>2. len_ \in Nat /\ len_ > 1 /\ MaxFrame \in Nat /\ 0 % len_ = 0
  BY SMTT(30), PipelineAssumption
<1> HIDE DEF z, y
<1>3. ValueInv
  BY SMTT(30), <1>2 DEF Init, ValueInv
<1>4. InputInv
  BY FirstLemma DEF Init, InputInv
<1>5. CountInv(z, z)
  BY SMTT(30), <1>1, <1>2 DEF Init, CountInv
<1>6. HandInv(z)
  BY DEF Init, HandInv
<1>7. ASSUME NEW t \in Threads \ {User} PROVE WorkerInv(t, z, z, y)
  <2>1. pc[t] = "load" /\ todo[t] = Inputs(t) /\ owner[t] = t /\ y[t] = 0
    BY <1>1 DEF Init
  <2>2. \A q \in Inputs(t) : z[q] = 0
    BY <1>1 DEF Inputs
  <2>3. \A q \in Children(t) : z[q] = 0
    BY <1>1, TopologyLemma
  <2>4. pc[t] \notin Producing
    BY <2>1 DEF Producing
  <2> QED BY SMTT(30), <2>1, <2>2, <2>3, <2>4 DEF WorkerInv
<1>8. pc[User] = "idle" /\ owner[User] = 0 /\ pc[User] \notin Producing /\ pc[User] \notin Consuming
  BY TopologyLemma DEF Init, User, Producing, Consuming
<1>9. SendInv(z)
  <2>1. ~Sending(0) /\ ~Sending(GLOBAL)
    BY <1>8 DEF Sending
  <2>2. \A q \in Children(0) : z[q] = 0
    BY <1>1, TopologyLemma DEF User
  <2>3. \A b \in Children(GLOBAL) : b.dst # 0 => z[b] = 0
    BY <1>1, TopologyLemma
  <2>4. frame = 0 /\ unset = Children(GLOBAL) /\ dropped = 0
    BY DEF Init
  <2> QED BY <1>8, <2>1, <2>2, <2>3, <2>4 DEF SendInv
<1>10. TakeInv(z)
  <2>1. \A q \in Inputs(GLOBAL) : z[q] = 0
    BY <1>1 DEF Inputs
  <2> QED BY <1>8, <2>1 DEF Init, TakeInv
<1>11. Counted(z, z, y)
  BY <1>1, <1>5, <1>6, <1>7, <1>9, <1>10 DEF Counted
<1> QED BY <1>3, <1>4, <1>11 DEF InStep

LEMMA StepInStep ==
  ASSUME ModulesHaveInputs
  PROVE  IInv /\ UnsetInv /\ InStep /\ [Next]_vars => InStep'
<1> SUFFICES ASSUME IInv, UnsetInv, InStep, [Next]_vars PROVE InStep'
  OBVIOUS
<1>1. PICK p, o, n : Counted(p, o, n)
  BY DEF InStep
<1>2. ValueInv /\ InputInv
  BY DEF InStep
<1>3. CASE \E t \in Threads : ThreadStep(t)
  <2> PICK t \in Threads : ThreadStep(t)
    BY <1>3
  <2> QED BY <1>1, <1>2, LoadInStep, PolledInStep, RunModuleInStep, PushInStep, PublishInStep,
             NotifyInStep, GiveUpInStep DEF ThreadStep
<1>4. CASE UserStep
  BY <1>1, <1>2, <1>4, SetInputInStep, RunInStep, GetOutputInStep, PolledOutputInStep DEF UserStep
<1>5. CASE UNCHANGED vars
  <2>1. UNCHANGED <<queue_, head_, tail_>> /\ UNCHANGED <<pc, owner, todo, at, data, tensor>>
        /\ UNCHANGED userVars
    BY <1>5 DEF vars, queueVars, threadVars
  <2>2. \A s \in Threads : SameThread(s)
    BY <2>1 DEF SameThread
  <2>3. \A k \in Nat : Intact(k)' => Intact(k)
    BY <2>1 DEF userVars, Intact
  <2>4. CountInv(p, o)'
    BY <1>1, <2>1, <2>3, CountKept DEF Counted
  <2>5. HandInv(o)'
    BY <1>1, <2>1 DEF Counted, HandInv, userVars, Intact
  <2>6. \A t \in Threads \ {User} : WorkerInv(t, p, o, n)'
    BY <1>1, <2>1, <2>2, <2>3, WorkerKept DEF Counted
  <2>7. SendInv(p)' /\ TakeInv(o)' /\ InputInv'
    BY <1>1, <1>2, <2>1, <2>2, UserKept, TopologyLemma DEF Counted
  <2>8. ValueInv'
    BY <1>2, <2>1 DEF ValueInv, userVars
  <2>9. Counted(p, o, n)'
    BY <1>1, <2>4, <2>5, <2>6, <2>7 DEF Counted
  <2> QED BY <2>7, <2>8, <2>9 DEF InStep
<1> QED BY <1>3, <1>4, <1>5 DEF Next

\* For every pipeline whose modules all have inputs, every length of the queues and all
\* speeds of the threads: no module mixes the inputs of two frames, and the k-th data that
\* GetOutput returns is that of the k-th call of Run, up to the first frame of which
\* SetPipelineInput dropped an input (WaitAndLoadPipelineData, ForwardData, GetOutput).
THEOREM FramesStayInStep ==
  ASSUME ModulesHaveInputs
  PROVE  Spec => []FramesInStep
<1>1. IInv /\ InStep => FramesInStep
  <2> SUFFICES ASSUME IInv, InStep PROVE FramesInStep
    OBVIOUS
  <2>1. PICK p, o, n : Counted(p, o, n)
    BY DEF InStep
  <2>2. ASSUME NEW t \in Threads, dropped = 0, pc[t] = "forward"
        PROVE  \E k \in data[t] : data[t] = {k}
    <3>1. pc[t] \in Producing /\ \A k : Intact(k)
      BY <2>2 DEF Producing, Intact
    <3>2. \E x : data[t] = {x}
      <4>1. CASE t = User
        BY <2>1, <3>1, <4>1 DEF Counted, SendInv, Sending
      <4>2. CASE t # User
        BY <2>1, <3>1, <4>2 DEF Counted, WorkerInv
      <4> QED BY <4>1, <4>2
    <3> QED BY <3>2
  <2>3. \A q \in Inputs(GLOBAL), k \in 1 .. MaxFrame : Intact(k) => outputs[q][k] \in {{}, {k}}
    BY <2>1 DEF Counted, TakeInv
  <2> QED BY <2>2, <2>3 DEF FramesInStep
<1> QED BY <1>1, InvHolds, InitInStep, StepInStep, PTL DEF Spec
=============================================================================
