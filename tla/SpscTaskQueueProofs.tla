------------------------ MODULE SpscTaskQueueProofs ------------------------
(***************************************************************************)
(* Proofs about SpscTaskQueue, for every ring size that int8_t can count   *)
(* and every number of pushes.                                             *)
(***************************************************************************)
EXTENDS MCSpscTaskQueue, SequenceTheorems, TLAPS

\* A leaf goes to Zenon unless it names another prover.
USE Zenon

\* Tasks whose slot is published, and tasks whose fetch_add is done.
Published == IF ppc \in {"enqueue", "publish"} THEN pushed - 1 ELSE pushed
Added == IF ppc \in {"enqueue", "publish", "add"} THEN pushed - 1 ELSE pushed

\* Tasks whose fetch_sub is done: one more than were popped, except in the
\* busy wait.
Claimed == IF cpc = "spin" THEN popped ELSE popped + 1

\* The slot i places after the slot h.
After(h, i) == IF h + i < kRingSize THEN h + i ELSE h + i - kRingSize

\* head_ and tail_ delimit the published tasks that were not popped.
ShapeInv ==
  /\ Published - popped \in 0 .. kRingSize - 1
  /\ tail_ = After(head_, Published - popped)
  /\ ppc = "publish" => Published - popped < kRingSize - 1
  /\ ppc # "idle" => pushed >= 1

\* The ring holds those tasks in order, then the one about to be published.
ContentsInv ==
  /\ \A i \in Slots : i < Published - popped
        => buffer_[After(head_, i)] = popped + 1 + i
  /\ ppc = "publish" => buffer_[tail_] = pushed

RingInv == ShapeInv /\ ContentsInv /\ InOrder

\* pending_ is exactly the difference of the two counts; the worker is past the
\* wait only when its task is there, or it has to exit.
PendingInv ==
  /\ pending_ = Added - Claimed
  /\ cpc \in {"spin", "take", "advance"} => pending_ >= 0
  /\ cpc = "check" => pending_ >= 0 \/ exit_now_
  /\ pending_ >= -1

\* The mutex is what makes the test of the predicate and the sleep one step for
\* a notifier.
WakeInv ==
  /\ mutex_ <=> cpc \in {"test", "sleep"}
  /\ exit_now_ => ppc = "idle"
  /\ cpc \in {"sleep", "waiting"} /\ (pending_ >= 0 \/ exit_now_)
        => ppc = "notify"

IInv == TypeOK /\ RingInv /\ PendingInv /\ WakeInv

----------------------------------------------------------------------------
\* One step around the ring is one step of After.
LEMMA ModLemma ==
  \A s \in Slots : (s + 1) % kRingSize = After(s, 1)
<1> SUFFICES ASSUME NEW s \in 0 .. kRingSize - 1
             PROVE  (s + 1) % kRingSize = After(s, 1)
  BY DEF Slots
<1>1. CASE s + 1 < kRingSize
  BY SMTT(30), <1>1, RingAssumption DEF After
<1>2. CASE s + 1 = kRingSize
  BY SMTT(30), <1>2, RingAssumption DEF After
<1> QED BY SMTT(30), <1>1, <1>2, RingAssumption

\* After is the position in a ring: it stays in the ring, tells different
\* distances apart, adds up, and comes back to the start after kRingSize steps.
LEMMA AfterLemma ==
  ASSUME NEW h \in Slots, NEW i \in Slots
  PROVE  /\ After(h, i) \in Slots
         /\ After(h, 0) = h
         /\ \A j \in Slots : After(h, i) = After(h, j) => i = j
         /\ i + 1 \in Slots => After(After(h, i), 1) = After(h, i + 1)
         /\ i + 1 \in Slots => After(After(h, 1), i) = After(h, i + 1)
         /\ i + 1 = kRingSize => After(After(h, i), 1) = h
  BY SMTT(30), RingAssumption DEF After, Slots

\* A value that fits in eight bits is not changed by the int8_t arithmetic.
LEMMA Int8Lemma == \A n \in -128 .. 127 : Int8(n) = n
  BY SMTT(30) DEF Int8

LEMMA InitInv == Init => IInv
<1> SUFFICES ASSUME Init PROVE IInv
  OBVIOUS
<1> USE RingAssumption, MaxPushAssumption DEF Init
<1>1. TypeOK
  <2>1. buffer_ \in [Slots -> 0 .. MaxPush]
    BY SMTT(30)
  <2>2. head_ \in Slots /\ tail_ \in Slots
    BY SMTT(30) DEF Slots
  <2>3. pending_ \in -128 .. 127 /\ pushed \in 0 .. MaxPush
        /\ output \in 0 .. MaxPush /\ popped \in Nat
    BY SMTT(30)
  <2> QED BY <2>1, <2>2, <2>3 DEF TypeOK
<1>2. RingInv
  BY SMTT(30) DEF RingInv, ShapeInv, ContentsInv, InOrder, Published, After, Slots
<1>3. PendingInv
  BY SMTT(30) DEF PendingInv, Added, Claimed
<1>4. WakeInv
  BY DEF WakeInv
<1> QED BY <1>1, <1>2, <1>3, <1>4 DEF IInv

----------------------------------------------------------------------------
\* Every step preserves the invariant.
LEMMA StepInv == IInv /\ [Next]_vars => IInv'
<1> SUFFICES ASSUME IInv, [Next]_vars PROVE IInv'
  OBVIOUS
<1> USE RingAssumption, MaxPushAssumption
<1> USE DEF IInv
<1>1. CASE PushBegin
  <2> USE <1>1 DEF PushBegin, ring
  <2>1. TypeOK'
    BY SMTT(30) DEF TypeOK
  <2>2. RingInv'
    BY SMTT(30) DEF TypeOK, RingInv, ShapeInv, ContentsInv, InOrder, Published, After, Slots
  <2>3. PendingInv'
    BY SMTT(30) DEF TypeOK, PendingInv, Added, Claimed
  <2>4. WakeInv'
    BY DEF TypeOK, WakeInv
  <2> QED BY <2>1, <2>2, <2>3, <2>4
<1>2. CASE EnqueueStore
  <2> USE <1>2 DEF EnqueueStore
  <2>1. TypeOK'
    BY DEF TypeOK, Slots
  <2>2. RingInv'
    <3> DEFINE n == Published - popped
    <3>0. /\ n \in Slots /\ Published' - popped' = n
          /\ tail_ = After(head_, n) /\ After(tail_, 1) # head_
      BY ModLemma DEF TypeOK, RingInv, ShapeInv, Published, Slots
    <3> HIDE DEF n
    <3>1. n + 1 \in Slots
      <4>1. head_ \in Slots
        BY DEF TypeOK
      <4>2. n + 1 = kRingSize => After(After(head_, n), 1) = head_
        BY <3>0, <4>1, AfterLemma
      <4> QED BY SMTT(30), <3>0, <4>2 DEF Slots
    <3>2. ShapeInv'
      BY SMTT(30), <3>0, <3>1 DEF TypeOK, RingInv, ShapeInv, Published, Slots, After
    <3>3. ContentsInv'
      <4>1. ASSUME NEW i \in Slots, i < n
            PROVE  buffer_'[After(head_, i)] = popped + 1 + i
        <5>0. head_ \in Slots /\ i # n
          BY SMTT(30), <3>0, <4>1 DEF TypeOK, Slots
        <5>1. After(head_, i) \in Slots /\ After(head_, i) # tail_
          BY SMTT(30), <3>0, <5>0, AfterLemma
        <5>2. buffer_[After(head_, i)] = popped + 1 + i
          BY <4>1 DEF RingInv, ContentsInv, n
        <5> QED BY <5>1, <5>2 DEF TypeOK
      <4> QED BY <3>0, <4>1 DEF TypeOK, ContentsInv, After
    <3>4. InOrder'
      BY DEF RingInv, InOrder
    <3> QED BY <3>2, <3>3, <3>4 DEF RingInv
  <2>3. PendingInv'
    BY DEF TypeOK, PendingInv, Added, Claimed
  <2>4. WakeInv'
    BY DEF TypeOK, WakeInv
  <2> QED BY <2>1, <2>2, <2>3, <2>4
<1>3. CASE EnqueuePublish
  <2> USE <1>3 DEF EnqueuePublish
  <2>0. tail_' = After(tail_, 1)
    BY ModLemma DEF TypeOK
  <2>1. TypeOK'
    BY SMTT(30), <2>0 DEF TypeOK, Slots, After
  <2>2. RingInv'
    <3> DEFINE n == Published - popped
    <3>0. /\ n \in Slots /\ n + 1 \in Slots /\ Published' - popped' = n + 1
          /\ tail_ = After(head_, n) /\ pushed = popped + 1 + n
      BY SMTT(30) DEF TypeOK, RingInv, ShapeInv, Published, Slots
    <3>2. ShapeInv'
      <4>1. tail_' = After(head_, n + 1)
        <5> HIDE DEF n
        <5>1. head_ \in Slots
          BY DEF TypeOK
        <5>2. After(After(head_, n), 1) = After(head_, n + 1)
          BY <3>0, <5>1, AfterLemma
        <5> QED BY <2>0, <3>0, <5>2
      <4> QED BY <3>0, <4>1 DEF TypeOK, RingInv, ShapeInv, Slots, After
    <3>3. ContentsInv'
      <4>1. ASSUME NEW i \in Slots, i < n + 1
            PROVE  buffer_[After(head_, i)] = popped + 1 + i
        <5>1. CASE i = n
          BY <3>0, <5>1 DEF RingInv, ContentsInv
        <5>2. CASE i < n
          BY <5>2 DEF RingInv, ContentsInv
        <5> QED BY SMTT(30), <3>0, <4>1, <5>1, <5>2 DEF Slots
      <4> QED BY <3>0, <4>1 DEF ContentsInv, After
    <3>4. InOrder'
      BY DEF RingInv, InOrder
    <3> QED BY <3>2, <3>3, <3>4 DEF RingInv
  <2>3. PendingInv'
    BY DEF TypeOK, PendingInv, Added, Claimed
  <2>4. WakeInv'
    BY DEF TypeOK, WakeInv
  <2> QED BY <2>1, <2>2, <2>3, <2>4
<1>4. CASE PushAdd
  <2> USE <1>4 DEF PushAdd, ring
  <2>0. pending_' = pending_ + 1
    BY SMTT(30), Int8Lemma DEF TypeOK, RingInv, ShapeInv, PendingInv, Published, Added, Claimed
  <2>1. TypeOK'
    BY SMTT(30), <2>0 DEF TypeOK, RingInv, ShapeInv, PendingInv, Published, Added, Claimed
  <2>2. RingInv'
    BY DEF TypeOK, RingInv, ShapeInv, ContentsInv, InOrder, Published, After, Slots
  <2>3. PendingInv'
    BY SMTT(30), <2>0 DEF TypeOK, PendingInv, Added, Claimed
  <2>4. WakeInv'
    BY SMTT(30), <2>0 DEF TypeOK, WakeInv, PendingInv
  <2> QED BY <2>1, <2>2, <2>3, <2>4
<1>5. CASE PushNotify
  <2> USE <1>5 DEF PushNotify, NotifyOne, ring
  <2>1. TypeOK'
    BY DEF TypeOK
  <2>2. RingInv'
    BY DEF TypeOK, RingInv, ShapeInv, ContentsInv, InOrder, Published, After, Slots
  <2>3. PendingInv'
    BY DEF TypeOK, PendingInv, Added, Claimed
  <2>4. WakeInv'
    BY DEF TypeOK, WakeInv
  <2> QED BY <2>1, <2>2, <2>3, <2>4
<1>6. CASE SignalForKill
  <2> USE <1>6 DEF SignalForKill, ring
  <2>1. TypeOK'
    BY DEF TypeOK
  <2>2. RingInv'
    BY DEF TypeOK, RingInv, ShapeInv, ContentsInv, InOrder, Published, After, Slots
  <2>3. PendingInv'
    BY DEF TypeOK, PendingInv, Added, Claimed
  <2>4. WakeInv'
    BY DEF TypeOK, WakeInv
  <2> QED BY <2>1, <2>2, <2>3, <2>4
<1>7. CASE PopClaim
  <2> USE <1>7 DEF PopClaim, ring
  <2>0. pending_' = pending_ - 1
    BY SMTT(30), Int8Lemma DEF TypeOK, RingInv, ShapeInv, PendingInv, Published, Added, Claimed
  <2>1. TypeOK'
    BY SMTT(30), <2>0 DEF TypeOK, PendingInv
  <2>2. RingInv'
    BY DEF TypeOK, RingInv, ShapeInv, ContentsInv, InOrder, Published, After, Slots
  <2>3. PendingInv'
    BY SMTT(30), <2>0 DEF TypeOK, PendingInv, Added, Claimed
  <2>4. WakeInv'
    BY <2>0 DEF TypeOK, WakeInv
  <2> QED BY <2>1, <2>2, <2>3, <2>4
<1>8. CASE PopAdvance
  <2> USE <1>8 DEF PopAdvance
  <2>0. head_' = After(head_, 1)
    BY ModLemma DEF TypeOK
  <2>a. Published - popped >= 1
    BY SMTT(30) DEF TypeOK, RingInv, ShapeInv, PendingInv, Published, Added, Claimed
  <2>1. TypeOK'
    BY SMTT(30), <2>0 DEF TypeOK, Slots, After
  <2>2. RingInv'
    <3> DEFINE n == Published - popped
    <3>0. /\ n \in Slots /\ n - 1 \in Slots /\ Published' - popped' = n - 1
          /\ tail_ = After(head_, n)
      BY SMTT(30), <2>a DEF TypeOK, RingInv, ShapeInv, Published, Slots
    <3>2. ShapeInv'
      <4>1. tail_' = After(head_', n - 1)
        <5> HIDE DEF n
        <5>1. head_ \in Slots /\ (n - 1) + 1 = n
          BY SMTT(30), <3>0 DEF TypeOK, Slots
        <5>2. After(After(head_, 1), n - 1) = After(head_, (n - 1) + 1)
          BY SMTT(30), <3>0, <5>1, AfterLemma
        <5> QED BY <2>0, <3>0, <5>1, <5>2
      <4>2. ppc' = "publish" => n - 1 < kRingSize - 1
        BY SMTT(30), <3>0 DEF Slots
      <4>3. n - 1 \in 0 .. kRingSize - 1
        BY <3>0 DEF Slots
      <4> QED BY <3>0, <4>1, <4>2, <4>3 DEF RingInv, ShapeInv, After
    <3>3. ContentsInv'
      <4>1. ASSUME NEW i \in Slots, i < n - 1
            PROVE  buffer_[After(head_', i)] = popped' + 1 + i
        <5>1. i + 1 \in Slots /\ i + 1 < n
          BY SMTT(30), <3>0, <4>1 DEF Slots
        <5>2. After(head_', i) = After(head_, i + 1)
          BY SMTT(30), <2>0, <5>1, AfterLemma DEF TypeOK
        <5>3. buffer_[After(head_, i + 1)] = popped + 1 + (i + 1)
          BY <5>1 DEF RingInv, ContentsInv
        <5> QED BY SMTT(30), <5>2, <5>3 DEF TypeOK, Slots
      <4> QED BY <3>0, <4>1 DEF RingInv, ContentsInv, After
    <3>4. InOrder'
      BY DEF InOrder
    <3> QED BY <3>2, <3>3, <3>4 DEF RingInv
  <2>3. PendingInv'
    BY DEF TypeOK, PendingInv, Added, Claimed
  <2>4. WakeInv'
    BY DEF TypeOK, WakeInv
  <2> QED BY <2>1, <2>2, <2>3, <2>4
<1>9. CASE PopTake
  <2> USE <1>9 DEF PopTake, ring
  <2>a. Published - popped >= 1
    BY SMTT(30) DEF TypeOK, RingInv, ShapeInv, PendingInv, Published, Added, Claimed
  <2>1. TypeOK'
    BY DEF TypeOK, Slots
  <2>2. RingInv'
    <3>1. ShapeInv'
      BY DEF RingInv, ShapeInv, Published, After
    <3>2. ContentsInv'
      BY DEF RingInv, ContentsInv, Published, After
    <3>3. InOrder'
      <4>1. 0 \in Slots /\ 0 < Published - popped
        BY SMTT(30), <2>a DEF TypeOK, Slots, Published
      <4>2. buffer_[After(head_, 0)] = popped + 1 + 0
        BY <4>1 DEF RingInv, ContentsInv
      <4>3. After(head_, 0) = head_
        BY <4>1, AfterLemma DEF TypeOK
      <4> QED BY SMTT(30), <4>2, <4>3 DEF TypeOK, InOrder
    <3> QED BY <3>1, <3>2, <3>3 DEF RingInv
  <2>3. PendingInv'
    BY DEF TypeOK, PendingInv, Added, Claimed
  <2>4. WakeInv'
    BY DEF TypeOK, WakeInv
  <2> QED BY <2>1, <2>2, <2>3, <2>4
<1>10. CASE PopLock
  <2> USE <1>10 DEF PopLock, ring
  <2>1. TypeOK'
    BY DEF TypeOK
  <2>2. RingInv'
    BY DEF TypeOK, RingInv, ShapeInv, ContentsInv, InOrder, Published, After, Slots
  <2>3. PendingInv'
    BY DEF TypeOK, PendingInv, Added, Claimed
  <2>4. WakeInv'
    BY DEF TypeOK, WakeInv
  <2> QED BY <2>1, <2>2, <2>3, <2>4
<1>11. CASE PopTestTrue
  <2> USE <1>11 DEF PopTestTrue, ring
  <2>1. TypeOK'
    BY DEF TypeOK
  <2>2. RingInv'
    BY DEF TypeOK, RingInv, ShapeInv, ContentsInv, InOrder, Published, After, Slots
  <2>3. PendingInv'
    BY DEF TypeOK, PendingInv, Added, Claimed
  <2>4. WakeInv'
    BY DEF TypeOK, WakeInv
  <2> QED BY <2>1, <2>2, <2>3, <2>4
<1>12. CASE PopTestFalse
  <2> USE <1>12 DEF PopTestFalse, ring
  <2>1. TypeOK'
    BY DEF TypeOK
  <2>2. RingInv'
    BY DEF TypeOK, RingInv, ShapeInv, ContentsInv, InOrder, Published, After, Slots
  <2>3. PendingInv'
    BY DEF TypeOK, PendingInv, Added, Claimed
  <2>4. WakeInv'
    BY DEF TypeOK, WakeInv
  <2> QED BY <2>1, <2>2, <2>3, <2>4
<1>13. CASE PopSleep
  <2> USE <1>13 DEF PopSleep, ring
  <2>1. TypeOK'
    BY DEF TypeOK
  <2>2. RingInv'
    BY DEF TypeOK, RingInv, ShapeInv, ContentsInv, InOrder, Published, After, Slots
  <2>3. PendingInv'
    BY DEF TypeOK, PendingInv, Added, Claimed
  <2>4. WakeInv'
    BY DEF TypeOK, WakeInv
  <2> QED BY <2>1, <2>2, <2>3, <2>4
<1>14. CASE PopSpuriousWakeup
  <2> USE <1>14 DEF PopSpuriousWakeup, ring
  <2>1. TypeOK'
    BY DEF TypeOK
  <2>2. RingInv'
    BY DEF TypeOK, RingInv, ShapeInv, ContentsInv, InOrder, Published, After, Slots
  <2>3. PendingInv'
    BY DEF TypeOK, PendingInv, Added, Claimed
  <2>4. WakeInv'
    BY DEF TypeOK, WakeInv
  <2> QED BY <2>1, <2>2, <2>3, <2>4
<1>15. CASE PopCheckExit
  <2> USE <1>15 DEF PopCheckExit, ring
  <2>1. TypeOK'
    BY DEF TypeOK
  <2>2. RingInv'
    BY DEF TypeOK, RingInv, ShapeInv, ContentsInv, InOrder, Published, After, Slots
  <2>3. PendingInv'
    BY ZenonT(60) DEF TypeOK, PendingInv, Added, Claimed
  <2>4. WakeInv'
    BY DEF TypeOK, WakeInv
  <2> QED BY <2>1, <2>2, <2>3, <2>4
<1>16. CASE UNCHANGED vars
  <2> USE <1>16 DEF vars
  <2>1. TypeOK'
    BY DEF TypeOK
  <2>2. RingInv'
    BY ZenonT(60) DEF RingInv, ShapeInv, ContentsInv, InOrder, Published, After, Slots
  <2>3. PendingInv'
    BY ZenonT(60) DEF PendingInv, Added, Claimed
  <2>4. WakeInv'
    BY DEF WakeInv
  <2> QED BY <2>1, <2>2, <2>3, <2>4
<1>17. CASE Terminated
  BY <1>16, <1>17 DEF Terminated
<1> QED
  BY <1>1, <1>2, <1>3, <1>4, <1>5, <1>6, <1>7, <1>8, <1>9, <1>10, <1>11,
     <1>12, <1>13, <1>14, <1>15, <1>16, <1>17
  DEF Next, Producer, Consumer

----------------------------------------------------------------------------
LEMMA Invariance == Spec => []IInv
  BY InitInv, StepInv, PTL DEF Spec

\* The variables keep their types; in particular pending_ is an int8_t.
THEOREM TypeCorrect == Spec => []TypeOK
<1>1. IInv => TypeOK
  BY DEF IInv
<1> QED BY <1>1, Invariance, PTL

\* The ICHECK of Pop never fails: a worker that claimed a task finds it in the
\* ring, for every ring size and number of pushes.
THEOREM SanityCheckHolds == Spec => []SanityCheck
<1>1. IInv => SanityCheck
  BY SMTT(30), RingAssumption DEF IInv, TypeOK, RingInv, ShapeInv, PendingInv, SanityCheck,
     Published, Added, Claimed, After, Slots
<1> QED BY <1>1, Invariance, PTL

\* Pop returns the tasks in the order of the calls of Push, each exactly once.
THEOREM InOrderHolds == Spec => []InOrder
<1>1. IInv => InOrder
  BY DEF IInv, RingInv
<1> QED BY <1>1, Invariance, PTL

\* The notification under the mutex loses no wake-up.
THEOREM NoLostWakeupHolds == Spec => []NoLostWakeup
<1>1. IInv => NoLostWakeup
  BY DEF IInv, WakeInv, NoLostWakeup
<1> QED BY <1>1, Invariance, PTL

\* pending_ does not wrap around, for every ring of at most 128 slots.
THEOREM PendingInRangeHolds == Spec => []PendingInRange
<1>1. IInv => PendingInRange
  BY SMTT(30), RingAssumption DEF IInv, TypeOK, RingInv, ShapeInv, PendingInv, PendingInRange,
     Published, Added, Claimed
<1> QED BY <1>1, Invariance, PTL
----------------------------------------------------------------------------
(* The refinement of TaskQueue. *)

\* Tasks that Pop has copied out.
Out == popped + Taken

\* The abstract queue holds the published tasks that were not copied out.
Window == [i \in 1 .. Published - Out |-> Out + i]

\* A position in the ring, as the code computes it.
LEMMA PositionLemma ==
  ASSUME NEW h \in Slots, NEW i \in Slots
  PROVE  /\ (h + i) % kRingSize = After(h, i)
         /\ (After(h, i) - h) % kRingSize = i
<1>1. kRingSize \in Nat /\ kRingSize > 1 /\ h \in 0 .. kRingSize - 1 /\ i \in 0 .. kRingSize - 1
  BY SMTT(30), RingAssumption DEF Slots
<1>2. CASE h + i < kRingSize
  <2>1. After(h, i) = h + i
    BY <1>2 DEF After
  <2> QED BY SMTT(30), <1>1, <1>2, <2>1
<1>3. CASE h + i >= kRingSize
  <2>1. After(h, i) = h + i - kRingSize /\ h + i - kRingSize \in 0 .. kRingSize - 1
    BY SMTT(30), <1>1, <1>3 DEF After
  <2>2. (h + i) % kRingSize = h + i - kRingSize
    BY SMTT(30), <1>1, <2>1
  <2>3. (i - kRingSize) % kRingSize = i
    BY SMTT(30), <1>1
  <2> QED BY SMTT(30), <1>1, <2>1, <2>2, <2>3
<1> QED BY SMTT(30), <1>1, <1>2, <1>3

\* What the refinement mapping reads off the ring, and the room that is left.
LEMMA WindowLemma ==
  IInv => /\ Out \in Nat /\ Published \in Nat /\ Out <= Published
          /\ Contents = Window
          /\ cpc \in {"take", "advance"} => popped < Published
<1> SUFFICES ASSUME IInv
             PROVE  /\ Out \in Nat /\ Published \in Nat /\ Out <= Published
                    /\ Contents = Window
                    /\ cpc \in {"take", "advance"} => popped < Published
  OBVIOUS
<1> DEFINE n == Published - popped
<1>1. /\ popped \in Nat /\ Published \in Int /\ Taken \in {0, 1} /\ n \in Slots
      /\ tail_ = After(head_, n) /\ head_ \in Slots
  BY SMTT(30) DEF IInv, TypeOK, RingInv, ShapeInv, Published, Taken, Slots
<1>2. cpc \in {"take", "advance"} => n >= 1
  BY SMTT(30) DEF IInv, TypeOK, RingInv, ShapeInv, PendingInv, Published, Added, Claimed
<1>3. Taken <= n
  BY SMTT(30), <1>1, <1>2 DEF Taken, Slots
<1>4. (tail_ - head_) % kRingSize = n
  <2> HIDE DEF n
  <2> QED BY <1>1, PositionLemma
<1>5. ASSUME NEW i \in 1 .. n - Taken
      PROVE  buffer_[(head_ + Taken + i - 1) % kRingSize] = Out + i
  <2> DEFINE j == Taken + i - 1
  <2>1. j \in Slots /\ j < n /\ head_ + Taken + i - 1 = head_ + j
        /\ popped + 1 + j = Out + i
    <3> HIDE DEF n
    <3> QED BY SMTT(30), <1>1, <1>3, RingAssumption DEF Slots, Out
  <2>2. buffer_[After(head_, j)] = popped + 1 + j
    <3> HIDE DEF j
    <3> QED BY <2>1 DEF IInv, RingInv, ContentsInv
  <2>3. (head_ + j) % kRingSize = After(head_, j)
    <3> HIDE DEF j
    <3> QED BY <1>1, <2>1, PositionLemma
  <2> QED BY <2>1, <2>2, <2>3
<1>6. n - Taken = Published - Out
  BY SMTT(30), <1>1 DEF Out
<1>7. Contents = [i \in 1 .. n - Taken |-> buffer_[(head_ + Taken + i - 1) % kRingSize]]
  <2> HIDE DEF n
  <2> QED BY <1>4 DEF Contents
<1>8. Contents = Window
  <2> HIDE DEF n
  <2> QED BY <1>5, <1>6, <1>7 DEF Window
<1> QED BY SMTT(30), <1>1, <1>2, <1>3, <1>8 DEF Out

\* Publishing a task appends it to the window, copying one out removes the first.
LEMMA WindowSteps ==
  ASSUME NEW a \in Nat, NEW b \in Nat, a <= b
  PROVE  LET w == [i \in 1 .. b - a |-> a + i]
         IN  /\ w \in Seq(Nat) /\ Len(w) = b - a
             /\ Append(w, b + 1) = [i \in 1 .. (b + 1) - a |-> a + i]
             /\ a < b => /\ w # <<>> /\ Head(w) = a + 1
                         /\ Tail(w) = [i \in 1 .. b - (a + 1) |-> (a + 1) + i]
<1> DEFINE w == [i \in 1 .. b - a |-> a + i]
<1>1. b - a \in Nat
  BY SMTT(30)
<1>2. w \in Seq(Nat) /\ Len(w) = b - a
  BY SMTT(30), <1>1
<1>3. Append(w, b + 1) = [i \in 1 .. (b + 1) - a |-> a + i]
  BY SMTT(30), <1>1, <1>2
<1>4. ASSUME a < b
      PROVE  /\ w # <<>> /\ Head(w) = a + 1
             /\ Tail(w) = [i \in 1 .. b - (a + 1) |-> (a + 1) + i]
  <2>1. b - a > 0 /\ 1 \in 1 .. b - a
    BY SMTT(30), <1>1, <1>4
  <2>2. w # <<>> /\ Head(w) = w[1]
    BY SMTT(30), <1>2, <2>1
  <2> DEFINE t == [i \in 1 .. b - (a + 1) |-> (a + 1) + i]
  <2>3. t \in Seq(Nat) /\ Len(t) = b - (a + 1)
    BY SMTT(30), <2>1
  <2>4. /\ Tail(w) \in Seq(Nat) /\ Len(Tail(w)) = Len(w) - 1
        /\ \A i \in 1 .. Len(Tail(w)) : Tail(w)[i] = w[i + 1]
    <3> HIDE DEF w
    <3> QED BY <1>2, <2>2, HeadTailProperties
  <2>5. \A i \in 1 .. Len(Tail(w)) : Tail(w)[i] = t[i]
    BY SMTT(30), <1>2, <2>1, <2>4
  <2>6. Len(Tail(w)) = Len(t)
    BY SMTT(30), <1>2, <2>3, <2>4
  <2>7. Tail(w) = t
    <3> HIDE DEF w, t
    <3> QED BY <2>3, <2>4, <2>5, <2>6, SeqEqual
  <2> QED BY <2>2, <2>7, <2>1
<1> QED BY <1>2, <1>3, <1>4
\* The same after a step.
LEMMA NextWindow == IInv' => (Contents = Window)'
<1>1. IInv => Contents = Window
  BY WindowLemma
<1> QED BY <1>1, PTL

\* A step that leaves the published and the copied tasks alone leaves the queue.
LEMMA SameContents ==
  ASSUME IInv, IInv', Published' = Published, Out' = Out
  PROVE  Contents' = Contents
<1>1. Contents = Window /\ Contents' = Window'
  BY WindowLemma, NextWindow
<1> QED BY <1>1 DEF Window

\* Every step of the ring is a step of the abstract queue, or none.
LEMMA StepSimulation ==
  ASSUME IInv, IInv', [Next]_vars
  PROVE  [Abstract!Next]_(Abstract!vars)
<1> USE DEF Abstract!Next, Abstract!vars
<1>a. Out \in Nat /\ Published \in Nat /\ Out <= Published /\ Contents = Window
  BY WindowLemma
<1>b. Contents' = Window'
  BY NextWindow
<1>1. CASE PushBegin
  <2>1. Published' = Published /\ Out' = Out
    BY SMTT(30), <1>1 DEF PushBegin, IInv, TypeOK, Published, Out, Taken
  <2>2. Contents' = Contents
    BY <2>1, SameContents
  <2> QED BY <1>1, <2>2 DEF PushBegin, Abstract!CallPush
<1>2. CASE EnqueuePublish
  <2>1. Published' = Published + 1 /\ Out' = Out /\ pushed = Published + 1
    BY SMTT(30), <1>2 DEF EnqueuePublish, IInv, TypeOK, Published, Out, Taken
  <2>2. Len(Contents) = Published - Out /\ Contents' = Append(Contents, pushed)
    BY SMTT(30), <1>a, <1>b, <2>1, WindowSteps DEF Window
  <2>3. Published - Out < kRingSize - 1
    BY SMTT(30), <1>2, RingAssumption
       DEF EnqueuePublish, IInv, TypeOK, RingInv, ShapeInv, Published, Out, Taken
  <2> QED BY SMTT(30), <1>2, <2>2, <2>3 DEF EnqueuePublish, Abstract!Put
<1>3. CASE SignalForKill
  <2>1. Published' = Published /\ Out' = Out
    BY <1>3 DEF SignalForKill, IInv, TypeOK, Published, Out, Taken
  <2>2. Contents' = Contents
    BY <2>1, SameContents
  <2> QED BY <1>3, <2>2 DEF SignalForKill, IInv, TypeOK, Abstract!Kill
<1>4. CASE PopTake
  <2>1. Published' = Published /\ Out' = Out + 1 /\ Out = popped
    BY SMTT(30), <1>4 DEF PopTake, IInv, TypeOK, Published, Out, Taken
  <2>2. Out < Published
    BY <1>4, <2>1, WindowLemma DEF PopTake
  <2>3. /\ Window # <<>> /\ Head(Window) = Out + 1
        /\ Tail(Window) = [i \in 1 .. Published - (Out + 1) |-> (Out + 1) + i]
    BY <1>a, <2>2, WindowSteps DEF Window
  <2>4. Window' = [i \in 1 .. Published - (Out + 1) |-> (Out + 1) + i]
    BY <2>1 DEF Window
  <2>5. Contents # <<>> /\ Head(Contents) = Out + 1 /\ Contents' = Tail(Contents)
    BY <1>a, <1>b, <2>3, <2>4
  <2>6. output' = Out + 1
    BY <1>4, <2>1 DEF PopTake, IInv, RingInv, InOrder
  <2> QED BY <1>4, <2>5, <2>6 DEF PopTake, ring, Abstract!Get
<1>5. CASE PopCheckExit
  <2>1. Published' = Published /\ Out' = Out
    BY <1>5 DEF PopCheckExit, IInv, TypeOK, Published, Out, Taken
  <2>2. Contents' = Contents
    BY <2>1, SameContents
  <2> QED BY <1>5, <2>2 DEF PopCheckExit, IInv, TypeOK, Abstract!Exit
<1>6. CASE EnqueueStore \/ PushAdd \/ PushNotify
  <2>1. Published' = Published /\ Out' = Out
    BY <1>6 DEF EnqueueStore, PushAdd, PushNotify, NotifyOne, IInv, TypeOK,
                Published, Out, Taken
  <2>2. Contents' = Contents
    BY <2>1, SameContents
  <2> QED BY SMTT(30), <1>6, <2>2 DEF EnqueueStore, PushAdd, PushNotify, NotifyOne
<1>9. CASE PopAdvance
  <2>1. Published' = Published /\ Out' = Out
    BY SMTT(30), <1>9 DEF PopAdvance, IInv, TypeOK, Published, Out, Taken
  <2>2. Contents' = Contents
    BY <2>1, SameContents
  <2> QED BY <1>9, <2>2 DEF PopAdvance
<1>7. CASE PopClaim \/ PopLock \/ PopTestTrue \/ PopTestFalse \/ PopSleep \/ PopSpuriousWakeup
  <2>1. Published' = Published /\ Out' = Out
    BY <1>7 DEF PopClaim, PopLock, PopTestTrue, PopTestFalse, PopSleep, PopSpuriousWakeup,
                IInv, TypeOK, Published, Out, Taken
  <2>2. Contents' = Contents
    BY <2>1, SameContents
  <2> QED BY <1>7, <2>2 DEF PopClaim, PopLock, PopTestTrue, PopTestFalse, PopSleep,
                            PopSpuriousWakeup
<1>8. CASE UNCHANGED vars
  BY <1>8 DEF vars, Contents, Taken
<1> QED BY <1>1, <1>2, <1>3, <1>4, <1>5, <1>6, <1>7, <1>8, <1>9
        DEF Next, Producer, Consumer, Terminated

\* The ring with its counter, mutex and condition variable implements the safety part of
\* TaskQueue, a first-in first-out channel of kRingSize - 1 tasks that can be killed, for
\* every ring size and number of pushes: what Push, Pop and SignalForKill do through
\* several accesses to shared variables looks like one step to the thread pool.
THEOREM Refinement == Spec => Abstract!Init /\ [][Abstract!Next]_(Abstract!vars)
<1>1. Init => Abstract!Init
  <2> SUFFICES ASSUME Init PROVE Abstract!Init
    OBVIOUS
  <2>1. Contents = <<>>
    <3>1. IInv
      BY InitInv
    <3>2. Contents = Window /\ Published = 0 /\ Out = 0
      BY SMTT(30), <3>1, WindowLemma DEF Init, Published, Out, Taken
    <3> QED BY SMTT(30), <3>2 DEF Window
  <2> QED BY SMTT(30), <2>1 DEF Init, Abstract!Init
<1>2. IInv /\ IInv' /\ [Next]_vars => [Abstract!Next]_(Abstract!vars)
  BY StepSimulation
<1> QED BY <1>1, <1>2, Invariance, PTL DEF Spec
============================================================================
