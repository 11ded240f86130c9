-------------------------- MODULE MCSpscTaskQueue --------------------------
(***************************************************************************)
(* SpscTaskQueue implements TaskQueue.  A task is in the abstract queue    *)
(* from the store of tail_ until Pop has copied it out, although its slot  *)
(* is freed only by the store of head_.                                    *)
(***************************************************************************)
EXTENDS SpscTaskQueue, Sequences

Taken == IF cpc = "advance" THEN 1 ELSE 0

Contents ==
  LET n == ((tail_ - head_) % kRingSize) - Taken
  IN  [i \in 1 .. n |-> buffer_[(head_ + Taken + i - 1) % kRingSize]]

Abstract == INSTANCE TaskQueue WITH
  Capacity <- kRingSize - 1,
  items    <- Contents,
  pushing  <- ppc \in {"enqueue", "publish"},
  taken    <- output,
  killed   <- exit_now_,
  exited   <- cpc = "exited"

\* The ring with its counter, mutex and condition variable behaves like the
\* bounded channel of TaskQueue, its progress included.
ImplementsTaskQueue == Abstract!Spec
============================================================================
