-------------------------- MODULE PipelinePlanning --------------------------
(***************************************************************************)
(* The pass tl.PipelinePlanning (src/src/tl/pipeline_planning.cc): it gives*)
(* every statement of a T.Pipelined loop an order and a stage.             *)
(*                                                                         *)
(* A loop body is a sequence of statements; a statement is the record of   *)
(* the buffers it reads and writes.  Regions are abstracted to whole       *)
(* buffers: two regions that never overlap are two buffers here.           *)
(***************************************************************************)
EXTENDS Integers, Sequences, FiniteSets, FiniteSetsExt

CONSTANT Global     \* the buffers of scope "global"

\* A statement that touches global memory is a copy stage.
CopyStage(b, s) == (b[s].reads \union b[s].writes) \intersect Global # {}

\* The regions written by s are accessed by t.
MayConflict(written, accessed) == written \intersect accessed # {}

\* The last statement after s that reads what the copy s writes, 0 when none does.
LastUse(b, s) ==
  Max({0} \union {t \in s + 1 .. Len(b) :
                    /\ CopyStage(b, s)
                    /\ MayConflict(b[s].writes, b[t].reads)})

\* The copies that are issued ahead of time: those with a use in the loop.
Prefetched(b, s) == LastUse(b, s) # 0

\* The two checks of the planner: no region that a copy writes is written again
\* later in the body, and the loop that hands out the orders reaches every
\* statement (it misses a copy whose last use is itself a prefetched copy).
SingleWrite(b) ==
  \A s \in DOMAIN b : CopyStage(b, s) =>
    \A t \in s + 1 .. Len(b) : ~MayConflict(b[s].writes, b[t].writes)

AllOrdered(b) ==
  \A s \in DOMAIN b : Prefetched(b, s) => ~Prefetched(b, LastUse(b, s))

Plannable(b) == SingleWrite(b) /\ AllOrdered(b)

\* A prefetched copy comes right after its last use, behind the copies with the
\* same last use that precede it in the body; the other statements keep their
\* order.  The key sorts the statements accordingly.
OrderKey(b, s) ==
  IF Prefetched(b, s) THEN LastUse(b, s) * (Len(b) + 1) + s
                      ELSE s * (Len(b) + 1)

FirstOrder(b, s) ==
  Cardinality({t \in DOMAIN b : OrderKey(b, t) < OrderKey(b, s)})

\* The number of copies, when they all come after the other statements, else -1.
CopyStageAtEnd(b) ==
  LET copies   == {s \in DOMAIN b : CopyStage(b, s)}
      firstCopy == Min({Len(b)} \union {FirstOrder(b, s) : s \in copies})
      lastOther == Max({0} \union {FirstOrder(b, s) : s \in DOMAIN b \ copies})
  IN  IF firstCopy > lastOther THEN Cardinality(copies) ELSE -1

\* Then the copies are moved to the beginning and the stages shrink by one.
Moved(b, num_stages) == CopyStageAtEnd(b) > 0 /\ num_stages >= 2

Order(b, num_stages, s) ==
  IF Moved(b, num_stages) THEN (FirstOrder(b, s) + CopyStageAtEnd(b)) % Len(b)
                          ELSE FirstOrder(b, s)

Stage(b, num_stages, s) ==
  IF Prefetched(b, s) THEN 0
  ELSE IF Moved(b, num_stages) /\ ~CopyStage(b, s) THEN num_stages - 1
  ELSE num_stages

\* The annotations of the loop: stage 0 is asynchronous when the target has
\* asynchronous copies.
Plan(b, num_stages, async) ==
  [s \in DOMAIN b |-> [order |-> Order(b, num_stages, s),
                       stage |-> Stage(b, num_stages, s),
                       async |-> async /\ Stage(b, num_stages, s) = 0]]
=============================================================================
