---------------------------- MODULE PipelineExec ----------------------------
(***************************************************************************)
(* A T.Pipelined loop goes through tl.PipelinePlanning and                 *)
(* tl.InjectSoftwarePipeline; then the loop they emit runs.                *)
(* PipelineRewriter emits a prologue, a body and an epilogue; at each of   *)
(* their iterations ("slots") the statements of the original body run in   *)
(* the planned order, each for the iteration slot - stage of the original  *)
(* loop, if that is one.  Asynchronous copies (cp.async) land at any time  *)
(* until the wait for their commit group forces them to.                   *)
(*                                                                         *)
(* The content of a buffer is abstracted to the statement instance         *)
(* <<statement, iteration>> that wrote it: when every instance reads from  *)
(* the writers that the original loop gives it, it computes the same.      *)
(* Thread blocks run in lock step here: the barriers between the threads   *)
(* of a block are put in by a later pass (ThreadSync).                     *)
(***************************************************************************)
EXTENDS InjectPipeline

CONSTANT Loops      \* the loops: [body, num_stages, async, min, extent]

\* A body of statements; the planner checks that there is a stage (CHECK(num_stages >= 1)).
ASSUME LoopAssumption ==
  \A l \in Loops :
    /\ Len(l.body) \in Nat \ {0} /\ DOMAIN l.body = 1 .. Len(l.body)
    /\ l.num_stages \in Nat \ {0} /\ l.async \in BOOLEAN
    /\ l.min \in Int /\ l.extent \in Nat
    /\ \A s \in DOMAIN l.body : l.body[s].ptr \in BOOLEAN

VARIABLES
  phase,             \* what happens next to the loop
  loop,              \* the loop; constant
  plan, info,        \* its plan and its analysis, from the two passes
  section,           \* how many slots have started, from 1
  pos,               \* the next statement of the slot, in the planned order
  mem,               \* <<buffer, version>> -> the instance that wrote it
  issued,            \* the copies issued: [stmt, iter, group]
  flight,            \* those that have not landed
  committed,         \* commit groups so far
  count,             \* <<statement, iteration>> -> how often it has run
  saw                \* what the last instance read: [stmt, iter, vals]

compiled == <<phase, loop, plan, info>>
vars == <<phase, loop, plan, info, section, pos, mem, issued, flight, committed,
          count, saw>>

body == loop.body
Stmts == DOMAIN body
Iters == loop.min .. loop.min + loop.extent - 1

Cells == UNION {{buf} \X (0 .. info.versions[buf] - 1) : buf \in Buffers(body)}

\* The content of a buffer that the loop has not written.
Untouched == <<0, 0>>

max_stage_ == info.max_stage_

\* The sections of BuildPipeline: the slots of the prologue, the body (empty when
\* the loop is shorter than the prologue) and the epilogue, one after the other.
BodyExtent == Max({0, loop.extent - max_stage_})

\* A mutant of Slots: the epilogue ends one slot early.
ShortEpilogue == max_stage_ + BodyExtent + max_stage_ - 1

Slots == max_stage_ + BodyExtent + max_stage_

InEpilogue == section > max_stage_ + BodyExtent

\* The value of the new loop variable; in the mutant, the epilogue starts late.
LateEpilogue ==
  loop.min + (IF InEpilogue THEN loop.extent + (section - max_stage_ - BodyExtent)
                            ELSE section - 1)

Slot ==
  loop.min + (IF InEpilogue THEN loop.extent + (section - 1 - max_stage_ - BodyExtent)
                            ELSE section - 1)

Running == phase = "run" /\ section <= Slots
Current == CHOOSE s \in Stmts : plan[s].order = pos
Iter(s) == Slot - plan[s].stage

\* The version of a buffer that iteration iter uses.  BufferLoad and BufferStore
\* are rewritten with the distance from the start of the loop, the accesses
\* through tvm_access_ptr with the loop variable itself.
Version(buf, s, iter) ==
  (IF body[s].ptr THEN iter ELSE iter - loop.min) % info.versions[buf]
Cell(buf, s, iter) == <<buf, Version(buf, s, iter)>>

Init ==
  /\ loop \in Loops
  /\ phase = "plan"
  /\ plan = << >>
  /\ info = << >>
  /\ section = 1
  /\ pos = 0
  /\ mem = << >>
  /\ issued = {}
  /\ flight = {}
  /\ committed = 0
  /\ count = [i \in Stmts \X Iters |-> 0]
  /\ saw = [stmt |-> 0, iter |-> 0, vals |-> << >>]

----------------------------------------------------------------------------
(* The passes. *)

\* tl.PipelinePlanning annotates the loop.
PlanLoop ==
  /\ phase = "plan"
  /\ Plannable(body)
  /\ plan' = Plan(body, loop.num_stages, loop.async)
  /\ phase' = "inject"
  /\ UNCHANGED <<loop, info, section, pos, mem, issued, flight, committed, count, saw>>

\* tl.InjectSoftwarePipeline rewrites it.
InjectLoop ==
  /\ phase = "inject"
  /\ ValidatePipelineBody(body, plan)
  /\ info' = Analysis(body, plan)
  /\ phase' = "run"
  /\ UNCHANGED <<loop, plan, section, pos, issued, flight, committed, count, saw>>
  /\ mem' = [c \in Cells' |-> Untouched]

\* One of them finds a loop that it does not support, and the compiler stops.
RejectLoop ==
  /\ \/ phase = "plan" /\ ~Plannable(body)
     \/ phase = "inject" /\ ~ValidatePipelineBody(body, plan)
  /\ phase' = "rejected"
  /\ UNCHANGED <<loop, plan, info, section, pos, mem, issued, flight, committed, count, saw>>

----------------------------------------------------------------------------
(* The rewritten loop. *)

\* The next statement of the slot, or the next slot.
Advance ==
  /\ pos' = (pos + 1) % Len(body)
  /\ section' = IF pos + 1 = Len(body) THEN section + 1 ELSE section

\* The predicate of the block is false.
Skip ==
  /\ Running
  /\ Iter(Current) \notin Iters
  /\ Advance
  /\ UNCHANGED <<compiled, mem, issued, flight, committed, count, saw>>

\* async_wait_queue_scope: the wait that precedes a statement.
Wait(s) ==
  WaitCount(info, s, Iter(s), ~InEpilogue,
            IF InEpilogue THEN loop.min + loop.extent - 1 ELSE Slot)

\* At most n of the groups committed so far are in flight.
Arrived(n) == \A c \in flight : c.group > committed - n

MayStart(s) == s \in info.waits => Arrived(Wait(s))

Writing(s, iter) == {Cell(buf, s, iter) : buf \in body[s].writes}

\* The bookkeeping of an instance that runs: what it reads, and how often.
Starts(s) ==
  /\ count' = [count EXCEPT ![<<s, Iter(s)>>] = @ + 1]
  /\ saw' = [stmt |-> s, iter |-> Iter(s),
             vals |-> [buf \in body[s].reads |-> mem[Cell(buf, s, Iter(s))]]]

\* A synchronous statement runs.
Run ==
  /\ Running
  /\ LET s == Current
     IN  /\ Iter(s) \in Iters
         /\ ~plan[s].async
         /\ MayStart(s)
         /\ Starts(s)
         /\ mem' = [c \in DOMAIN mem |-> IF c \in Writing(s, Iter(s))
                                          THEN <<s, Iter(s)>> ELSE mem[c]]
  /\ Advance
  /\ UNCHANGED <<compiled, issued, flight, committed>>

\* An asynchronous copy is issued and, if it is the last of its group, the group
\* is committed.
Issue ==
  /\ Running
  /\ LET s == Current
         copy == [stmt |-> s, iter |-> Iter(s), group |-> committed + 1]
     IN  /\ Iter(s) \in Iters
         /\ plan[s].async
         /\ MayStart(s)
         /\ Starts(s)
         /\ issued' = issued \union {copy}
         /\ flight' = flight \union {copy}
         /\ committed' = IF s \in info.commits THEN committed + 1 ELSE committed
  /\ Advance
  /\ UNCHANGED <<compiled, mem>>

\* A copy in flight lands.
Land ==
  \E c \in flight :
     /\ flight' = flight \ {c}
     /\ mem' = [x \in DOMAIN mem |-> IF x \in Writing(c.stmt, c.iter)
                                      THEN <<c.stmt, c.iter>> ELSE mem[x]]
     /\ UNCHANGED <<compiled, section, pos, issued, committed, count, saw>>

Finished == phase = "run" /\ ~Running /\ flight = {}

Terminated == (Finished \/ phase = "rejected") /\ UNCHANGED vars

Next == PlanLoop \/ InjectLoop \/ RejectLoop \/ Skip \/ Run \/ Issue \/ Land \/ Terminated

Spec == Init /\ [][Next]_vars

----------------------------------------------------------------------------
(* The original loop. *)

\* The instance whose value s reads from buf at iteration iter.
Expected(s, iter, buf) ==
  LET writers == Writers(body, buf)
      before  == {t \in writers : t < s}
  IN  IF before # {} THEN <<Max(before), iter>>
      ELSE IF writers # {} /\ iter > loop.min THEN <<Max(writers), iter - 1>>
      ELSE Untouched

(* What the user of T.Pipelined, and the passes that run before, see to.   *)

\* A buffer allocated in the loop is written before it is read.
DefinedBeforeUse(b) ==
  \A s \in DOMAIN b : \A buf \in b[s].reads \intersect Allocs :
     \E t \in 1 .. s - 1 : buf \in b[t].writes

\* A prefetched copy fills buffers of the loop, which only copies fill, and reads
\* nothing that the loop writes.
CopiesAreIndependent(b) ==
  \A s \in DOMAIN b : Prefetched(b, s) =>
     /\ b[s].writes \subseteq Allocs
     /\ \A t \in DOMAIN b : MayConflict(b[t].writes, b[s].writes) => CopyStage(b, t)
     /\ \A buf \in b[s].reads : Writers(b, buf) = {}

\* A loop that stores to global memory (its stores get a stage of their own) is as
\* long as the prologue.
LongEnough(l) ==
  (\E s \in DOMAIN l.body : CopyStage(l.body, s) /\ ~Prefetched(l.body, s))
    => l.extent >= l.num_stages

\* A loop with accesses through tvm_access_ptr starts at 0.
PtrFromZero(l) == (\E s \in DOMAIN l.body : l.body[s].ptr) => l.min = 0

----------------------------------------------------------------------------
(* Properties. *)

TypeOK ==
  /\ phase \in {"plan", "inject", "run", "rejected"}
  /\ phase = "run" => /\ section \in 1 .. Slots + 1
                      /\ DOMAIN mem = Cells
  /\ pos \in 0 .. Len(body) - 1
  /\ \A c \in DOMAIN mem : mem[c] = Untouched \/ mem[c] \in Stmts \X Iters
  /\ flight \subseteq issued
  /\ issued \subseteq [stmt : Stmts, iter : Iters, group : 1 .. committed + 1]
  /\ committed \in Nat
  /\ count \in [Stmts \X Iters -> Nat]

\* Every instance reads what it reads in the original loop: no copy is read
\* before it has landed, and none lands on data that is still to be read.
ReadsAsSequential ==
  saw.stmt # 0 =>
    \A buf \in body[saw.stmt].reads :
       saw.vals[buf] = Expected(saw.stmt, saw.iter, buf)

\* Every statement runs exactly once for every iteration of the loop.
ExactlyOnce ==
  /\ \A i \in DOMAIN count : count[i] <= 1
  /\ Finished => \A i \in DOMAIN count : count[i] = 1

\* After the loop, the buffers that outlive it hold what the original loop
\* leaves in them.
FinalMemory ==
  Finished /\ loop.extent > 0 =>
    \A buf \in Buffers(body) \ Allocs :
       Writers(body, buf) # {} =>
         mem[<<buf, 0>>] = <<Max(Writers(body, buf)), loop.min + loop.extent - 1>>

\* A wait forces no copy newer than the ones its statement reads: the last group
\* that has to land holds a copy for this iteration (or nothing has to land).
WaitIsTight ==
  Running /\ Current \in info.waits /\ Iter(Current) \in Iters =>
    LET needed == {c \in issued : c.iter = Iter(Current)
                                  /\ body[c.stmt].writes \intersect body[Current].reads # {}}
    IN  committed - Wait(Current) <= Max({0} \union {c.group : c \in needed})
=============================================================================
