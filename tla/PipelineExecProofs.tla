------------------------- MODULE PipelineExecProofs -------------------------
(***************************************************************************)
(* Proofs about the loop that tl.PipelinePlanning and                      *)
(* tl.InjectSoftwarePipeline emit, for every body, any number of stages    *)
(* and loops of any length, with copies that land as late as they may: it  *)
(* runs every instance once and computes what the original loop computes.  *)
(***************************************************************************)
EXTENDS PipelineProofs

\* A leaf goes to Zenon unless it names another prover.
USE Zenon

\* The results of the passes; the variables before the loop starts to run.
Setup ==
  /\ loop \in Loops
  /\ phase \in {"plan", "inject", "run", "rejected"}
  /\ phase \in {"inject", "run"} =>
       Plannable(body) /\ plan = Plan(body, loop.num_stages, loop.async)
  /\ phase = "run" => ValidatePipelineBody(body, plan) /\ info = Analysis(body, plan)

\* The section in which s runs for iteration i.  In a loop that is shorter than the
\* prologue the slots of the prologue and of the epilogue overlap, and a statement of
\* stage 0 runs in the former.
Due(s, i) ==
  LET v == i + plan[s].stage - loop.min
  IN  IF plan[s].stage = 0 THEN v + 1
                           ELSE v + 1 - loop.extent + max_stage_ + BodyExtent

Ran(s, i) == Due(s, i) < section \/ (Due(s, i) = section /\ plan[s].order < pos)

\* The loops that the two passes accept.
Accepted(l) ==
  /\ Plannable(l.body)
  /\ ValidatePipelineBody(l.body, Plan(l.body, l.num_stages, l.async))

LoopsLong == \A l \in Loops : Accepted(l) => LongEnough(l)

\* What the user of the loop and the earlier passes see to, besides its length.
Regular(l) == DefinedBeforeUse(l.body) /\ CopiesAreIndependent(l.body) /\ PtrFromZero(l)

LoopsRegular == \A l \in Loops : Accepted(l) => Regular(l)

----------------------------------------------------------------------------
(* The plan of a loop that runs *)

LEMMA AcceptedLemma == Setup /\ phase = "run" => Accepted(loop)
  BY DEF Setup, Accepted, body

\* Every place of a slot has its statement.
LEMMA PlaceLemma ==
  ASSUME NEW b, IsBody(b), NEW p, Ordered(b, p), NEW o \in 0 .. Len(b) - 1
  PROVE  \E s \in DOMAIN b : p[s].order = o
<1> DEFINE f == [s \in DOMAIN b |-> p[s].order]
           T == 0 .. Len(b) - 1
<1>1. IsFiniteSet(DOMAIN b) /\ Cardinality(DOMAIN b) = Len(b)
  BY SMTT(30), FS_Interval DEF IsBody
<1>2. IsFiniteSet(T) /\ Cardinality(T) = Len(b)
  <2>1. Len(b) \in Nat \ {0} /\ 0 \in Int /\ Len(b) - 1 \in Int
    BY SMTT(30) DEF IsBody
  <2>2. IsFiniteSet(T) /\ Cardinality(T) = IF 0 > Len(b) - 1 THEN 0 ELSE Len(b) - 1 - 0 + 1
    BY <2>1, FS_Interval
  <2> QED BY SMTT(30), <2>1, <2>2
<1>3. f \in [DOMAIN b -> T] /\ \A s, t \in DOMAIN b : f[s] = f[t] => s = t
  BY DEF Ordered
<1> HIDE DEF f, T
<1>4. f \in Injection(DOMAIN b, T)
  BY <1>3 DEF Injection, IsInjective
<1>5. f \in Surjection(DOMAIN b, T)
  BY <1>1, <1>2, <1>4, FS_Injection
<1>6. \A x \in T : \E s \in DOMAIN b : f[s] = x
  BY <1>5 DEF Surjection
<1> QED BY <1>6 DEF f, T

LEMMA SetupLemma ==
  ASSUME Setup, phase = "run"
  PROVE  /\ IsBody(body) /\ Stmts = 1 .. Len(body) /\ Len(body) \in Nat \ {0}
         /\ loop.min \in Int /\ loop.extent \in Nat /\ loop.num_stages \in Nat \ {0}
         /\ Ordered(body, plan) /\ IsPlan(body, plan, loop.num_stages)
         /\ max_stage_ \in 0 .. loop.num_stages
         /\ \A s \in Stmts : /\ plan[s].order \in 0 .. Len(body) - 1
                             /\ plan[s].stage \in 0 .. max_stage_
                             /\ plan[s].stage = 0 <=> Prefetched(body, s)
                             /\ plan[s].async <=> loop.async /\ Prefetched(body, s)
         /\ \E s \in Stmts : plan[s].stage = max_stage_
         /\ BodyExtent = IF loop.extent >= max_stage_ THEN loop.extent - max_stage_ ELSE 0
<1>1. /\ loop \in Loops /\ plan = Plan(body, loop.num_stages, loop.async)
      /\ ValidatePipelineBody(body, plan) /\ info = Analysis(body, plan)
  BY DEF Setup
<1>2. /\ IsBody(body) /\ Stmts = 1 .. Len(body) /\ Len(body) \in Nat \ {0}
      /\ loop.min \in Int /\ loop.extent \in Nat /\ loop.num_stages \in Nat \ {0}
  BY <1>1, LoopAssumption DEF IsBody, body, Stmts
<1>3. /\ IsPlan(body, plan, loop.num_stages)
      /\ \A s \in Stmts : /\ plan[s].order \in 0 .. Len(body) - 1
                          /\ plan[s].stage = 0 <=> Prefetched(body, s)
                          /\ plan[s].async <=> loop.async /\ Prefetched(body, s)
  BY SMTT(30), <1>1, <1>2, PlanLemma DEF Stmts
<1>4. Ordered(body, plan)
  BY <1>1, <1>3 DEF Ordered, ValidatePipelineBody, Stmts
<1> DEFINE S == {plan[s].stage : s \in DOMAIN body}
<1>5. max_stage_ = Max(S)
  BY <1>1 DEF max_stage_, Analysis, MaxStage
<1>6. S \in SUBSET (0 .. loop.num_stages) /\ S # {}
  <2>1. \A s \in DOMAIN body : plan[s].stage \in 0 .. loop.num_stages
    BY <1>3 DEF IsPlan
  <2>2. 1 \in DOMAIN body
    BY SMTT(30), <1>2 DEF Stmts
  <2> QED BY <2>1, <2>2
<1>7. S \in SUBSET (-1 .. loop.num_stages)
  <2> HIDE DEF S
  <2> QED BY SMTT(30), <1>2, <1>6
<1>8. max_stage_ \in S /\ \A y \in S : y <= max_stage_
  <2> HIDE DEF S
  <2> QED BY <1>2, <1>5, <1>6, <1>7, MaxLemma
<1>9. max_stage_ \in 0 .. loop.num_stages
  BY <1>6, <1>8
<1>10. /\ \A s \in Stmts : plan[s].stage \in 0 .. max_stage_
       /\ \E s \in Stmts : plan[s].stage = max_stage_
  BY SMTT(30), <1>2, <1>6, <1>8, <1>9 DEF Stmts
<1>11. BodyExtent = IF loop.extent >= max_stage_ THEN loop.extent - max_stage_ ELSE 0
  <2> DEFINE x == loop.extent - max_stage_
  <2>1. x \in Int
    BY SMTT(30), <1>2, <1>9
  <2>2. \E z \in {0, x} : \A y \in {0, x} : z >= y
    BY SMTT(30), <2>1
  <2>3. Max({0, x}) \in {0, x} /\ \A y \in {0, x} : Max({0, x}) >= y
    BY <2>2 DEF Max
  <2> QED BY SMTT(30), <1>2, <1>9, <2>1, <2>3 DEF BodyExtent
<1> QED BY <1>2, <1>3, <1>4, <1>9, <1>10, <1>11

\* In a loop that is shorter than the prologue there are two stages only.
LEMMA FitsLemma ==
  ASSUME Setup, phase = "run", LongEnough(loop)
  PROVE  loop.extent >= max_stage_ \/ \A s \in Stmts : plan[s].stage \in {0, max_stage_}
<1>1. /\ plan = Plan(body, loop.num_stages, loop.async) /\ body = loop.body
      /\ Stmts = DOMAIN body
  BY DEF Setup, body, Stmts
<1>2. /\ loop.extent \in Nat /\ loop.num_stages \in Nat /\ max_stage_ \in 0 .. loop.num_stages
      /\ \A s \in Stmts : /\ plan[s].stage \in 0 .. max_stage_
                          /\ plan[s].stage = 0 <=> Prefetched(body, s)
      /\ \E s \in Stmts : plan[s].stage = max_stage_
  BY SetupLemma
<1>3. CASE \E s \in DOMAIN body : CopyStage(body, s) /\ ~Prefetched(body, s)
  <2>1. loop.extent >= loop.num_stages
    BY <1>1, <1>3 DEF LongEnough
  <2> QED BY SMTT(30), <1>2, <2>1
<1>4. CASE \A s \in DOMAIN body : CopyStage(body, s) => Prefetched(body, s)
  <2> DEFINE X == IF Moved(body, loop.num_stages) THEN loop.num_stages - 1
                                                  ELSE loop.num_stages
  <2>1. \A s \in Stmts : ~Prefetched(body, s) => plan[s].stage = X
    BY <1>1, <1>4 DEF Plan, Stage
  <2> HIDE DEF X
  <2>2. PICK t \in Stmts : plan[t].stage = max_stage_
    BY <1>2
  <2>3. CASE Prefetched(body, t)
    BY SMTT(30), <1>2, <2>2, <2>3
  <2>4. CASE ~Prefetched(body, t)
    BY <1>2, <2>1, <2>2, <2>4
  <2> QED BY <2>3, <2>4
<1> QED BY <1>3, <1>4

----------------------------------------------------------------------------
(* The sections *)

\* Every instance has one section, and the sections are in the order of the slots.
LEMMA DueLemma ==
  ASSUME Setup, phase = "run", LongEnough(loop), NEW s \in Stmts, NEW i \in Iters
  PROVE  /\ Due(s, i) \in 1 .. Slots /\ i \in Int
         /\ section \in 1 .. Slots => (Iter(s) = i <=> Due(s, i) = section)
         /\ \A t \in Stmts, j \in Iters :
              /\ Due(s, i) < Due(t, j) <=> i + plan[s].stage < j + plan[t].stage
              /\ Due(s, i) = Due(t, j) <=> i + plan[s].stage = j + plan[t].stage
<1> DEFINE E == loop.extent
           m == max_stage_
           B == BodyExtent
<1>1. /\ loop.min \in Int /\ E \in Nat /\ m \in Nat
      /\ B = IF E >= m THEN E - m ELSE 0
      /\ \A t \in Stmts : plan[t].stage \in 0 .. m
      /\ E >= m \/ \A t \in Stmts : plan[t].stage \in {0, m}
  <2>1. loop.num_stages \in Nat /\ m \in 0 .. loop.num_stages
    BY SetupLemma
  <2>2. m \in Nat
    BY SMTT(30), <2>1
  <2> QED BY <2>2, SetupLemma, FitsLemma
<1>2. \A j \in Iters : j \in Int /\ loop.min <= j /\ j < loop.min + E
  BY SMTT(30), <1>1 DEF Iters
<1>3. /\ Slots = m + B + m
      /\ Iter(s) = (loop.min + (IF section > m + B THEN E + (section - 1 - m - B)
                                                   ELSE section - 1)) - plan[s].stage
  BY DEF Slots, Iter, Slot, InEpilogue
<1>4. \A t \in Stmts, j \in Iters :
        Due(t, j) = IF plan[t].stage = 0 THEN j + plan[t].stage - loop.min + 1
                    ELSE j + plan[t].stage - loop.min + 1 - E + m + B
  BY DEF Due
<1> HIDE DEF E, m, B
<1>5. CASE E >= m
  <2>1. \A t \in Stmts, j \in Iters : Due(t, j) = j + plan[t].stage - loop.min + 1
    BY SMTT(30), <1>1, <1>2, <1>4, <1>5
  <2>2. Iter(s) = loop.min + section - 1 - plan[s].stage \/ section \notin Int
    BY SMTT(30), <1>1, <1>3, <1>5
  <2>3. Slots = E + m
    BY SMTT(30), <1>1, <1>3, <1>5
  <2> QED BY SMTT(30), <1>1, <1>2, <2>1, <2>2, <2>3
<1>6. CASE ~(E >= m)
  <2>1. B = 0 /\ \A t \in Stmts : plan[t].stage = 0 \/ plan[t].stage = m
    BY <1>1, <1>6
  <2>2. m > E /\ E >= 0 /\ Slots = m + m
    BY SMTT(30), <1>1, <1>3, <1>6, <2>1
  <2>3. ASSUME NEW t \in Stmts, NEW j \in Iters
        PROVE  \/ plan[t].stage = 0 /\ Due(t, j) = j - loop.min + 1
               \/ plan[t].stage = m /\ Due(t, j) = j - loop.min + 1 - E + m + m
    BY SMTT(30), <1>1, <1>2, <1>4, <2>1
  <2>4. Due(s, i) \in 1 .. Slots
    BY SMTT(30), <1>1, <1>2, <2>2, <2>3
  <2>5. ASSUME section \in 1 .. Slots PROVE Iter(s) = i <=> Due(s, i) = section
    <3>1. CASE plan[s].stage = 0 /\ Due(s, i) = i - loop.min + 1
      BY SMTT(30), <1>1, <1>2, <1>3, <2>1, <2>2, <2>5, <3>1
    <3>2. CASE plan[s].stage = m /\ Due(s, i) = i - loop.min + 1 - E + m + m
      BY SMTT(30), <1>1, <1>2, <1>3, <2>1, <2>2, <2>5, <3>2
    <3> QED BY <2>3, <3>1, <3>2
  <2>6. ASSUME NEW t \in Stmts, NEW j \in Iters
        PROVE  /\ Due(s, i) < Due(t, j) <=> i + plan[s].stage < j + plan[t].stage
               /\ Due(s, i) = Due(t, j) <=> i + plan[s].stage = j + plan[t].stage
    BY SMTT(30), <1>1, <1>2, <2>2, <2>3
  <2> QED BY <1>2, <2>4, <2>5, <2>6
<1> QED BY <1>5, <1>6

LEMMA SlotsType == ASSUME Setup, phase = "run" PROVE Slots \in Nat
<1>1. max_stage_ \in 0 .. loop.num_stages /\ loop.num_stages \in Nat /\ loop.extent \in Nat
      /\ BodyExtent = IF loop.extent >= max_stage_ THEN loop.extent - max_stage_ ELSE 0
  BY SetupLemma
<1> QED BY SMTT(30), <1>1 DEF Slots

\* The next statement of the slot.
LEMMA CurrentLemma ==
  ASSUME Setup, phase = "run", pos \in 0 .. Len(body) - 1
  PROVE  Current \in Stmts /\ plan[Current].order = pos
         /\ \A s \in Stmts : plan[s].order = pos => s = Current
<1>1. IsBody(body) /\ Ordered(body, plan) /\ Stmts = DOMAIN body
  BY SetupLemma DEF Stmts
<1>2. \E s \in Stmts : plan[s].order = pos
  BY SMTT(30), <1>1, PlaceLemma
<1>3. Current \in Stmts /\ plan[Current].order = pos
  BY <1>2 DEF Current
<1> QED BY <1>1, <1>3 DEF Ordered

\* An instance that runs or is skipped has run then, and the others are where they were.
LEMMA AdvanceLemma ==
  ASSUME Setup, phase = "run", LongEnough(loop), UNCHANGED compiled, Advance,
         section \in 1 .. Slots, pos \in 0 .. Len(body) - 1
  PROVE  /\ section' \in 1 .. Slots + 1 /\ Slots' = Slots /\ pos' \in 0 .. Len(body) - 1
         /\ section' = Slots + 1 => pos' = 0
         /\ \A s \in Stmts, i \in Iters :
              /\ Due(s, i)' = Due(s, i)
              /\ Ran(s, i)' <=> Ran(s, i) \/ (s = Current /\ i = Iter(s))
              /\ s = Current /\ i = Iter(s) => ~Ran(s, i)
              /\ s # Current => plan[s].order # pos
<1> DEFINE n == Len(body)
<1>1. n \in Nat \ {0} /\ \A s \in Stmts : plan[s].order \in 0 .. n - 1
  BY SetupLemma
<1>2. /\ pos' = (pos + 1) % n
      /\ section' = IF pos + 1 = n THEN section + 1 ELSE section
  BY DEF Advance
<1>3. /\ pos + 1 = n => pos' = 0
      /\ pos + 1 # n => pos' = pos + 1 /\ pos + 1 < n
  BY SMTT(30), <1>1, <1>2
<1>4. Slots \in Nat
  BY SlotsType
<1>5. Slots' = Slots
  BY DEF compiled, Slots, BodyExtent, max_stage_
<1> HIDE DEF n
<1>6. section' \in 1 .. Slots + 1 /\ pos' \in 0 .. n - 1 /\ (section' = Slots + 1 => pos' = 0)
  BY SMTT(30), <1>1, <1>2, <1>3, <1>4 DEF n
<1>7. ASSUME NEW s \in Stmts, NEW i \in Iters
      PROVE  /\ Due(s, i)' = Due(s, i)
             /\ Ran(s, i)' <=> Ran(s, i) \/ (s = Current /\ i = Iter(s))
             /\ s = Current /\ i = Iter(s) => ~Ran(s, i)
             /\ s # Current => plan[s].order # pos
  <2>1. Due(s, i)' = Due(s, i) /\ plan' = plan
    BY DEF compiled, Due, BodyExtent, max_stage_
  <2>2. Due(s, i) \in Int /\ (i = Iter(s) <=> Due(s, i) = section)
    <3>1. Due(s, i) \in 1 .. Slots /\ (Iter(s) = i <=> Due(s, i) = section)
      BY DueLemma
    <3> QED BY SMTT(30), <1>4, <3>1
  <2>3. s = Current <=> plan[s].order = pos
    BY CurrentLemma
  <2>4. plan[s].order \in 0 .. n - 1
    BY <1>1
  <2>5. Ran(s, i) <=> Due(s, i) < section \/ (Due(s, i) = section /\ plan[s].order < pos)
    BY DEF Ran
  <2>6. Ran(s, i)' <=> Due(s, i) < section' \/ (Due(s, i) = section' /\ plan[s].order < pos')
    BY <2>1 DEF Ran
  <2> DEFINE d == Due(s, i)
             o == plan[s].order
  <2> HIDE DEF d, o
  <2>7. d \in Int /\ o \in 0 .. n - 1 /\ section \in Int /\ pos \in 0 .. n - 1
    BY SMTT(30), <1>4, <2>2, <2>4 DEF d, o, n
  <2>8. (d < section' \/ (d = section' /\ o < pos'))
          <=> ((d < section \/ (d = section /\ o < pos)) \/ (o = pos /\ d = section))
    <3>1. CASE pos + 1 = n
      <4>1. section' = section + 1 /\ pos' = 0
        BY <1>2, <1>3, <3>1
      <4> QED BY SMTT(30), <1>1, <2>7, <3>1, <4>1
    <3>2. CASE pos + 1 # n
      <4>1. section' = section /\ pos' = pos + 1
        BY <1>2, <1>3, <3>2
      <4> QED BY SMTT(30), <1>1, <2>7, <3>2, <4>1
    <3> QED BY <3>1, <3>2
  <2>9. ~(o = pos /\ d = section /\ (d < section \/ (d = section /\ o < pos)))
    BY SMTT(30), <1>1, <2>7
  <2>10. Ran(s, i)' <=> Ran(s, i) \/ (s = Current /\ i = Iter(s))
    BY <2>2, <2>3, <2>5, <2>6, <2>8 DEF d, o
  <2>11. s = Current /\ i = Iter(s) => ~Ran(s, i)
    BY <2>2, <2>3, <2>5, <2>9 DEF d, o
  <2> QED BY <2>1, <2>3, <2>10, <2>11
<1> QED BY <1>5, <1>6, <1>7 DEF n

----------------------------------------------------------------------------
(* Every instance runs once *)

Instances == Stmts \X Iters

Progress ==
  /\ phase # "run" => /\ section = 1 /\ pos = 0
                      /\ count = [x \in Instances |-> 0]
  /\ phase = "run" => /\ section \in 1 .. Slots + 1 /\ pos \in 0 .. Len(body) - 1
                      /\ section = Slots + 1 => pos = 0
                      /\ count = [x \in Instances |-> IF Ran(x[1], x[2]) THEN 1 ELSE 0]

LEMMA SetupInit == Init => Setup /\ Progress
<1> SUFFICES ASSUME Init PROVE Setup /\ Progress
  OBVIOUS
<1>1. Setup
  BY DEF Init, Setup
<1>2. Progress
  BY DEF Init, Progress, Instances
<1> QED BY <1>1, <1>2

\* The compiled loop does not change any more when it runs.
LEMMA SetupStep == Setup /\ [Next]_vars => Setup'
<1> SUFFICES ASSUME Setup, [Next]_vars PROVE Setup'
  OBVIOUS
<1>1. CASE PlanLoop
  BY <1>1 DEF PlanLoop, Setup, body
<1>2. CASE InjectLoop
  BY <1>2 DEF InjectLoop, Setup, body
<1>3. CASE RejectLoop
  BY <1>3 DEF RejectLoop, Setup, body
<1>4. CASE UNCHANGED compiled
  BY <1>4 DEF compiled, Setup, body
<1>5. CASE Skip \/ Run \/ Issue \/ Land \/ Terminated \/ UNCHANGED vars
  <2>1. UNCHANGED compiled
    BY <1>5 DEF Skip, Run, Issue, Land, Terminated, vars, compiled
  <2> QED BY <1>4, <2>1
<1> QED BY <1>1, <1>2, <1>3, <1>5 DEF Next

\* What a step of the loop that runs does to its progress.
LEMMA StepLemma ==
  ASSUME Setup, Progress, LongEnough(loop), Skip \/ Run \/ Issue
  PROVE  /\ phase = "run" /\ phase' = "run" /\ UNCHANGED compiled /\ Advance
         /\ section \in 1 .. Slots /\ pos \in 0 .. Len(body) - 1
         /\ Current \in Stmts /\ plan[Current].order = pos
         /\ Skip => Iter(Current) \notin Iters
         /\ Run \/ Issue => Iter(Current) \in Iters
<1>1. phase = "run" /\ section <= Slots /\ UNCHANGED compiled /\ Advance
      /\ (Skip => Iter(Current) \notin Iters) /\ (Run \/ Issue => Iter(Current) \in Iters)
  BY DEF Skip, Run, Issue, Running
<1>2. phase' = "run"
  BY <1>1 DEF compiled
<1>3. section \in 1 .. Slots + 1 /\ pos \in 0 .. Len(body) - 1
  BY <1>1 DEF Progress
<1>4. Slots \in Nat
  BY <1>1, SlotsType
<1>5. section \in 1 .. Slots
  BY SMTT(30), <1>1, <1>3, <1>4
<1> QED BY <1>1, <1>2, <1>3, <1>5, CurrentLemma

\* A loop that has not started has run nothing.
LEMMA NoneRan ==
  ASSUME Setup, phase = "run", LongEnough(loop), section = 1, pos = 0,
         NEW s \in Stmts, NEW i \in Iters
  PROVE  ~Ran(s, i)
<1>1. /\ Due(s, i) \in 1 .. Slots /\ plan[s].order \in 0 .. Len(body) - 1 /\ Slots \in Nat
      /\ Len(body) \in Nat
  BY SetupLemma, DueLemma, SlotsType
<1> QED BY SMTT(30), <1>1 DEF Ran

Begun ==
  /\ Setup /\ phase = "run" /\ LongEnough(loop)
  /\ section = 1 /\ pos = 0 /\ count = [x \in Instances |-> 0]

LEMMA BeginLemma == Begun => Progress
<1> SUFFICES ASSUME Begun PROVE Progress
  OBVIOUS
<1> USE DEF Begun
<1>1. /\ Len(body) \in Nat \ {0} /\ loop.extent \in Nat /\ loop.num_stages \in Nat
      /\ max_stage_ \in 0 .. loop.num_stages
      /\ BodyExtent = IF loop.extent >= max_stage_ THEN loop.extent - max_stage_ ELSE 0
      /\ \A s \in Stmts : plan[s].order \in 0 .. Len(body) - 1
  BY SetupLemma
<1>2. section \in 1 .. Slots + 1 /\ pos \in 0 .. Len(body) - 1
  BY SMTT(30), <1>1 DEF Slots
<1>3. \A s \in Stmts, i \in Iters : ~Ran(s, i)
  BY NoneRan
<1>4. [x \in Instances |-> IF Ran(x[1], x[2]) THEN 1 ELSE 0] = [x \in Instances |-> 0]
  BY <1>3 DEF Instances
<1> QED BY <1>2, <1>4 DEF Progress

LEMMA ProgressStep ==
  ASSUME LoopsLong, Setup, Progress, [Next]_vars
  PROVE  Progress'
<1>1. CASE PlanLoop \/ RejectLoop
  <2>1. /\ phase # "run" /\ phase' # "run" /\ UNCHANGED <<loop, section, pos, count>>
    BY <1>1 DEF PlanLoop, RejectLoop
  <2> QED BY <2>1 DEF Progress, Instances, Stmts, body, Iters
<1>2. CASE InjectLoop
  <2>1. phase' = "run" /\ phase # "run" /\ UNCHANGED <<loop, section, pos, count, plan>>
    BY <1>2 DEF InjectLoop
  <2>2. Setup' /\ LongEnough(loop)'
    <3>1. Setup'
      BY SetupStep
    <3>2. loop' \in Loops
      BY <3>1 DEF Setup
    <3>3. Accepted(loop)'
      BY <2>1, <3>1 DEF Setup, Accepted, body
    <3> QED BY <3>1, <3>2, <3>3 DEF LoopsLong
  <2>3. section' = 1 /\ pos' = 0 /\ count' = [x \in Instances' |-> 0]
    BY <2>1 DEF Progress, Instances, Stmts, body, Iters
  <2>4. Begun'
    BY <2>1, <2>2, <2>3 DEF Begun
  <2> QED BY <2>4, BeginLemma, PTL
<1>3. CASE Skip \/ Run \/ Issue
  <2>1. /\ phase = "run" /\ phase' = "run" /\ UNCHANGED compiled /\ Advance
        /\ section \in 1 .. Slots /\ pos \in 0 .. Len(body) - 1
        /\ Current \in Stmts
        /\ Skip => Iter(Current) \notin Iters
        /\ Run \/ Issue => Iter(Current) \in Iters
    <3>1. LongEnough(loop)
      BY <1>3, AcceptedLemma DEF LoopsLong, Setup, Skip, Run, Issue, Running
    <3> QED BY <1>3, <3>1, StepLemma
  <2>2. /\ section' \in 1 .. Slots + 1 /\ Slots' = Slots /\ pos' \in 0 .. Len(body) - 1
        /\ section' = Slots + 1 => pos' = 0
        /\ \A s \in Stmts, i \in Iters :
             /\ Ran(s, i)' <=> Ran(s, i) \/ (s = Current /\ i = Iter(s))
             /\ s = Current /\ i = Iter(s) => ~Ran(s, i)
    <3>1. LongEnough(loop)
      BY <2>1, AcceptedLemma DEF LoopsLong, Setup
    <3> QED BY <2>1, <3>1, AdvanceLemma
  <2>3. body' = body /\ Stmts' = Stmts /\ Iters' = Iters /\ Instances' = Instances
    BY <2>1 DEF compiled, body, Stmts, Iters, Instances
  <2>4. count = [x \in Instances |-> IF Ran(x[1], x[2]) THEN 1 ELSE 0]
    BY <2>1 DEF Progress
  <2>5. count' = [x \in Instances |-> IF Ran(x[1], x[2])' THEN 1 ELSE 0]
    <3>1. CASE Skip
      <4>1. count' = count /\ \A x \in Instances : Ran(x[1], x[2])' <=> Ran(x[1], x[2])
        BY <2>1, <2>2, <3>1 DEF Skip, Instances
      <4> QED BY <2>4, <4>1
    <3>2. CASE Run \/ Issue
      <4> DEFINE cur == <<Current, Iter(Current)>>
      <4>1. cur \in Instances /\ count' = [count EXCEPT ![cur] = @ + 1]
        BY <2>1, <3>2 DEF Run, Issue, Starts, Instances
      <4>3. ASSUME NEW x \in Instances
            PROVE  (count'[x] = IF Ran(x[1], x[2])' THEN 1 ELSE 0)
        <5>1. PICK s \in Stmts, i \in Iters : x = <<s, i>>
          BY SMTT(30) DEF Instances
        <5>2. count[x] = IF Ran(s, i) THEN 1 ELSE 0
          BY <2>4, <5>1
        <5>3. count'[x] = IF x = cur THEN count[x] + 1 ELSE count[x]
          BY <2>4, <4>1
        <5>4. CASE x = cur
          <6>1. s = Current /\ i = Iter(s)
            BY SMTT(30), <5>1, <5>4
          <6>2. ~Ran(s, i) /\ Ran(s, i)'
            BY <2>2, <6>1
          <6>3. count'[x] = 1
            BY SMTT(30), <5>2, <5>3, <5>4, <6>2
          <6>4. (IF Ran(s, i)' THEN 1 ELSE 0) = 1
            BY <6>2
          <6>5. x[1] = s /\ x[2] = i
            BY <5>1
          <6> QED BY <6>3, <6>4, <6>5
        <5>5. CASE x # cur
          <6>1. ~(s = Current /\ i = Iter(s))
            BY <5>1, <5>5
          <6>2. Ran(s, i)' <=> Ran(s, i)
            BY <2>2, <6>1
          <6>3. (IF Ran(s, i)' THEN 1 ELSE 0) = IF Ran(s, i) THEN 1 ELSE 0
            BY <6>2
          <6>4. x[1] = s /\ x[2] = i
            BY <5>1
          <6> QED BY <5>2, <5>3, <5>5, <6>3, <6>4
        <5> QED BY <5>4, <5>5
      <4>4. count' = [x \in Instances |-> count'[x]]
        BY <2>4, <4>1
      <4> QED BY <4>3, <4>4
    <3> QED BY <1>3, <3>1, <3>2
  <2> QED BY <2>1, <2>2, <2>3, <2>5 DEF Progress
<1>4. CASE Land \/ Terminated \/ UNCHANGED vars
  <2>1. UNCHANGED <<compiled, section, pos, count>>
    BY <1>4 DEF Land, Terminated, vars, compiled
  <2>2. \A s, i : Ran(s, i)' = Ran(s, i)
    BY ZenonT(60), <2>1 DEF compiled, Ran, Due, BodyExtent, max_stage_
  <2> QED BY <2>1, <2>2 DEF compiled, Progress, Instances, Stmts, body, Iters, Slots,
                                   BodyExtent, max_stage_
<1> QED BY <1>1, <1>2, <1>3, <1>4 DEF Next

LEMMA ProgressHolds == ASSUME LoopsLong PROVE Spec => [](Setup /\ Progress)
<1>1. Init => Setup /\ Progress
  BY SetupInit
<1>2. Setup /\ Progress /\ [Next]_vars => (Setup /\ Progress)'
  <2> SUFFICES ASSUME Setup, Progress, [Next]_vars PROVE Setup' /\ Progress'
    OBVIOUS
  <2> QED BY SetupStep, ProgressStep
<1> QED BY <1>1, <1>2, PTL DEF Spec

\* BuildPipeline: over the prologue, the body and the epilogue together, every
\* statement of the original loop runs for every iteration, and for none twice;
\* the loop that stores to global memory must be as long as the prologue.
THEOREM ExactlyOnceHolds == ASSUME LoopsLong PROVE Spec => []ExactlyOnce
<1>1. Setup /\ Progress => ExactlyOnce
  <2> SUFFICES ASSUME Setup, Progress PROVE ExactlyOnce
    OBVIOUS
  <2>2. \A x \in DOMAIN count : count[x] <= 1
    BY SMTT(30) DEF Progress
  <2>3. ASSUME Finished, NEW x \in DOMAIN count PROVE count[x] = 1
    <3>1. phase = "run" /\ ~(section <= Slots)
      BY <2>3 DEF Finished, Running
    <3>2. section \in 1 .. Slots + 1
      BY <3>1 DEF Progress
    <3>3. x \in Instances /\ count[x] = IF Ran(x[1], x[2]) THEN 1 ELSE 0
      BY <2>3, <3>1 DEF Progress
    <3>4. x[1] \in Stmts /\ x[2] \in Iters
      BY <3>3 DEF Instances
    <3>5. Due(x[1], x[2]) \in 1 .. Slots
      <4>1. LongEnough(loop)
        BY <3>1, AcceptedLemma DEF LoopsLong, Setup
      <4> QED BY <3>1, <3>4, <4>1, DueLemma
    <3>6. Slots \in Nat
      BY <3>1, SlotsType
    <3>7. Ran(x[1], x[2])
      BY SMTT(30), <3>1, <3>2, <3>5, <3>6 DEF Ran
    <3> QED BY <3>3, <3>7
  <2> QED BY <2>2, <2>3 DEF ExactlyOnce
<1> QED BY <1>1, ProgressHolds, PTL

----------------------------------------------------------------------------
(* Copies, groups and the memory *)

\* Copy s of iteration i, with the number of its commit group.
CopyOf(s, i) ==
  [stmt |-> s, iter |-> i,
   group |-> info.commit_groups * (i - loop.min) + CommitGroup(body, plan, s)]

\* Each iteration has issued and committed its groups by the end of its slot.
GroupsCommitted ==
  committed = IF section <= loop.extent
              THEN info.commit_groups * (section - 1)
                     + Cardinality(CommitsBefore(body, plan, pos))
              ELSE info.commit_groups * loop.extent

CopiesIssued ==
  /\ \A c \in issued : /\ c.stmt \in Async(body, plan) /\ c.iter \in Iters
                       /\ Ran(c.stmt, c.iter) /\ c = CopyOf(c.stmt, c.iter)
  /\ \A s \in Async(body, plan), i \in Iters : Ran(s, i) => CopyOf(s, i) \in issued

\* A copy in flight has not been read.
CopiesAhead ==
  /\ flight \subseteq issued
  /\ \A c \in flight, t \in Stmts :
       body[c.stmt].writes \intersect body[t].reads # {} => ~Ran(t, c.iter)

Landed(s, i) == Ran(s, i) /\ CopyOf(s, i) \notin flight

\* The writer of the last value of a cell, in the order of the original loop.
LastWriter(c, w, j) ==
  /\ c \in Writing(w, j) /\ Landed(w, j)
  /\ \A s \in Stmts, i \in Iters :
       c \in Writing(s, i) /\ Landed(s, i) => SeqBefore(s, i, w, j) \/ (s = w /\ i = j)

\* A cell holds the value of its last writer so far, unless nobody will ever read it.
MemoryCurrent ==
  /\ DOMAIN mem = Cells
  /\ \A c \in Cells : Readers(body, c[1]) # {} \/ c[1] \notin Allocs =>
       \/ /\ mem[c] = Untouched
          /\ \A s \in Stmts, i \in Iters : c \in Writing(s, i) => ~Landed(s, i)
       \/ \E w \in Stmts, j \in Iters : mem[c] = <<w, j>> /\ LastWriter(c, w, j)

DataRuns == GroupsCommitted /\ CopiesIssued /\ CopiesAhead /\ MemoryCurrent

Data ==
  /\ phase # "run" => issued = {} /\ flight = {} /\ committed = 0 /\ saw.stmt = 0
  /\ phase = "run" => DataRuns
  /\ ReadsAsSequential

\* A loop that runs, and keeps to the conditions.
Good == Setup /\ phase = "run" /\ LongEnough(loop) /\ Regular(loop)

\* What comes before something that has run has run.
LEMMA RanLemma ==
  ASSUME Good, Progress, NEW s \in Stmts, NEW i \in Iters, NEW t \in Stmts, NEW j \in Iters,
         RunsBefore(plan, s, i, t, j)
  PROVE  /\ Ran(t, j) => Ran(s, i)
         /\ section <= Slots /\ t = Current /\ j = Iter(t) => Ran(s, i)
<1>1. Slots \in Nat /\ section \in Int /\ pos \in Int /\ plan[s].order \in Int /\ plan[t].order \in Int
  <2>1. /\ Slots \in Nat /\ section \in 1 .. Slots + 1 /\ pos \in 0 .. Len(body) - 1
        /\ Len(body) \in Nat \ {0}
        /\ plan[s].order \in 0 .. Len(body) - 1 /\ plan[t].order \in 0 .. Len(body) - 1
    BY SetupLemma, SlotsType DEF Good, Progress
  <2> QED BY SMTT(30), <2>1
<1>2. /\ Due(s, i) \in 1 .. Slots /\ Due(t, j) \in 1 .. Slots
      /\ Due(s, i) < Due(t, j) <=> i + plan[s].stage < j + plan[t].stage
      /\ Due(s, i) = Due(t, j) <=> i + plan[s].stage = j + plan[t].stage
      /\ section \in 1 .. Slots => (Iter(t) = j <=> Due(t, j) = section)
  BY ZenonT(60), DueLemma DEF Good
<1>3. Due(s, i) < Due(t, j) \/ (Due(s, i) = Due(t, j) /\ plan[s].order < plan[t].order)
  BY <1>2 DEF RunsBefore
<1> DEFINE d == Due(s, i)
           e == Due(t, j)
<1>4. ASSUME e < section \/ (e = section /\ plan[t].order <= pos) PROVE Ran(s, i)
  <2>1. d \in Int /\ e \in Int
    BY SMTT(30), <1>1, <1>2
  <2>2. d < section \/ (d = section /\ plan[s].order < pos)
    <3> HIDE DEF d, e
    <3> QED BY SMTT(30), <1>1, <1>3, <1>4, <2>1 DEF d, e
  <2> QED BY <2>2 DEF Ran
<1>5. ASSUME Ran(t, j) PROVE Ran(s, i)
  <2>1. e < section \/ (e = section /\ plan[t].order < pos)
    BY <1>5 DEF Ran
  <2> QED BY SMTT(30), <1>1, <1>4, <2>1
<1>6. ASSUME section <= Slots, t = Current, j = Iter(t) PROVE Ran(s, i)
  <2>1. section \in 1 .. Slots /\ pos \in 0 .. Len(body) - 1
    <3>1. section \in 1 .. Slots + 1 /\ pos \in 0 .. Len(body) - 1
      BY DEF Good, Progress
    <3> QED BY SMTT(30), <1>1, <1>6, <3>1
  <2>2. plan[t].order = pos
    BY <1>6, <2>1, CurrentLemma DEF Good
  <2> QED BY SMTT(30), <1>1, <1>2, <1>4, <1>6, <2>1, <2>2
<1> QED BY <1>5, <1>6

LEMMA VersionLemma ==
  ASSUME Good, NEW buf \in Buffers(body)
  PROVE  /\ info.versions[buf] = Versions(body, plan, buf) /\ info.versions[buf] \in Nat \ {0}
         /\ buf \notin Allocs => info.versions[buf] = 1
<1>1. info.versions[buf] = Versions(body, plan, buf)
  BY SMTT(30) DEF Good, Setup, Analysis
<1>2. CASE buf \notin Allocs \/ Writers(body, buf) = {}
  BY SMTT(30), <1>1, <1>2 DEF Versions
<1>3. CASE buf \in Allocs /\ Writers(body, buf) # {}
  <2> DEFINE D == {plan[s].stage : s \in Writers(body, buf)}
             U == {-1} \union {plan[s].stage : s \in Readers(body, buf)}
  <2>1. loop.num_stages \in Nat /\ \A s \in DOMAIN body : plan[s].stage \in 0 .. loop.num_stages
    BY SetupLemma DEF Good, IsPlan
  <2>2. D \in SUBSET Nat /\ D # {}
    BY SMTT(30), <1>3, <2>1 DEF Writers
  <2>3. U \in SUBSET (-1 .. loop.num_stages) /\ U # {}
    BY SMTT(30), <2>1 DEF Readers
  <2> HIDE DEF D, U
  <2>4. Min(D) \in Nat
    BY <2>2, MinLemma
  <2>5. Max(U) \in -1 .. loop.num_stages
    BY <2>1, <2>3, MaxLemma
  <2>6. DefStage(body, plan, buf) \in Int /\ UseStage(body, plan, buf) \in Int
    BY SMTT(30), <2>1, <2>4, <2>5 DEF DefStage, UseStage, D, U
  <2> QED BY <1>1, <1>3, <2>6, VersionsLemma
<1> QED BY <1>2, <1>3

\* The accesses through tvm_access_ptr use the versions that the others use.
LEMMA CellLemma ==
  ASSUME Good, NEW s \in Stmts, NEW i \in Iters, NEW buf \in body[s].reads \union body[s].writes
  PROVE  /\ buf \in Buffers(body) /\ i \in Int /\ loop.min \in Int
         /\ Cell(buf, s, i) = <<buf, (i - loop.min) % info.versions[buf]>>
         /\ Cell(buf, s, i) \in Cells
<1>1. buf \in Buffers(body)
  BY DEF Buffers, Stmts
<1>2. info.versions[buf] \in Nat \ {0}
  BY <1>1, VersionLemma
<1>3. loop.min \in Int /\ loop.extent \in Nat
  BY SetupLemma DEF Good
<1>4. i \in Int
  BY SMTT(30), <1>3 DEF Iters
<1>5. body[s].ptr => loop.min = 0
  BY DEF Good, Regular, PtrFromZero, body, Stmts
<1>6. Version(buf, s, i) = (i - loop.min) % info.versions[buf]
  BY SMTT(30), <1>3, <1>4, <1>5 DEF Version
<1>7. (i - loop.min) % info.versions[buf] \in 0 .. info.versions[buf] - 1
  BY SMTT(30), <1>2, <1>3, <1>4
<1> QED BY SMTT(30), <1>1, <1>3, <1>4, <1>6, <1>7 DEF Cell, Cells

\* ConflictsKept, for the loop that runs.
LEMMA OrderLemma ==
  ASSUME Good, NEW buf, NEW s \in Stmts, NEW t \in Stmts,
         buf \in body[s].reads \union body[s].writes, buf \in body[t].reads \union body[t].writes,
         buf \in body[s].writes \/ buf \in body[t].writes,
         NEW i \in Iters, NEW j \in Iters, Cell(buf, s, i) = Cell(buf, t, j),
         SeqBefore(s, i, t, j)
  PROVE  RunsBefore(plan, s, i, t, j)
<1>1. /\ plan = Plan(body, loop.num_stages, loop.async) /\ Plannable(body)
      /\ ValidatePipelineBody(body, plan) /\ IsBody(body) /\ loop.num_stages \in Nat \ {0}
      /\ CopiesAreIndependent(body) /\ DefinedBeforeUse(body)
      /\ Stmts = 1 .. Len(body) /\ \A u \in Stmts : plan[u].stage \in 0 .. max_stage_
      /\ loop.num_stages \in Nat /\ max_stage_ \in 0 .. loop.num_stages
  BY SetupLemma DEF Good, Setup, Regular, body
<1>2. /\ buf \in Buffers(body) /\ i \in Int /\ j \in Int /\ loop.min \in Int
      /\ Cell(buf, s, i) = <<buf, (i - loop.min) % info.versions[buf]>>
      /\ Cell(buf, t, j) = <<buf, (j - loop.min) % info.versions[buf]>>
  BY CellLemma
<1>3. info.versions[buf] = Versions(body, plan, buf)
  BY <1>2, VersionLemma
<1> DEFINE x == i - loop.min
           y == j - loop.min
<1>4. x \in Int /\ y \in Int
  BY SMTT(30), <1>2
<1>5. x % Versions(body, plan, buf) = y % Versions(body, plan, buf)
  <2> DEFINE a == x % info.versions[buf]
             c == y % info.versions[buf]
  <2>1. <<buf, a>> = <<buf, c>>
    BY <1>2
  <2> HIDE DEF a, c
  <2>2. a = c
    BY <2>1
  <2> QED BY <1>3, <2>2 DEF a, c
<1>6. SeqBefore(s, x, t, y)
  BY SMTT(30), <1>2 DEF SeqBefore
<1>7. /\ s \in Writers(body, buf) \union Readers(body, buf)
      /\ t \in Writers(body, buf) \union Readers(body, buf)
      /\ s \in Writers(body, buf) \/ t \in Writers(body, buf)
  BY DEF Writers, Readers, Stmts
<1> HIDE DEF x, y
<1>8. RunsBefore(plan, s, x, t, y)
  BY <1>1, <1>4, <1>5, <1>6, <1>7, ConflictsKept
<1>9. plan[s].stage \in Int /\ plan[t].stage \in Int
  BY SMTT(30), <1>1
<1> QED BY SMTT(30), <1>2, <1>8, <1>9 DEF RunsBefore, x, y

----------------------------------------------------------------------------
(* The waits *)

LEMMA GoodLemma ==
  ASSUME Good
  PROVE  /\ IsBody(body) /\ Ordered(body, plan) /\ Stmts = DOMAIN body /\ Stmts = 1 .. Len(body)
         /\ Len(body) \in Nat \ {0} /\ loop.min \in Int /\ loop.extent \in Nat
         /\ SingleWrite(body) /\ CopiesAreIndependent(body) /\ DefinedBeforeUse(body)
         /\ Async(body, plan) \subseteq Stmts
         /\ \A s \in Async(body, plan) : Prefetched(body, s)
         /\ info.commit_groups = Cardinality(CommitGroups(body, plan))
         /\ info.commit_groups \in Nat
         /\ info.commits = {s \in Async(body, plan) : Commits(body, plan, s)}
         /\ info.waits = {s \in DOMAIN body : ReadsAsync(body, plan, s)}
         /\ \A s \in Stmts : /\ info.after[s] = GroupsAfter(body, plan, s)
                             /\ info.tail[s] = IndependentTail(body, plan, s)
<1>1. IsBody(body) /\ Ordered(body, plan) /\ Stmts = DOMAIN body /\ Stmts = 1 .. Len(body)
      /\ Len(body) \in Nat \ {0} /\ loop.min \in Int /\ loop.extent \in Nat
      /\ \A s \in Stmts : plan[s].async <=> loop.async /\ Prefetched(body, s)
  BY SetupLemma DEF Good, Stmts
<1>2. SingleWrite(body) /\ CopiesAreIndependent(body) /\ DefinedBeforeUse(body)
  BY DEF Good, Setup, Plannable, Regular, body
<1>3. Async(body, plan) \subseteq Stmts /\ \A s \in Async(body, plan) : Prefetched(body, s)
  BY <1>1 DEF Async
<1>4. info = Analysis(body, plan)
  BY DEF Good, Setup
<1>5. /\ info.commit_groups = Cardinality(CommitGroups(body, plan))
      /\ info.commits = {s \in Async(body, plan) : Commits(body, plan, s)}
      /\ info.waits = {s \in DOMAIN body : ReadsAsync(body, plan, s)}
      /\ \A s \in Stmts : /\ info.after[s] = GroupsAfter(body, plan, s)
                          /\ info.tail[s] = IndependentTail(body, plan, s)
  BY <1>1, <1>4 DEF Analysis
<1>6. info.commit_groups \in Nat
  BY SMTT(30), <1>1, <1>5, GroupLemma
<1> QED BY <1>1, <1>2, <1>3, <1>5, <1>6

\* The copies of an iteration are issued at the slot of that iteration.
LEMMA AsyncSlot ==
  ASSUME Good, NEW s \in Async(body, plan)
  PROVE  /\ \A i \in Iters : Due(s, i) = i - loop.min + 1 /\ i \in Int
         /\ section \in 1 .. Slots =>
              /\ Iter(s) \in Iters <=> section <= loop.extent
              /\ section <= loop.extent => Iter(s) = loop.min + section - 1
<1>1. s \in Stmts /\ Prefetched(body, s) /\ loop.min \in Int /\ loop.extent \in Nat
  BY GoodLemma
<1>2. plan[s].stage = 0
  BY <1>1, SetupLemma DEF Good
<1>3. \A i \in Iters : i \in Int /\ loop.min <= i /\ i < loop.min + loop.extent
  BY SMTT(30), <1>1 DEF Iters
<1>4. \A i \in Iters : Due(s, i) = i - loop.min + 1 /\ i \in Int
  BY SMTT(30), <1>1, <1>2, <1>3 DEF Due
<1>5. ASSUME section \in 1 .. Slots
      PROVE  /\ Iter(s) \in Iters <=> section <= loop.extent
             /\ section <= loop.extent => Iter(s) = loop.min + section - 1
  <2>1. \A i \in Iters : Iter(s) = i <=> Due(s, i) = section
    BY <1>1, <1>5, DueLemma DEF Good
  <2>2. section \in Int /\ section >= 1
    <3>1. Slots \in Nat
      BY SlotsType DEF Good
    <3> QED BY SMTT(30), <1>5, <3>1
  <2>3. ASSUME section <= loop.extent
        PROVE  Iter(s) = loop.min + section - 1 /\ Iter(s) \in Iters
    <3> DEFINE x == loop.min + section - 1
    <3>1. x \in Iters
      BY SMTT(30), <1>1, <2>2, <2>3 DEF Iters
    <3>2. Due(s, x) = x - loop.min + 1
      BY <1>4, <3>1
    <3>3. x - loop.min + 1 = section
      BY SMTT(30), <1>1, <2>2
    <3> HIDE DEF x
    <3>4. Iter(s) = x
      BY <2>1, <3>1, <3>2, <3>3
    <3> QED BY <3>1, <3>4 DEF x
  <2>4. ASSUME Iter(s) \in Iters PROVE section <= loop.extent
    <3> DEFINE x == Iter(s)
    <3>1. x \in Iters /\ Due(s, x) = section /\ Due(s, x) = x - loop.min + 1
      BY <1>4, <2>1, <2>4
    <3> HIDE DEF x
    <3> QED BY SMTT(30), <1>1, <1>3, <3>1
  <2> QED BY <2>3, <2>4
<1> QED BY <1>4, <1>5

\* A statement that reads what is copied is not a copy itself.
LEMMA WaiterLemma ==
  ASSUME Good, NEW t \in info.waits
  PROVE  t \in Stmts /\ t \notin Async(body, plan) /\ ~Prefetched(body, t)
         /\ ReadsAsync(body, plan, t)
<1>1. t \in Stmts /\ ReadsAsync(body, plan, t)
  BY GoodLemma
<1>2. PICK s \in Async(body, plan) : body[s].writes \intersect body[t].reads # {}
  BY <1>1 DEF ReadsAsync, AsyncWritten
<1>3. PICK buf : buf \in body[s].writes /\ buf \in body[t].reads
  BY <1>2
<1>4. s \in DOMAIN body /\ Prefetched(body, s) /\ t \in Readers(body, buf)
  BY <1>1, <1>2, <1>3, GoodLemma DEF Readers
<1>5. ~Prefetched(body, t)
  BY <1>3, <1>4, ConsumerLemma, GoodLemma
<1> QED BY <1>1, <1>5, GoodLemma

\* The wait in front of a statement leaves in flight what was committed after the last
\* group that the statement depends on, in the body as in the epilogue.
LEMMA WaitLemma ==
  ASSUME Good, Progress, GroupsCommitted, section <= Slots, Current \in info.waits,
         Iter(Current) \in Iters
  PROVE  committed - Wait(Current) =
           info.commit_groups * (Iter(Current) - loop.min)
             + Max(DependentGroups(body, plan, Current))
<1> DEFINE t == Current
           i == Iter(Current)
           G == info.commit_groups
           M == Max(DependentGroups(body, plan, Current))
           E == loop.extent
           A == info.after[Current]
           K == Cardinality(CommitsBefore(body, plan, pos))
<1>1. t \in Stmts /\ t \notin Async(body, plan) /\ ~Prefetched(body, t) /\ ReadsAsync(body, plan, t)
  BY WaiterLemma
<1>2. /\ IsBody(body) /\ Ordered(body, plan) /\ G \in Nat /\ loop.min \in Int /\ E \in Nat
      /\ Stmts = DOMAIN body /\ G = Cardinality(CommitGroups(body, plan))
      /\ A = GroupsAfter(body, plan, t) /\ info.tail[t] = IndependentTail(body, plan, t)
  BY <1>1, GoodLemma
<1>3. /\ M \in DependentGroups(body, plan, t) /\ DependentGroups(body, plan, t) \in SUBSET (1 .. G)
      /\ info.tail[t] = G - M
  BY <1>1, <1>2, TailLemma
<1>4. section \in 1 .. Slots /\ pos \in 0 .. Len(body) - 1 /\ Slots \in Nat
  <2>1. section \in 1 .. Slots + 1 /\ pos \in 0 .. Len(body) - 1 /\ Slots \in Nat
    BY SlotsType DEF Good, Progress
  <2> QED BY SMTT(30), <2>1
<1>5. plan[t].order = pos
  BY <1>4, CurrentLemma DEF Good
<1>6. K = G - A /\ A \in Nat
  <2>1. K = G - GroupsAfter(body, plan, t)
    BY <1>1, <1>2, <1>5, CommitLemma
  <2>2. GroupsAfter(body, plan, t) \in Nat
    <3> DEFINE T == {g \in CommitGroups(body, plan) : Min(GroupOrders(body, plan, g)) > plan[t].order}
    <3>1. T \in SUBSET (1 .. G)
      BY <1>2, GroupLemma
    <3>2. IsFiniteSet(1 .. G)
      <4>1. 1 \in Int /\ G \in Int
        BY SMTT(30), <1>2
      <4> HIDE DEF G
      <4> QED BY <4>1, FS_Interval
    <3> HIDE DEF T
    <3>3. Cardinality(T) \in Nat
      BY <3>1, <3>2, FS_Subset, FS_CardinalityType
    <3> QED BY <3>3 DEF T, GroupsAfter
  <2> QED BY <1>2, <2>1, <2>2
<1>7. i \in Int /\ loop.min <= i /\ i < loop.min + E
  BY SMTT(30), <1>2 DEF Iters
<1>8. /\ max_stage_ \in Nat /\ BodyExtent = IF E >= max_stage_ THEN E - max_stage_ ELSE 0
      /\ E >= max_stage_ \/ plan[t].stage = max_stage_
      /\ plan[t].stage \in Int
  <2>1. /\ max_stage_ \in 0 .. loop.num_stages /\ loop.num_stages \in Nat
        /\ BodyExtent = IF E >= max_stage_ THEN E - max_stage_ ELSE 0
        /\ plan[t].stage \in 0 .. max_stage_
        /\ plan[t].stage = 0 <=> Prefetched(body, t)
        /\ E >= max_stage_ \/ plan[t].stage \in {0, max_stage_}
    BY <1>1, SetupLemma, FitsLemma DEF Good
  <2> QED BY SMTT(30), <1>1, <2>1
<1>9. Wait(t) = (G * ((IF InEpilogue THEN loop.min + E - 1 ELSE Slot) - i)
                  - (IF ~InEpilogue THEN A ELSE 0)) + info.tail[t]
  BY DEF Wait, WaitCount
<1>10. committed = IF section <= E THEN G * (section - 1) + K ELSE G * E
  BY DEF GroupsCommitted
<1>11. /\ Slot = loop.min + (IF InEpilogue THEN E + (section - 1 - max_stage_ - BodyExtent)
                                           ELSE section - 1)
       /\ i = Slot - plan[t].stage /\ (InEpilogue <=> section > max_stage_ + BodyExtent)
  BY DEF Slot, InEpilogue, Iter
<1>12. /\ M \in Int /\ section \in Int /\ section >= 1
  BY SMTT(30), <1>2, <1>3, <1>4
<1> HIDE DEF t, i, G, M, E, A, K
<1>13. /\ \A a, c \in Int : G * (a + c) = G * a + G * c
       /\ \A a \in Int : G * a \in Int
  BY SMTT(30), <1>2
<1>14. committed - Wait(t) = G * (i - loop.min) + M
  <2> DEFINE x == i - loop.min
             y == (loop.min + (section - 1)) - i
             z == (loop.min + E - 1) - i
  <2>1. x \in Int /\ y \in Int /\ z \in Int /\ section - 1 = x + y /\ E = (x + z) + 1
        /\ section - 1 \in Int
    BY SMTT(30), <1>2, <1>7, <1>12
  <2>2. CASE ~InEpilogue
    <3>1. section <= max_stage_ + BodyExtent /\ Slot = loop.min + (section - 1)
      BY SMTT(30), <1>8, <1>11, <1>12, <2>2
    <3>2. section <= E
      BY SMTT(30), <1>2, <1>7, <1>8, <1>11, <1>12, <3>1
    <3>3. committed = G * (section - 1) + K
      BY <1>10, <3>2
    <3>4. Wait(t) = (G * y - A) + info.tail[t]
      BY <1>9, <2>2, <3>1
    <3> HIDE DEF x, y, z
    <3>5. G * (section - 1) = G * x + G * y /\ G * x \in Int /\ G * y \in Int
      BY <1>13, <2>1
    <3> DEFINE gx == G * x
               gy == G * y
               gs == G * (section - 1)
    <3> HIDE DEF gx, gy, gs
    <3>6. /\ gs = gx + gy /\ gx \in Int /\ gy \in Int
          /\ committed = gs + K /\ Wait(t) = (gy - A) + info.tail[t]
      BY <3>3, <3>4, <3>5 DEF gx, gy, gs
    <3>7. committed - Wait(t) = gx + M
      BY SMTT(30), <1>2, <1>3, <1>6, <1>12, <3>6
    <3> QED BY <3>7 DEF x, gx
  <2>3. CASE InEpilogue
    <3>1. ~(section <= E)
      BY SMTT(30), <1>2, <1>8, <1>11, <1>12, <2>3
    <3>2. committed = G * E
      BY <1>10, <3>1
    <3>3. Wait(t) = (G * z - 0) + info.tail[t]
      BY <1>9, <2>3
    <3> HIDE DEF x, y, z
    <3>4. G * E = G * (x + z) + G * 1
      <4>1. x + z \in Int /\ 1 \in Int
        BY SMTT(30), <2>1
      <4> QED BY <1>13, <2>1, <4>1
    <3>5. G * (x + z) = G * x + G * z /\ G * x \in Int /\ G * z \in Int
      BY <1>13, <2>1, <3>4
    <3> DEFINE gx == G * x
               gz == G * z
    <3> HIDE DEF gx, gz
    <3>6. G * 1 = G
      BY SMTT(30), <1>2
    <3>7. /\ gx \in Int /\ gz \in Int
          /\ committed = (gx + gz) + G /\ Wait(t) = (gz - 0) + info.tail[t]
      BY ZenonT(60), <3>2, <3>3, <3>4, <3>5, <3>6 DEF gx, gz
    <3>8. committed - Wait(t) = gx + M
      BY SMTT(30), <1>2, <1>3, <1>12, <3>7
    <3> QED BY <3>8 DEF x, gx
  <2> QED BY <2>2, <2>3
<1> QED BY <1>14 DEF t, i, G, M

----------------------------------------------------------------------------
(* The copies that are issued *)

LEMMA CompiledLemma ==
  ASSUME UNCHANGED compiled
  PROVE  /\ phase' = phase /\ loop' = loop /\ plan' = plan /\ info' = info /\ body' = body
         /\ Stmts' = Stmts /\ Iters' = Iters /\ Cells' = Cells
         /\ \A s, i : CopyOf(s, i)' = CopyOf(s, i)
         /\ \A s, i : Writing(s, i)' = Writing(s, i)
<1>1. phase' = phase /\ loop' = loop /\ plan' = plan /\ info' = info
  BY DEF compiled
<1>2. body' = body /\ Stmts' = Stmts /\ Iters' = Iters
  BY <1>1 DEF body, Stmts, Iters
<1>3. Cells' = Cells
  BY <1>1, <1>2 DEF Cells
<1>4. \A s, i : CopyOf(s, i)' = CopyOf(s, i)
  BY <1>1, <1>2 DEF CopyOf
<1>5. \A buf, s, i : Cell(buf, s, i)' = Cell(buf, s, i)
  BY <1>1, <1>2 DEF Cell, Version
<1>6. \A s, i : Writing(s, i)' = Writing(s, i)
  BY <1>2, <1>5 DEF Writing
<1> QED BY <1>1, <1>2, <1>3, <1>4, <1>6

\* Which of the three actions the next statement takes.
LEMMA ActionLemma ==
  ASSUME Good, Progress, Skip \/ Run \/ Issue
  PROVE  /\ Current \in Async(body, plan) /\ section <= loop.extent =>
              /\ Issue /\ Iter(Current) \in Iters /\ Iter(Current) = loop.min + section - 1
              /\ committed' = IF Commits(body, plan, Current) THEN committed + 1 ELSE committed
         /\ Current \in Async(body, plan) /\ ~(section <= loop.extent) =>
              Skip /\ committed' = committed
         /\ Current \notin Async(body, plan) => (Skip \/ Run) /\ committed' = committed
<1>1. /\ section \in 1 .. Slots /\ Current \in Stmts
      /\ Skip => Iter(Current) \notin Iters
      /\ Run \/ Issue => Iter(Current) \in Iters
  BY StepLemma DEF Good
<1>2. Current \in Async(body, plan) <=> plan[Current].async
  BY <1>1 DEF Async, Stmts
<1>3. Run => ~plan[Current].async /\ committed' = committed
  BY DEF Run
<1>4. Issue => /\ plan[Current].async
               /\ committed' = IF Current \in info.commits THEN committed + 1 ELSE committed
  BY DEF Issue
<1>5. Skip => committed' = committed
  BY DEF Skip
<1>6. Current \in Async(body, plan) => (Current \in info.commits <=> Commits(body, plan, Current))
  BY GoodLemma
<1>7. Current \in Async(body, plan) =>
        /\ Iter(Current) \in Iters <=> section <= loop.extent
        /\ section <= loop.extent => Iter(Current) = loop.min + section - 1
  BY <1>1, AsyncSlot
<1>8. ASSUME Current \in Async(body, plan), section <= loop.extent
      PROVE  /\ Issue /\ Iter(Current) \in Iters /\ Iter(Current) = loop.min + section - 1
             /\ committed' = IF Commits(body, plan, Current) THEN committed + 1 ELSE committed
  <2>1. Issue /\ Iter(Current) \in Iters /\ Iter(Current) = loop.min + section - 1
    BY <1>1, <1>2, <1>3, <1>7, <1>8
  <2>2. committed' = IF Current \in info.commits THEN committed + 1 ELSE committed
    BY <1>4, <2>1
  <2>3. Current \in info.commits <=> Commits(body, plan, Current)
    BY <1>6, <1>8
  <2> QED BY <2>1, <2>2, <2>3
<1>9. ASSUME Current \in Async(body, plan), ~(section <= loop.extent)
      PROVE  Skip /\ committed' = committed
  BY <1>1, <1>5, <1>7, <1>9
<1>10. ASSUME Current \notin Async(body, plan) PROVE (Skip \/ Run) /\ committed' = committed
  BY <1>2, <1>3, <1>4, <1>5, <1>10
<1> QED BY <1>8, <1>9, <1>10

LEMMA CommittedStep ==
  ASSUME Good, Progress, GroupsCommitted, Skip \/ Run \/ Issue
  PROVE  GroupsCommitted'
<1> DEFINE s == Current
           n == Len(body)
           G == info.commit_groups
           E == loop.extent
           K(o) == Cardinality(CommitsBefore(body, plan, o))
           adds == s \in Async(body, plan) /\ Commits(body, plan, s)
<1>1. /\ UNCHANGED compiled /\ Advance /\ section \in 1 .. Slots /\ pos \in 0 .. n - 1
      /\ s \in Stmts /\ plan[s].order = pos
  BY StepLemma DEF Good
<1>2. /\ IsBody(body) /\ Ordered(body, plan) /\ Stmts = DOMAIN body /\ n \in Nat \ {0}
      /\ E \in Nat /\ G \in Nat /\ G = Cardinality(CommitGroups(body, plan)) /\ Slots \in Nat
  BY GoodLemma, SlotsType DEF Good
<1>3. K(0) = 0 /\ K(n) = G
  BY <1>2, CommitLemma
<1>4. K(pos + 1) = K(pos) + (IF adds THEN 1 ELSE 0)
  BY <1>1, <1>2, CommitsStep
<1>5. K(pos) \in Nat
  <2>1. pos \in Nat
    BY SMTT(30), <1>1, <1>2
  <2> QED BY <1>2, <2>1, ClosedLemma
<1>6. committed = IF section <= E THEN G * (section - 1) + K(pos) ELSE G * E
  BY DEF GroupsCommitted
<1>7. /\ pos' = (pos + 1) % n
      /\ section' = IF pos + 1 = n THEN section + 1 ELSE section
  BY <1>1 DEF Advance
<1>8. /\ pos + 1 = n => pos' = 0
      /\ pos + 1 # n => pos' = pos + 1
  <2>1. n \in Nat \ {0} /\ pos \in 0 .. n - 1 /\ pos' = (pos + 1) % n
    BY <1>1, <1>2, <1>7
  <2> HIDE DEF n
  <2> QED BY SMTT(30), <2>1
<1>9. /\ section <= E => committed' = IF adds THEN committed + 1 ELSE committed
      /\ ~(section <= E) => committed' = committed
  BY ActionLemma
<1>10. \A o : Cardinality(CommitsBefore(body, plan, o)') = K(o)
  BY <1>1, CompiledLemma DEF CommitsBefore
<1>11. info.commit_groups' = G /\ loop.extent' = E /\ body' = body /\ plan' = plan
  BY <1>1, CompiledLemma
<1>12. SUFFICES committed' = IF section' <= E THEN G * (section' - 1) + K(pos') ELSE G * E
  BY <1>11 DEF GroupsCommitted
<1>13. section \in Int /\ section >= 1 /\ G * E \in Int /\ G * (section - 1) \in Int
       /\ G * section = G * (section - 1) + G
  <2>1. section \in Int /\ section >= 1
    BY SMTT(30), <1>1, <1>2
  <2> HIDE DEF G, E
  <2>2. section - 1 \in Int /\ G \in Int /\ E \in Int
    BY SMTT(30), <1>2, <2>1
  <2>3. \A x \in Int : G * (x + 1) = G * x + G /\ G * x \in Int
    BY SMTT(30), <2>2
  <2>4. (section - 1) + 1 = section
    BY SMTT(30), <2>1
  <2>5. G * ((section - 1) + 1) = G * (section - 1) + G /\ G * (section - 1) \in Int /\ G * E \in Int
    BY <2>2, <2>3
  <2> QED BY <2>1, <2>4, <2>5
<1> HIDE DEF K, G, E, n, adds
<1>14. CASE pos + 1 = n
  <2>1. section' = section + 1 /\ pos' = 0 /\ K(pos') = 0 /\ section' - 1 = section
    BY SMTT(30), <1>3, <1>7, <1>8, <1>13, <1>14
  <2>2. G = K(pos) + (IF adds THEN 1 ELSE 0)
    BY <1>3, <1>4, <1>14
  <2>3. CASE section <= E
    <3>1. committed' = G * section
      BY SMTT(30), <1>2, <1>5, <1>6, <1>9, <1>13, <2>2, <2>3
    <3>2. CASE section' <= E
      BY SMTT(30), <1>2, <1>13, <2>1, <3>1, <3>2
    <3>3. CASE ~(section' <= E)
      <4>1. section = E
        BY SMTT(30), <1>2, <1>13, <2>1, <2>3, <3>3
      <4> QED BY <3>1, <3>3, <4>1
    <3> QED BY <3>2, <3>3
  <2>4. CASE ~(section <= E)
    <3>1. ~(section' <= E)
      BY SMTT(30), <1>2, <1>13, <2>1, <2>4
    <3> QED BY <1>6, <1>9, <2>4, <3>1
  <2> QED BY <2>3, <2>4
<1>15. CASE pos + 1 # n
  <2>1. section' = section /\ K(pos') = K(pos) + (IF adds THEN 1 ELSE 0)
    BY <1>4, <1>7, <1>8, <1>15
  <2>2. CASE section <= E
    BY SMTT(30), <1>5, <1>6, <1>9, <1>13, <2>1, <2>2
  <2>3. CASE ~(section <= E)
    BY <1>6, <1>9, <2>1, <2>3
  <2> QED BY <2>2, <2>3
<1> QED BY <1>14, <1>15

LEMMA IssuedStep ==
  ASSUME Good, Progress, GroupsCommitted, CopiesIssued, Skip \/ Run \/ Issue
  PROVE  /\ CopiesIssued'
         /\ Issue => /\ issued' = issued \union {CopyOf(Current, Iter(Current))}
                     /\ flight' = flight \union {CopyOf(Current, Iter(Current))}
         /\ ~Issue => issued' = issued /\ flight' = flight
<1>1. /\ UNCHANGED compiled /\ Advance /\ section \in 1 .. Slots /\ pos \in 0 .. Len(body) - 1
      /\ Current \in Stmts /\ plan[Current].order = pos /\ phase = "run"
      /\ Skip => Iter(Current) \notin Iters
      /\ Run \/ Issue => Iter(Current) \in Iters
  BY StepLemma DEF Good
<1>2. \A s \in Stmts, i \in Iters : Ran(s, i)' <=> Ran(s, i) \/ (s = Current /\ i = Iter(s))
  BY <1>1, AdvanceLemma DEF Good
<1>3. Async(body, plan)' = Async(body, plan) /\ Iters' = Iters /\ Stmts' = Stmts
      /\ \A s, i : CopyOf(s, i)' = CopyOf(s, i)
  BY <1>1, CompiledLemma DEF Async
<1>4. Async(body, plan) \subseteq Stmts
  BY GoodLemma
<1>5. ~Issue => issued' = issued /\ flight' = flight
  BY DEF Skip, Run
<1>6. ASSUME ~Issue
      PROVE  \A s \in Async(body, plan), i \in Iters : Ran(s, i)' <=> Ran(s, i)
  <2>1. Skip \/ Current \notin Async(body, plan)
    BY <1>6, ActionLemma
  <2> QED BY <1>1, <1>2, <1>4, <2>1
<1>7. ASSUME Issue
      PROVE  /\ issued' = issued \union {CopyOf(Current, Iter(Current))}
             /\ flight' = flight \union {CopyOf(Current, Iter(Current))}
             /\ Current \in Async(body, plan) /\ Iter(Current) \in Iters
  <2> DEFINE s == Current
             G == info.commit_groups
             copy == [stmt |-> s, iter |-> Iter(s), group |-> committed + 1]
  <2>1. issued' = issued \union {copy} /\ flight' = flight \union {copy} /\ plan[s].async
    BY <1>7 DEF Issue
  <2>2. s \in Async(body, plan)
    BY <1>1, <2>1 DEF Async, Stmts
  <2>3. Iter(s) \in Iters /\ section <= loop.extent /\ Iter(s) = loop.min + section - 1
    BY <1>1, <1>7, <2>2, AsyncSlot
  <2>4. committed = G * (section - 1) + Cardinality(CommitsBefore(body, plan, pos))
    BY <2>3 DEF GroupsCommitted
  <2>5. IsBody(body) /\ Ordered(body, plan) /\ G \in Nat /\ loop.min \in Int /\ Slots \in Nat
        /\ G = Cardinality(CommitGroups(body, plan))
    BY GoodLemma, SlotsType DEF Good
  <2>6. Cardinality(CommitsBefore(body, plan, pos)) = CommitGroup(body, plan, s) - 1
    BY <1>1, <2>2, <2>5, CommitLemma
  <2>7. CommitGroup(body, plan, s) \in Int
    <3>1. CommitGroup(body, plan, s) \in 1 .. G
      BY <2>2, <2>5, GroupLemma
    <3> QED BY SMTT(30), <2>5, <3>1
  <2>8. section \in Int
    BY SMTT(30), <1>1, <2>5
  <2>9. Iter(s) - loop.min = section - 1
    BY SMTT(30), <2>3, <2>5, <2>8
  <2>10. committed + 1 = G * (Iter(s) - loop.min) + CommitGroup(body, plan, s)
    <3> DEFINE x == G * (section - 1)
    <3>1. x \in Int
      BY SMTT(30), <2>5, <2>8
    <3>2. committed = x + (CommitGroup(body, plan, s) - 1)
      BY <2>4, <2>6
    <3> HIDE DEF x
    <3>3. committed + 1 = x + CommitGroup(body, plan, s)
      BY SMTT(30), <2>7, <3>1, <3>2
    <3> QED BY <2>9, <3>3 DEF x
  <2>11. copy = CopyOf(s, Iter(s))
    BY <2>10 DEF CopyOf
  <2> QED BY <2>1, <2>2, <2>3, <2>11
<1>8. ASSUME NEW c \in issued'
      PROVE  /\ c.stmt \in Async(body, plan) /\ c.iter \in Iters
             /\ Ran(c.stmt, c.iter)' /\ c = CopyOf(c.stmt, c.iter)
  <2>1. CASE c \in issued
    <3>1. /\ c.stmt \in Async(body, plan) /\ c.iter \in Iters
          /\ Ran(c.stmt, c.iter) /\ c = CopyOf(c.stmt, c.iter)
      BY <2>1 DEF CopiesIssued
    <3> QED BY <1>2, <1>4, <3>1
  <2>2. CASE c \notin issued
    <3>1. Issue /\ c = CopyOf(Current, Iter(Current))
      <4>1. Issue
        BY <1>5, <2>2
      <4>2. issued' = issued \union {CopyOf(Current, Iter(Current))}
        BY <1>7, <4>1
      <4> QED BY <2>2, <4>1, <4>2
    <3>2. c.stmt = Current /\ c.iter = Iter(Current)
      BY <3>1 DEF CopyOf
    <3>3. Current \in Async(body, plan) /\ Iter(Current) \in Iters
      BY <1>7, <3>1
    <3> DEFINE s == c.stmt
               i == c.iter
    <3>4. s \in Stmts /\ i \in Iters /\ s = Current /\ i = Iter(s)
      BY <1>4, <3>2, <3>3
    <3>5. Ran(s, i)'
      BY <1>2, <3>4
    <3> QED BY <3>1, <3>2, <3>3, <3>5
  <2> QED BY <2>1, <2>2
<1>9. ASSUME NEW s \in Async(body, plan), NEW i \in Iters, Ran(s, i)'
      PROVE  CopyOf(s, i) \in issued'
  <2>1. CASE Ran(s, i)
    <3>1. CopyOf(s, i) \in issued
      BY <2>1 DEF CopiesIssued
    <3> QED BY <1>5, <1>7, <3>1
  <2>2. CASE ~Ran(s, i)
    <3>1. s = Current /\ i = Iter(s) /\ Issue
      BY <1>2, <1>4, <1>6, <1>9, <2>2
    <3> QED BY <1>7, <3>1
  <2> QED BY <2>1, <2>2
<1>10. CopiesIssued'
  <2>1. \A c \in issued' : /\ c.stmt \in Async(body, plan)' /\ c.iter \in Iters'
                           /\ Ran(c.stmt, c.iter)' /\ c = CopyOf(c.stmt, c.iter)'
    BY <1>3, <1>8
  <2>2. \A s \in Async(body, plan)', i \in Iters' : Ran(s, i)' => CopyOf(s, i)' \in issued'
    BY <1>3, <1>9
  <2> QED BY <2>1, <2>2 DEF CopiesIssued
<1> QED BY <1>5, <1>7, <1>10

\* A copy runs before the statements that read it.
LEMMA ReaderLemma ==
  ASSUME Good, Progress, NEW s \in Async(body, plan), NEW t \in Stmts, NEW i \in Iters,
         body[s].writes \intersect body[t].reads # {}
  PROVE  /\ s # t /\ t \in info.waits
         /\ Ran(t, i) => Ran(s, i)
         /\ section <= Slots /\ t = Current /\ i = Iter(t) => Ran(s, i)
<1>1. PICK buf : buf \in body[s].writes /\ buf \in body[t].reads
  OBVIOUS
<1>2. s \in DOMAIN body /\ s \in Stmts /\ Prefetched(body, s) /\ t \in Readers(body, buf)
      /\ Stmts = 1 .. Len(body)
  BY <1>1, GoodLemma DEF Readers
<1>3. s < t
  BY <1>1, <1>2, ConsumerLemma, GoodLemma
<1>4. Cell(buf, s, i) = Cell(buf, t, i)
  <2>1. /\ Cell(buf, s, i) = <<buf, (i - loop.min) % info.versions[buf]>>
        /\ Cell(buf, t, i) = <<buf, (i - loop.min) % info.versions[buf]>>
    BY <1>1, <1>2, CellLemma
  <2> QED BY <2>1
<1>5. SeqBefore(s, i, t, i)
  BY <1>3 DEF SeqBefore
<1>6. RunsBefore(plan, s, i, t, i)
  BY ZenonT(60), <1>1, <1>2, <1>4, <1>5, OrderLemma
<1>7. s # t
  BY SMTT(30), <1>2, <1>3
<1>8. t \in info.waits
  <2>1. ReadsAsync(body, plan, t)
    BY <1>1 DEF ReadsAsync, AsyncWritten
  <2> QED BY <2>1, GoodLemma
<1> QED BY <1>2, <1>6, <1>7, <1>8, RanLemma

\* async_wait_queue: a statement that starts finds the copies of its iteration landed.
LEMMA ArrivedLemma ==
  ASSUME Good, Progress, GroupsCommitted, CopiesIssued, CopiesAhead, Run \/ Issue,
         NEW c \in flight, body[c.stmt].writes \intersect body[Current].reads # {}
  PROVE  c.iter # Iter(Current)
<1> SUFFICES ASSUME c.iter = Iter(Current) PROVE FALSE
  OBVIOUS
<1> DEFINE G == info.commit_groups
           D == DependentGroups(body, plan, Current)
           g == CommitGroup(body, plan, c.stmt)
           x == G * (Iter(Current) - loop.min)
<1>1. /\ section \in 1 .. Slots /\ section <= Slots /\ Current \in Stmts /\ Iter(Current) \in Iters
      /\ MayStart(Current)
  <2>1. section \in 1 .. Slots /\ Current \in Stmts /\ Iter(Current) \in Iters
    BY StepLemma DEF Good
  <2>2. section <= Slots /\ MayStart(Current)
    BY DEF Run, Issue, Running
  <2> QED BY <2>1, <2>2
<1>2. c \in issued /\ c.stmt \in Async(body, plan) /\ c.iter \in Iters /\ c = CopyOf(c.stmt, c.iter)
  <2>1. c \in issued
    BY DEF CopiesAhead
  <2> QED BY <2>1 DEF CopiesIssued
<1>3. Current \in info.waits
  BY <1>1, <1>2, ReaderLemma
<1>4. c.group > committed - Wait(Current)
  BY <1>1, <1>3 DEF MayStart, Arrived
<1>5. committed - Wait(Current) = x + Max(D)
  BY <1>1, <1>3, WaitLemma
<1>6. c.group = x + g
  <2>1. CopyOf(c.stmt, c.iter).group = G * (c.iter - loop.min) + g
    BY DEF CopyOf
  <2> QED BY <1>2, <2>1
<1>7. /\ IsBody(body) /\ Ordered(body, plan) /\ G \in Nat /\ loop.min \in Int /\ Stmts = DOMAIN body
      /\ G = Cardinality(CommitGroups(body, plan)) /\ loop.extent \in Nat
  BY GoodLemma
<1>8. Current \in DOMAIN body /\ ReadsAsync(body, plan, Current)
  BY <1>3, <1>7, WaiterLemma
<1>9. D \in SUBSET (1 .. G) /\ Max(D) \in D /\ \A d \in D : d <= Max(D)
  BY <1>7, <1>8, TailLemma
<1>10. g \in D
  BY <1>2 DEF DependentGroups
<1>11. x \in Int
  <2>1. Iter(Current) \in Int
    BY SMTT(30), <1>1, <1>7 DEF Iters
  <2> QED BY SMTT(30), <1>7, <2>1
<1>12. g \in Int /\ Max(D) \in Int /\ g <= Max(D)
  <2> HIDE DEF D, g
  <2>1. g \in 1 .. G /\ Max(D) \in 1 .. G /\ g <= Max(D)
    BY <1>9, <1>10
  <2> QED BY SMTT(30), <1>7, <2>1
<1>13. x + g > x + Max(D)
  BY <1>4, <1>5, <1>6
<1> HIDE DEF x, g, D
<1> QED BY SMTT(30), <1>11, <1>12, <1>13

LEMMA AheadStep ==
  ASSUME Good, Progress, GroupsCommitted, CopiesIssued, CopiesAhead, Skip \/ Run \/ Issue
  PROVE  CopiesAhead'
<1>1. /\ UNCHANGED compiled /\ Advance /\ section \in 1 .. Slots /\ pos \in 0 .. Len(body) - 1
      /\ Current \in Stmts /\ phase = "run"
      /\ Skip => Iter(Current) \notin Iters
      /\ Run \/ Issue => Iter(Current) \in Iters
  BY StepLemma DEF Good
<1>2. \A s \in Stmts, i \in Iters :
        /\ Ran(s, i)' <=> Ran(s, i) \/ (s = Current /\ i = Iter(s))
        /\ s = Current /\ i = Iter(s) => ~Ran(s, i)
  BY <1>1, AdvanceLemma DEF Good
<1>3. body' = body /\ Stmts' = Stmts
  BY <1>1, CompiledLemma
<1>4. /\ Issue => /\ issued' = issued \union {CopyOf(Current, Iter(Current))}
                  /\ flight' = flight \union {CopyOf(Current, Iter(Current))}
      /\ ~Issue => issued' = issued /\ flight' = flight
  BY IssuedStep
<1>5. flight' \subseteq issued'
  <2>1. flight \subseteq issued
    BY DEF CopiesAhead
  <2> QED BY <1>4, <2>1
<1>6. ASSUME NEW c \in flight', NEW t \in Stmts, body[c.stmt].writes \intersect body[t].reads # {}
      PROVE  ~Ran(t, c.iter)'
  <2>1. CASE c \in flight
    <3>1. c \in issued /\ ~Ran(t, c.iter)
      BY <1>6, <2>1 DEF CopiesAhead
    <3>2. c.iter \in Iters
      BY <3>1 DEF CopiesIssued
    <3>3. CASE t = Current /\ c.iter = Iter(t)
      <4>1. ~Skip
        BY <1>1, <3>2, <3>3
      <4>2. c.iter # Iter(Current)
        BY <1>6, <2>1, <3>3, <4>1, ArrivedLemma
      <4> QED BY <3>3, <4>2
    <3>4. CASE ~(t = Current /\ c.iter = Iter(t))
      BY <1>2, <3>1, <3>2, <3>4
    <3> QED BY <3>3, <3>4
  <2>2. CASE c \notin flight
    <3>1. Issue /\ c = CopyOf(Current, Iter(Current))
      <4>1. Issue
        BY <1>4, <2>2
      <4>2. flight' = flight \union {CopyOf(Current, Iter(Current))}
        BY <1>4, <4>1
      <4> QED BY <2>2, <4>1, <4>2
    <3> DEFINE s == c.stmt
               i == c.iter
    <3>2. s = Current /\ i = Iter(s)
      BY <3>1 DEF CopyOf
    <3>3. i \in Iters /\ s \in Stmts /\ s \in Async(body, plan)
      <4>1. plan[Current].async
        BY <3>1 DEF Issue
      <4> QED BY <1>1, <3>1, <3>2, <4>1 DEF Async, Stmts
    <3>4. ~Ran(s, i)
      BY <1>2, <3>2, <3>3
    <3>5. s # t /\ ~Ran(t, i)
      BY <1>6, <3>3, <3>4, ReaderLemma
    <3> QED BY <1>2, <3>2, <3>3, <3>5
  <2> QED BY <2>1, <2>2
<1>7. \A c \in flight', t \in Stmts' :
        body'[c.stmt].writes \intersect body'[t].reads # {} => ~Ran(t, c.iter)'
  BY <1>3, <1>6
<1> QED BY <1>5, <1>7 DEF CopiesAhead

\* The copy of the last group that a wait forces to land is one of this iteration.
LEMMA TightLemma ==
  ASSUME Good, Progress, GroupsCommitted, CopiesIssued
  PROVE  WaitIsTight
<1> DEFINE t == Current
           i == Iter(Current)
           needed == {c \in issued : c.iter = i /\ body[c.stmt].writes \intersect body[t].reads # {}}
           groups == {0} \union {c.group : c \in needed}
           G == info.commit_groups
           D == DependentGroups(body, plan, t)
           x == G * (i - loop.min)
<1> SUFFICES ASSUME Running, t \in info.waits, i \in Iters
             PROVE  committed - Wait(t) <= Max(groups)
  BY DEF WaitIsTight
<1>1. section <= Slots /\ t \in Stmts /\ ReadsAsync(body, plan, t)
  BY WaiterLemma DEF Running
<1>2. committed - Wait(t) = x + Max(D)
  BY <1>1, WaitLemma
<1>3. /\ IsBody(body) /\ Ordered(body, plan) /\ G \in Nat /\ loop.min \in Int /\ Stmts = DOMAIN body
      /\ G = Cardinality(CommitGroups(body, plan)) /\ loop.extent \in Nat
  BY GoodLemma
<1>4. D \in SUBSET (1 .. G) /\ Max(D) \in D
  BY <1>1, <1>3, TailLemma
<1>5. PICK s \in Async(body, plan) : /\ body[s].writes \intersect body[t].reads # {}
                                     /\ CommitGroup(body, plan, s) = Max(D)
  BY <1>4 DEF DependentGroups
<1>6. Ran(s, i)
  BY <1>1, <1>5, ReaderLemma
<1>7. CopyOf(s, i) \in issued
  BY <1>5, <1>6 DEF CopiesIssued
<1>8. CopyOf(s, i) \in needed /\ CopyOf(s, i).group = x + Max(D)
  BY <1>5, <1>7 DEF CopyOf
<1>9. x \in Nat
  <2>1. i - loop.min \in Nat
    BY SMTT(30), <1>3 DEF Iters
  <2> QED BY SMTT(30), <1>3, <2>1
<1>10. ASSUME NEW c \in needed PROVE c.group \in -1 .. x + G
  <2>1. c.stmt \in Async(body, plan) /\ c = CopyOf(c.stmt, i)
    <3>1. c \in issued /\ c.iter = i
      OBVIOUS
    <3> QED BY <3>1 DEF CopiesIssued
  <2>2. CommitGroup(body, plan, c.stmt) \in 1 .. G
    BY <1>3, <2>1, GroupLemma
  <2>3. c.group = x + CommitGroup(body, plan, c.stmt)
    BY SMTT(30), <2>1 DEF CopyOf
  <2> HIDE DEF x
  <2> QED BY SMTT(30), <1>3, <1>9, <2>2, <2>3
<1>11. x + G \in Nat /\ x + Max(D) \in Int
  <2>1. Max(D) \in 1 .. G
    BY <1>4
  <2> HIDE DEF x, D
  <2> QED BY SMTT(30), <1>3, <1>9, <2>1
<1>12. groups \in SUBSET (-1 .. x + G) /\ x + Max(D) \in groups
  <2>1. x + Max(D) \in groups
    BY <1>8
  <2>2. 0 \in -1 .. x + G
    BY SMTT(30), <1>11
  <2>3. groups \in SUBSET (-1 .. x + G)
    <3> HIDE DEF needed
    <3> QED BY <1>10, <2>2
  <2> QED BY <2>1, <2>3
<1> HIDE DEF groups
<1>13. x + Max(D) <= Max(groups)
  BY <1>11, <1>12, MaxLemma
<1> QED BY <1>2, <1>13

----------------------------------------------------------------------------
(* The memory *)

Observed(c) == Readers(body, c[1]) # {} \/ c[1] \notin Allocs

LEMMA WritingLemma ==
  ASSUME Good, NEW s \in Stmts, NEW i \in Iters, NEW c \in Writing(s, i)
  PROVE  /\ c[1] \in body[s].writes /\ c[1] \in Buffers(body) /\ c = Cell(c[1], s, i)
         /\ c \in Cells /\ s \in Writers(body, c[1])
<1>1. PICK buf \in body[s].writes : c = Cell(buf, s, i)
  BY DEF Writing
<1>2. /\ buf \in Buffers(body) /\ c \in Cells
      /\ Cell(buf, s, i) = <<buf, (i - loop.min) % info.versions[buf]>>
  BY <1>1, CellLemma
<1>3. c[1] = buf
  BY SMTT(30), <1>1, <1>2
<1> QED BY <1>1, <1>2, <1>3 DEF Writers, Stmts

\* Two writes of the same cell run in the order of the original loop.
LEMMA ClashLemma ==
  ASSUME Good, Progress, NEW s \in Stmts, NEW i \in Iters, NEW t \in Stmts, NEW j \in Iters,
         NEW c, c \in Writing(s, i), c \in Writing(t, j), ~Ran(s, i), Ran(t, j)
  PROVE  SeqBefore(t, j, s, i)
<1>1. /\ c[1] \in body[s].writes /\ c = Cell(c[1], s, i)
      /\ c[1] \in body[t].writes /\ c = Cell(c[1], t, j)
  BY WritingLemma
<1>2. ~SeqBefore(s, i, t, j)
  <2>1. ASSUME SeqBefore(s, i, t, j) PROVE FALSE
    <3> DEFINE buf == c[1]
    <3>1. /\ buf \in body[s].reads \union body[s].writes
          /\ buf \in body[t].reads \union body[t].writes
          /\ buf \in body[s].writes \/ buf \in body[t].writes
          /\ Cell(buf, s, i) = Cell(buf, t, j)
      BY <1>1
    <3> HIDE DEF buf
    <3>2. RunsBefore(plan, s, i, t, j)
      BY <2>1, <3>1, OrderLemma
    <3> QED BY <3>2, RanLemma
  <2> QED BY <2>1
<1>3. i \in Int /\ j \in Int /\ s \in Int /\ t \in Int
  <2>1. Stmts = 1 .. Len(body) /\ Len(body) \in Nat /\ loop.min \in Int /\ loop.extent \in Nat
    BY GoodLemma
  <2> QED BY SMTT(30), <2>1 DEF Iters
<1>4. ~(s = t /\ i = j)
  OBVIOUS
<1> QED BY SMTT(30), <1>2, <1>3, <1>4 DEF SeqBefore

LEMMA MemorySame ==
  ASSUME UNCHANGED compiled, mem' = mem, MemoryCurrent,
         \A u \in Stmts, k \in Iters : Landed(u, k)' <=> Landed(u, k)
  PROVE  MemoryCurrent'
<1>1. /\ body' = body /\ Stmts' = Stmts /\ Iters' = Iters /\ Cells' = Cells
      /\ \A s, i : Writing(s, i)' = Writing(s, i)
  BY CompiledLemma
<1>2. \A c, w, j : w \in Stmts /\ j \in Iters /\ LastWriter(c, w, j) => LastWriter(c, w, j)'
  BY ZenonT(60), <1>1 DEF LastWriter
<1> QED BY <1>1, <1>2 DEF MemoryCurrent, Untouched

LEMMA MemoryWritten ==
  ASSUME Good, UNCHANGED compiled, MemoryCurrent, NEW s \in Stmts, NEW i \in Iters,
         mem' = [c \in DOMAIN mem |-> IF c \in Writing(s, i) THEN <<s, i>> ELSE mem[c]],
         \A u \in Stmts, k \in Iters : Landed(u, k)' <=> Landed(u, k) \/ (u = s /\ k = i),
         \A u \in Stmts, k \in Iters, c \in Writing(s, i) :
            Observed(c) /\ c \in Writing(u, k) /\ Landed(u, k) =>
               SeqBefore(u, k, s, i) \/ (u = s /\ k = i)
  PROVE  MemoryCurrent'
<1>1. /\ body' = body /\ Stmts' = Stmts /\ Iters' = Iters /\ Cells' = Cells
      /\ \A u, k : Writing(u, k)' = Writing(u, k)
  BY CompiledLemma
<1>2. DOMAIN mem = Cells
  BY DEF MemoryCurrent
<1>3. DOMAIN mem' = Cells
      /\ \A c \in Cells : mem'[c] = IF c \in Writing(s, i) THEN <<s, i>> ELSE mem[c]
  BY <1>2
<1>4. ASSUME NEW c \in Cells, Observed(c)
      PROVE  \/ /\ mem'[c] = Untouched
                /\ \A u \in Stmts, k \in Iters : c \in Writing(u, k) => ~Landed(u, k)'
             \/ \E w \in Stmts, j \in Iters : mem'[c] = <<w, j>> /\ LastWriter(c, w, j)'
  <2>1. CASE c \in Writing(s, i)
    <3>1. mem'[c] = <<s, i>> /\ Landed(s, i)'
      BY <1>3, <2>1
    <3>2. LastWriter(c, s, i)'
      BY <1>1, <1>4, <2>1, <3>1 DEF LastWriter
    <3> QED BY <3>1, <3>2
  <2>2. CASE c \notin Writing(s, i)
    <3>1. mem'[c] = mem[c]
      BY <1>3, <2>2
    <3>2. \A u \in Stmts, k \in Iters : c \in Writing(u, k) => (Landed(u, k)' <=> Landed(u, k))
      BY <2>2
    <3>3. \A w \in Stmts, j \in Iters : LastWriter(c, w, j) => LastWriter(c, w, j)'
      BY <1>1, <3>2 DEF LastWriter
    <3> QED BY ZenonT(60), <1>4, <3>1, <3>2, <3>3 DEF MemoryCurrent, Observed
  <2> QED BY <2>1, <2>2
<1> QED BY <1>1, <1>3, <1>4 DEF MemoryCurrent, Observed, Untouched

\* Skip, Run and Issue: a statement that runs writes after all that it must follow.
LEMMA MemoryStep ==
  ASSUME Good, Progress, GroupsCommitted, CopiesIssued, CopiesAhead, MemoryCurrent,
         Skip \/ Run \/ Issue
  PROVE  MemoryCurrent'
<1> DEFINE s == Current
           i == Iter(Current)
<1>1. /\ UNCHANGED compiled /\ Advance /\ section \in 1 .. Slots /\ pos \in 0 .. Len(body) - 1
      /\ s \in Stmts /\ phase = "run"
      /\ Skip => i \notin Iters
      /\ Run \/ Issue => i \in Iters
  BY StepLemma DEF Good
<1>2. \A u \in Stmts, k \in Iters :
        /\ Ran(u, k)' <=> Ran(u, k) \/ (u = Current /\ k = Iter(u))
        /\ u = Current /\ k = Iter(u) => ~Ran(u, k)
  BY <1>1, AdvanceLemma DEF Good
<1>3. \A u, k : CopyOf(u, k)' = CopyOf(u, k)
  BY <1>1, CompiledLemma
<1>4. CASE Skip
  <2>1. mem' = mem /\ flight' = flight
    BY <1>4 DEF Skip
  <2>2. \A u \in Stmts, k \in Iters : Ran(u, k)' <=> Ran(u, k)
    BY <1>1, <1>2, <1>4
  <2>3. \A u \in Stmts, k \in Iters : Landed(u, k)' <=> Landed(u, k)
    BY <1>3, <2>1, <2>2 DEF Landed
  <2> QED BY <1>1, <2>1, <2>3, MemorySame
<1>5. CASE Issue
  <2>1. mem' = mem /\ flight' = flight \union {CopyOf(s, i)}
    <3>1. mem' = mem
      BY <1>5 DEF Issue
    <3> QED BY <1>5, <3>1, IssuedStep
  <2>2. ASSUME NEW u \in Stmts, NEW k \in Iters PROVE Landed(u, k)' <=> Landed(u, k)
    <3>1. CASE u = Current /\ k = Iter(u)
      <4>1. ~Ran(u, k)
        BY <1>2, <3>1
      <4>2. CopyOf(u, k) \in flight'
        BY <2>1, <3>1
      <4> QED BY <1>3, <4>1, <4>2 DEF Landed
    <3>2. CASE ~(u = Current /\ k = Iter(u))
      <4>1. Ran(u, k)' <=> Ran(u, k)
        BY <1>2, <3>2
      <4>2. CopyOf(u, k) # CopyOf(s, i)
        <5>1. /\ CopyOf(u, k).stmt = u /\ CopyOf(u, k).iter = k
              /\ CopyOf(s, i).stmt = s /\ CopyOf(s, i).iter = i
          BY DEF CopyOf
        <5> QED BY <3>2, <5>1
      <4>3. CopyOf(u, k) \in flight' <=> CopyOf(u, k) \in flight
        BY <2>1, <4>2
      <4> QED BY <1>3, <4>1, <4>3 DEF Landed
    <3> QED BY <3>1, <3>2
  <2> QED BY <1>1, <2>1, <2>2, MemorySame
<1>6. CASE Run
  <2>1. /\ mem' = [c \in DOMAIN mem |-> IF c \in Writing(s, i) THEN <<s, i>> ELSE mem[c]]
        /\ flight' = flight /\ ~plan[s].async
    BY <1>6 DEF Run
  <2>2. CopyOf(s, i) \notin flight
    <3>1. ASSUME CopyOf(s, i) \in flight PROVE FALSE
      <4>1. CopyOf(s, i) \in issued
        BY <3>1 DEF CopiesAhead
      <4>2. CopyOf(s, i).stmt \in Async(body, plan)
        BY <4>1 DEF CopiesIssued
      <4>3. CopyOf(s, i).stmt = s
        BY DEF CopyOf
      <4> QED BY <2>1, <4>2, <4>3 DEF Async
    <3> QED BY <3>1
  <2>3. i \in Iters /\ ~Ran(s, i)
    BY <1>1, <1>2, <1>6
  <2>4. ASSUME NEW u \in Stmts, NEW k \in Iters
        PROVE  Landed(u, k)' <=> Landed(u, k) \/ (u = s /\ k = i)
    <3>1. CASE u = Current /\ k = Iter(u)
      <4>1. CopyOf(u, k) \notin flight'
        BY <2>1, <2>2, <3>1
      <4> QED BY <1>2, <1>3, <3>1, <4>1 DEF Landed
    <3>2. CASE ~(u = Current /\ k = Iter(u))
      <4>1. Ran(u, k)' <=> Ran(u, k)
        BY <1>2, <3>2
      <4> QED BY ZenonT(60), <1>3, <2>1, <3>2, <4>1 DEF Landed
    <3> QED BY <3>1, <3>2
  <2>5. \A u \in Stmts, k \in Iters, c \in Writing(s, i) :
          Observed(c) /\ c \in Writing(u, k) /\ Landed(u, k) =>
             SeqBefore(u, k, s, i) \/ (u = s /\ k = i)
    BY <1>1, <2>3, ClashLemma DEF Landed
  <2> HIDE DEF s, i
  <2> QED BY ZenonT(60), <1>1, <2>1, <2>3, <2>4, <2>5, MemoryWritten
<1> QED BY <1>4, <1>5, <1>6

\* A copy lands before the next one that fills the same version is issued.
LEMMA MemoryLand ==
  ASSUME Good, Progress, CopiesIssued, CopiesAhead, MemoryCurrent, Land
  PROVE  MemoryCurrent' /\ CopiesAhead'
<1>1. PICK c0 \in flight :
        /\ flight' = flight \ {c0}
        /\ mem' = [x \in DOMAIN mem |-> IF x \in Writing(c0.stmt, c0.iter)
                                         THEN <<c0.stmt, c0.iter>> ELSE mem[x]]
        /\ UNCHANGED <<compiled, section, pos, issued, committed, count, saw>>
  BY DEF Land
<1> DEFINE s == c0.stmt
           i == c0.iter
<1>2. c0 \in issued /\ \A t \in Stmts : body[s].writes \intersect body[t].reads # {} => ~Ran(t, i)
  BY DEF CopiesAhead
<1>3. s \in Async(body, plan) /\ i \in Iters /\ Ran(s, i) /\ c0 = CopyOf(s, i)
  BY <1>2 DEF CopiesIssued
<1>4. s \in Stmts /\ s \in DOMAIN body /\ Prefetched(body, s)
  BY <1>3, GoodLemma
<1>5. UNCHANGED compiled /\ section' = section /\ pos' = pos /\ issued' = issued
  BY <1>1
<1>6. /\ body' = body /\ Stmts' = Stmts
      /\ \A u, k : CopyOf(u, k)' = CopyOf(u, k)
  BY <1>5, CompiledLemma
<1>7. \A u, k : Ran(u, k)' <=> Ran(u, k)
  BY ZenonT(60), <1>5 DEF compiled, Ran, Due, BodyExtent, max_stage_
<1>8. CopiesAhead'
  <2>1. flight' \subseteq flight /\ flight \subseteq issued
    BY <1>1 DEF CopiesAhead
  <2>2. flight' \subseteq issued'
    BY <1>5, <2>1
  <2>3. \A c \in flight', t \in Stmts :
          body[c.stmt].writes \intersect body[t].reads # {} => ~Ran(t, c.iter)'
    BY <1>7, <2>1 DEF CopiesAhead
  <2> QED BY <1>6, <2>2, <2>3 DEF CopiesAhead
<1>9. ASSUME NEW u \in Stmts, NEW k \in Iters
      PROVE  Landed(u, k)' <=> Landed(u, k) \/ (u = s /\ k = i)
  <2>1. CASE u = s /\ k = i
    <3>1. CopyOf(u, k) \notin flight' /\ Ran(u, k)
      BY <1>1, <1>3, <2>1
    <3> QED BY <1>6, <1>7, <2>1, <3>1 DEF Landed
  <2>2. CASE ~(u = s /\ k = i)
    <3>1. CopyOf(u, k) # c0
      <4>1. CopyOf(u, k).stmt = u /\ CopyOf(u, k).iter = k
        BY DEF CopyOf
      <4> QED BY <2>2, <4>1
    <3>2. CopyOf(u, k) \in flight' <=> CopyOf(u, k) \in flight
      BY <1>1, <3>1
    <3> QED BY <1>6, <1>7, <2>2, <3>2 DEF Landed
  <2> QED BY <2>1, <2>2
<1>10. ASSUME NEW u \in Stmts, NEW k \in Iters, NEW c \in Writing(s, i),
              Observed(c), c \in Writing(u, k), Landed(u, k)
       PROVE  SeqBefore(u, k, s, i) \/ (u = s /\ k = i)
  <2> DEFINE buf == c[1]
  <2>1. /\ buf \in body[s].writes /\ c = Cell(buf, s, i)
        /\ buf \in body[u].writes /\ c = Cell(buf, u, k) /\ u \in Writers(body, buf)
    BY <1>3, <1>4, <1>10, WritingLemma
  <2>2. u = s /\ buf \in Allocs
    <3>1. u = s
      BY <1>4, <2>1, SoleWriter, GoodLemma
    <3>2. body[s].writes \subseteq Allocs
      BY <1>4, GoodLemma DEF CopiesAreIndependent
    <3> QED BY <2>1, <3>1, <3>2
  <2>3. PICK r : r \in Readers(body, buf)
    BY <1>10, <2>2 DEF Observed
  <2>4. r \in Stmts /\ buf \in body[r].reads
    BY <2>3 DEF Readers, Stmts
  <2>5. ~Ran(r, i)
    BY <1>2, <2>1, <2>4
  <2>6. ~(i < k)
    <3>1. ASSUME i < k PROVE FALSE
      <4>1. SeqBefore(r, i, s, k)
        BY <3>1 DEF SeqBefore
      <4>2. Cell(buf, r, i) = Cell(buf, s, k)
        <5>1. /\ Cell(buf, r, i) = <<buf, (i - loop.min) % info.versions[buf]>>
              /\ Cell(buf, s, i) = <<buf, (i - loop.min) % info.versions[buf]>>
          BY SMTT(30), <1>3, <1>4, <2>1, <2>4, CellLemma
        <5> QED BY ZenonT(60), <2>1, <2>2, <5>1
      <4>3. RunsBefore(plan, r, i, s, k)
        <5> HIDE DEF s, i, buf
        <5>1. buf \in body[r].reads \union body[r].writes /\ buf \in body[s].reads \union body[s].writes
              /\ (buf \in body[r].writes \/ buf \in body[s].writes)
          BY <2>1, <2>4
        <5> QED BY ZenonT(60), <1>3, <1>4, <2>4, <4>1, <4>2, <5>1, OrderLemma
      <4>4. Ran(s, k)
        BY <1>10, <2>2 DEF Landed
      <4> QED BY ZenonT(60), <1>3, <1>4, <2>4, <2>5, <4>3, <4>4, RanLemma
    <3> QED BY <3>1
  <2>7. i \in Int /\ k \in Int
    <3>1. loop.min \in Int /\ loop.extent \in Nat
      BY GoodLemma
    <3> QED BY SMTT(30), <1>3, <3>1 DEF Iters
  <2>8. k < i \/ k = i
    <3> HIDE DEF i
    <3> QED BY SMTT(30), <2>6, <2>7
  <2> QED BY <2>2, <2>8 DEF SeqBefore
<1>11. MemoryCurrent'
  <2>1. mem' = [x \in DOMAIN mem |-> IF x \in Writing(s, i) THEN <<s, i>> ELSE mem[x]]
    BY <1>1
  <2> HIDE DEF s, i
  <2> QED BY ZenonT(60), <1>3, <1>4, <1>5, <1>9, <1>10, <2>1, MemoryWritten
<1> QED BY <1>8, <1>11

----------------------------------------------------------------------------
(* What is read *)

\* When a statement starts, the writes of a cell that it reads have landed if they come
\* before it in the original loop, and only those.
LEMMA BeforeRead ==
  ASSUME Good, Progress, GroupsCommitted, CopiesIssued, CopiesAhead, Run \/ Issue,
         NEW buf \in body[Current].reads, NEW u \in Stmts, NEW k \in Iters,
         buf \in body[u].writes, Cell(buf, u, k) = Cell(buf, Current, Iter(Current))
  PROVE  Landed(u, k) <=> SeqBefore(u, k, Current, Iter(Current))
<1> DEFINE s == Current
           i == Iter(Current)
<1>1. /\ UNCHANGED compiled /\ Advance /\ section \in 1 .. Slots /\ pos \in 0 .. Len(body) - 1
      /\ s \in Stmts /\ i \in Iters /\ phase = "run"
  BY StepLemma DEF Good
<1>2. ~Ran(s, i) /\ section <= Slots
  <2>1. ~Ran(s, i)
    BY ZenonT(60), <1>1, AdvanceLemma DEF Good
  <2> QED BY <2>1 DEF Run, Issue, Running
<1>3. i \in Int /\ k \in Int /\ s \in Int /\ u \in Int
  <2>1. Stmts = 1 .. Len(body) /\ Len(body) \in Nat /\ loop.min \in Int /\ loop.extent \in Nat
    BY GoodLemma
  <2> QED BY SMTT(30), <1>1, <2>1 DEF Iters
<1> HIDE DEF s, i
<1>4. /\ buf \in body[s].reads \union body[s].writes
      /\ buf \in body[u].reads \union body[u].writes
      /\ buf \in body[s].writes \/ buf \in body[u].writes
      /\ buf \in body[u].writes \/ buf \in body[s].writes
      /\ Cell(buf, u, k) = Cell(buf, s, i) /\ Cell(buf, s, i) = Cell(buf, u, k)
  BY DEF s, i
<1>5. ASSUME Landed(u, k) PROVE SeqBefore(u, k, s, i)
  <2>1. Ran(u, k) /\ ~(u = s /\ k = i)
    BY <1>2, <1>5 DEF Landed
  <2>2. ASSUME SeqBefore(s, i, u, k) PROVE FALSE
    <3>1. RunsBefore(plan, s, i, u, k)
      BY <1>1, <1>4, <2>2, OrderLemma
    <3> QED BY <1>1, <1>2, <2>1, <3>1, RanLemma
  <2> QED BY SMTT(30), <1>3, <2>1, <2>2 DEF SeqBefore
<1>6. ASSUME SeqBefore(u, k, s, i) PROVE Landed(u, k)
  <2>1. RunsBefore(plan, u, k, s, i)
    BY <1>1, <1>4, <1>6, OrderLemma
  <2>2. s = Current /\ i = Iter(s)
    BY DEF s, i
  <2>3. Ran(u, k)
    BY <1>1, <1>2, <2>1, <2>2, RanLemma
  <2>4. ASSUME CopyOf(u, k) \in flight PROVE FALSE
    <3> DEFINE c == CopyOf(u, k)
    <3>1. c.stmt = u /\ c.iter = k
      BY DEF CopyOf
    <3> HIDE DEF c
    <3>2. c \in flight /\ body[c.stmt].writes \intersect body[s].reads # {}
      BY <1>4, <2>4, <3>1 DEF c, s
    <3>3. k # i
      BY <2>2, <3>1, <3>2, ArrivedLemma
    <3>4. k < i
      BY <1>6, <3>3 DEF SeqBefore
    <3>5. RunsBefore(plan, s, k, s, i)
      <4>1. plan[s].stage \in 0 .. max_stage_ /\ max_stage_ \in 0 .. loop.num_stages
            /\ loop.num_stages \in Nat
        BY <1>1, SetupLemma DEF Good
      <4>2. plan[s].stage \in Int
        BY SMTT(30), <4>1
      <4> QED BY SMTT(30), <1>3, <3>4, <4>2 DEF RunsBefore
    <3>6. Ran(s, k)
      BY <1>1, <1>2, <2>2, <3>5, RanLemma
    <3> QED BY <1>1, <3>1, <3>2, <3>6 DEF CopiesAhead
  <2> QED BY <2>3, <2>4 DEF Landed
<1> QED BY <1>5, <1>6 DEF s, i

\* Numbers of statements have a greatest.
LEMMA MaxStmt ==
  ASSUME Good, NEW S \in SUBSET Stmts, S # {}
  PROVE  Max(S) \in S /\ \A y \in S : y <= Max(S)
<1>1. Stmts = 1 .. Len(body) /\ Len(body) \in Nat
  BY GoodLemma
<1>2. S \in SUBSET (-1 .. Len(body))
  BY SMTT(30), <1>1
<1> QED BY <1>1, <1>2, MaxLemma

LEMMA ReadLemma ==
  ASSUME Good, Progress, GroupsCommitted, CopiesIssued, CopiesAhead, MemoryCurrent, Run \/ Issue,
         NEW buf \in body[Current].reads
  PROVE  mem[Cell(buf, Current, Iter(Current))] = Expected(Current, Iter(Current), buf)
<1> DEFINE s == Current
           i == Iter(Current)
           c == Cell(buf, s, i)
           writers == Writers(body, buf)
           before == {t \in writers : t < s}
<1>1. s \in Stmts /\ i \in Iters
  BY StepLemma DEF Good
<1>2. /\ Stmts = 1 .. Len(body) /\ Len(body) \in Nat /\ loop.min \in Int /\ loop.extent \in Nat
      /\ DefinedBeforeUse(body) /\ Stmts = DOMAIN body
  BY GoodLemma
<1>3. \A k \in Iters : k \in Int /\ loop.min <= k
  BY SMTT(30), <1>2 DEF Iters
<1>4. \A t \in Stmts : t \in Int
  BY SMTT(30), <1>2
<1>5. /\ buf \in Buffers(body) /\ c \in Cells
      /\ c = <<buf, (i - loop.min) % info.versions[buf]>> /\ c[1] = buf
  <2>1. buf \in Buffers(body) /\ c \in Cells /\ c = <<buf, (i - loop.min) % info.versions[buf]>>
    BY <1>1, CellLemma
  <2> QED BY SMTT(30), <2>1
<1>6. Observed(c)
  BY <1>1, <1>2, <1>5 DEF Observed, Readers
<1>7. ASSUME NEW u \in writers, NEW k \in Iters
      PROVE  /\ u \in Stmts /\ buf \in body[u].writes
             /\ Cell(buf, u, k) = <<buf, (k - loop.min) % info.versions[buf]>>
             /\ Cell(buf, u, k) = c => (Landed(u, k) <=> SeqBefore(u, k, s, i))
             /\ c \in Writing(u, k) <=> Cell(buf, u, k) = c
  <2>1. u \in Stmts /\ buf \in body[u].writes
    BY DEF Writers, Stmts
  <2>2. Cell(buf, u, k) = <<buf, (k - loop.min) % info.versions[buf]>>
    BY <2>1, CellLemma
  <2>3. Cell(buf, u, k) = c => (Landed(u, k) <=> SeqBefore(u, k, s, i))
    BY <2>1, BeforeRead
  <2>4. c \in Writing(u, k) => Cell(buf, u, k) = c
    <3> HIDE DEF c
    <3> QED BY <1>5, <2>1, WritingLemma
  <2>5. Cell(buf, u, k) = c => c \in Writing(u, k)
    BY <2>1 DEF Writing
  <2> QED BY <2>1, <2>2, <2>3, <2>4, <2>5
<1> HIDE DEF s, i, c
<1>8. \/ /\ mem[c] = Untouched
         /\ \A u \in Stmts, k \in Iters : c \in Writing(u, k) => ~Landed(u, k)
      \/ \E w \in Stmts, j \in Iters : mem[c] = <<w, j>> /\ LastWriter(c, w, j)
  BY <1>5, <1>6 DEF MemoryCurrent, Observed
<1>9. ASSUME NEW w \in Stmts, NEW j \in Iters, LastWriter(c, w, j)
      PROVE  w \in writers /\ SeqBefore(w, j, s, i)
  <2>1. c \in Writing(w, j) /\ Landed(w, j)
    BY <1>9 DEF LastWriter
  <2>2. w \in writers
    BY <1>5, <2>1, WritingLemma
  <2> QED BY <1>7, <2>1, <2>2
<1>10. ASSUME NEW m \in writers, NEW k \in Iters, Cell(buf, m, k) = c, SeqBefore(m, k, s, i)
       PROVE  \E w \in writers, j \in Iters :
                /\ mem[c] = <<w, j>> /\ SeqBefore(w, j, s, i)
                /\ SeqBefore(m, k, w, j) \/ (m = w /\ k = j)
  <2>1. c \in Writing(m, k) /\ Landed(m, k) /\ m \in Stmts
    BY <1>7, <1>10
  <2>2. PICK w \in Stmts, j \in Iters : mem[c] = <<w, j>> /\ LastWriter(c, w, j)
    BY <1>8, <2>1
  <2>3. SeqBefore(m, k, w, j) \/ (m = w /\ k = j)
    BY <2>1, <2>2 DEF LastWriter
  <2> QED BY <1>9, <2>2, <2>3
<1>11. writers \in SUBSET Stmts /\ before \in SUBSET writers /\ before \in SUBSET Stmts
  BY <1>2 DEF Writers
<1>12. CASE before # {}
  <2> DEFINE m == Max(before)
  <2>1. m \in before /\ \A y \in before : y <= m
    <3> HIDE DEF before
    <3> QED BY <1>11, <1>12, MaxStmt
  <2> HIDE DEF m
  <2>2. m \in writers /\ m < s
    BY <2>1
  <2>3. Cell(buf, m, i) = c
    BY <1>1, <1>5, <1>7, <2>2 DEF s, i
  <2>4. SeqBefore(m, i, s, i)
    BY <2>2 DEF SeqBefore
  <2>5. PICK w \in writers, j \in Iters :
          /\ mem[c] = <<w, j>> /\ SeqBefore(w, j, s, i)
          /\ SeqBefore(m, i, w, j) \/ (m = w /\ i = j)
    BY ZenonT(60), <1>1, <1>10, <2>2, <2>3, <2>4 DEF s, i
  <2>6. j = i
    <3>1. i \in Int /\ j \in Int
      BY <1>1, <1>3 DEF s, i
    <3> QED BY SMTT(30), <2>5, <3>1 DEF SeqBefore
  <2>7. w = m
    <3>1. w \in Int /\ m \in Int /\ i \in Int /\ s \in Int
      BY ZenonT(60), <1>1, <1>3, <1>4, <1>11, <2>2 DEF s, i
    <3>2. w < s
      BY SMTT(30), <2>5, <2>6, <3>1 DEF SeqBefore
    <3>3. w <= m
      BY <2>1, <3>2
    <3>4. m < w \/ m = w
      BY SMTT(30), <2>5, <2>6, <3>1 DEF SeqBefore
    <3> QED BY SMTT(30), <3>1, <3>3, <3>4
  <2>8. mem[c] = <<m, i>>
    BY <2>5, <2>6, <2>7
  <2>9. Expected(s, i, buf) = <<m, i>>
    BY <1>12 DEF Expected, m
  <2> QED BY <2>8, <2>9 DEF s, i, c
<1>13. CASE before = {} /\ writers # {} /\ i > loop.min
  <2> DEFINE m == Max(writers)
  <2>1. m \in writers /\ \A y \in writers : y <= m
    <3> HIDE DEF writers
    <3> QED BY <1>11, <1>13, MaxStmt
  <2>2. info.versions[buf] = 1
    <3>1. buf \notin Allocs
      <4>1. ASSUME buf \in Allocs PROVE FALSE
        <5>1. PICK u \in 1 .. s - 1 : buf \in body[u].writes
          BY <1>1, <1>2, <4>1 DEF DefinedBeforeUse, s
        <5>2. u \in Stmts /\ u < s
          BY SMTT(30), <1>1, <1>2, <5>1 DEF s
        <5>3. u \in before
          BY <1>2, <5>1, <5>2 DEF Writers
        <5> QED BY <1>13, <5>3
      <4> QED BY <4>1
    <3> QED BY <1>5, <3>1, VersionLemma
  <2> HIDE DEF m
  <2> DEFINE k == i - 1
  <2>3. i \in Int /\ i \in Iters
    BY <1>1, <1>3 DEF i
  <2>4. k \in Iters /\ k < i /\ k \in Int
    BY SMTT(30), <1>2, <1>13, <2>3 DEF Iters
  <2>5. Cell(buf, m, k) = c
    <3>1. (k - loop.min) % 1 = (i - loop.min) % 1
      BY SMTT(30), <1>2, <2>3, <2>4
    <3>2. Cell(buf, m, k) = <<buf, (k - loop.min) % info.versions[buf]>>
      BY <1>7, <2>1, <2>4
    <3> HIDE DEF k
    <3> QED BY <1>5, <2>2, <3>1, <3>2
  <2> HIDE DEF k
  <2>6. SeqBefore(m, k, s, i)
    BY <2>4 DEF SeqBefore
  <2>7. PICK w \in writers, j \in Iters :
          /\ mem[c] = <<w, j>> /\ SeqBefore(w, j, s, i)
          /\ SeqBefore(m, k, w, j) \/ (m = w /\ k = j)
    BY <1>10, <2>1, <2>4, <2>5, <2>6
  <2>8. w \in Int /\ m \in Int /\ s \in Int /\ j \in Int
    BY ZenonT(60), <1>1, <1>3, <1>4, <1>11, <2>1 DEF s
  <2>9. j # i
    <3>1. ASSUME j = i PROVE FALSE
      <4>1. w < s
        BY SMTT(30), <2>3, <2>7, <2>8, <3>1 DEF SeqBefore
      <4> QED BY <1>13, <4>1
    <3> QED BY <3>1
  <2>10. j = k
    BY SMTT(30), <2>3, <2>7, <2>8, <2>9 DEF SeqBefore, k
  <2>11. w = m
    <3>1. w <= m
      BY <2>1
    <3> QED BY SMTT(30), <2>4, <2>7, <2>8, <2>10, <3>1 DEF SeqBefore
  <2>12. mem[c] = <<m, i - 1>>
    BY <2>7, <2>10, <2>11 DEF k
  <2>13. Expected(s, i, buf) = <<m, i - 1>>
    BY <1>13 DEF Expected, m
  <2> QED BY <2>12, <2>13 DEF s, i, c
<1>14. CASE before = {} /\ ~(writers # {} /\ i > loop.min)
  <2>1. ASSUME NEW w \in Stmts, NEW j \in Iters, LastWriter(c, w, j) PROVE FALSE
    <3>1. w \in writers /\ SeqBefore(w, j, s, i)
      BY <1>9, <2>1
    <3>2. i \in Int /\ loop.min <= i /\ loop.min <= j /\ j \in Int /\ w \in Int /\ s \in Int
      BY <1>1, <1>3, <1>4 DEF s, i
    <3>3. ~(i > loop.min)
      BY <1>14, <3>1
    <3>4. w < s
      BY SMTT(30), <1>2, <3>1, <3>2, <3>3 DEF SeqBefore
    <3> QED BY <1>14, <3>1, <3>4
  <2>2. mem[c] = Untouched
    BY <1>8, <2>1
  <2>3. Expected(s, i, buf) = Untouched
    BY <1>14 DEF Expected
  <2> QED BY <2>2, <2>3 DEF s, i, c
<1> QED BY <1>12, <1>13, <1>14

\* After the loop.
LEMMA FinalLemma ==
  ASSUME Good, Progress, MemoryCurrent
  PROVE  FinalMemory
<1> SUFFICES ASSUME Finished, loop.extent > 0, NEW buf \in Buffers(body), buf \notin Allocs,
                    Writers(body, buf) # {}
             PROVE  mem[<<buf, 0>>] = <<Max(Writers(body, buf)), loop.min + loop.extent - 1>>
  BY DEF FinalMemory
<1> DEFINE m == Max(Writers(body, buf))
           k == loop.min + loop.extent - 1
           c == <<buf, 0>>
<1>1. /\ Stmts = 1 .. Len(body) /\ Len(body) \in Nat /\ loop.min \in Int /\ loop.extent \in Nat
      /\ Stmts = DOMAIN body /\ Slots \in Nat
  BY GoodLemma, SlotsType DEF Good
<1>2. m \in Writers(body, buf) /\ \A y \in Writers(body, buf) : y <= m
  <2>1. Writers(body, buf) \in SUBSET Stmts
    BY <1>1 DEF Writers
  <2> QED BY <2>1, MaxStmt
<1>3. m \in Stmts /\ buf \in body[m].writes
  BY <1>1, <1>2 DEF Writers
<1>4. k \in Iters /\ k \in Int /\ \A j \in Iters : j \in Int /\ j <= k
  BY SMTT(30), <1>1 DEF Iters
<1>5. info.versions[buf] = 1
  BY VersionLemma
<1>6. Cell(buf, m, k) = c /\ c \in Cells
  <2>1. /\ Cell(buf, m, k) = <<buf, (k - loop.min) % info.versions[buf]>>
        /\ Cell(buf, m, k) \in Cells
    BY <1>3, <1>4, CellLemma
  <2>2. (k - loop.min) % 1 = 0
    BY SMTT(30), <1>1, <1>4
  <2> QED BY <1>5, <2>1, <2>2
<1> HIDE DEF m, k
<1>7. Ran(m, k)
  <2>1. Due(m, k) \in 1 .. Slots
    BY <1>3, <1>4, DueLemma DEF Good
  <2>2. section \in 1 .. Slots + 1 /\ ~(section <= Slots)
    BY DEF Good, Progress, Finished, Running
  <2>3. Due(m, k) < section
    BY SMTT(30), <1>1, <2>1, <2>2
  <2> QED BY <2>3 DEF Ran
<1>8. Landed(m, k) /\ c \in Writing(m, k)
  <2>1. CopyOf(m, k) \notin flight
    BY DEF Finished
  <2>2. c \in Writing(m, k)
    <3> HIDE DEF c
    <3> QED BY <1>3, <1>6 DEF Writing
  <2> QED BY <1>7, <2>1, <2>2 DEF Landed
<1>9. c[1] = buf
  OBVIOUS
<1> HIDE DEF c
<1>10. PICK w \in Stmts, j \in Iters : mem[c] = <<w, j>> /\ LastWriter(c, w, j)
  BY <1>3, <1>4, <1>6, <1>8, <1>9 DEF MemoryCurrent
<1>11. SeqBefore(m, k, w, j) \/ (m = w /\ k = j)
  BY <1>3, <1>4, <1>8, <1>10 DEF LastWriter
<1>12. w \in Writers(body, buf)
  BY <1>9, <1>10, WritingLemma DEF LastWriter
<1>13. w \in Int /\ m \in Int /\ w <= m /\ j \in Int /\ j <= k /\ k \in Int
  <2>1. w \in Int /\ m \in Int
    BY SMTT(30), <1>1, <1>3
  <2> QED BY <1>2, <1>4, <1>12, <2>1
<1>14. w = m /\ j = k
  BY SMTT(30), <1>11, <1>13 DEF SeqBefore
<1> QED BY <1>10, <1>14 DEF m, k, c

----------------------------------------------------------------------------
(* The theorems *)

DataBegun ==
  /\ Good /\ Progress /\ section = 1 /\ pos = 0
  /\ mem = [c \in Cells |-> Untouched] /\ issued = {} /\ flight = {} /\ committed = 0

LEMMA DataBegin == DataBegun => DataRuns
<1> SUFFICES ASSUME DataBegun PROVE DataRuns
  OBVIOUS
<1> USE DEF DataBegun
<1>1. \A s \in Stmts, i \in Iters : ~Ran(s, i)
  BY NoneRan DEF Good
<1>2. GroupsCommitted
  <2>1. /\ IsBody(body) /\ Ordered(body, plan) /\ info.commit_groups \in Nat /\ loop.extent \in Nat
    BY GoodLemma
  <2>2. Cardinality(CommitsBefore(body, plan, 0)) = 0
    BY <2>1, CommitLemma
  <2> QED BY SMTT(30), <2>1, <2>2 DEF GroupsCommitted
<1>3. CopiesIssued
  BY <1>1, GoodLemma DEF CopiesIssued
<1>4. CopiesAhead
  BY DEF CopiesAhead
<1>5. MemoryCurrent
  <2>1. DOMAIN mem = Cells /\ \A c \in Cells : mem[c] = Untouched
    OBVIOUS
  <2> QED BY <1>1, <2>1 DEF MemoryCurrent, Landed
<1> QED BY <1>2, <1>3, <1>4, <1>5 DEF DataRuns

LEMMA ReadsStep ==
  ASSUME Good, Progress, DataRuns, ReadsAsSequential, Skip \/ Run \/ Issue
  PROVE  ReadsAsSequential'
<1>1. UNCHANGED compiled
  BY StepLemma DEF Good
<1>2. body' = body /\ loop' = loop
  BY <1>1, CompiledLemma
<1>3. CASE Skip
  <2>1. saw' = saw
    BY <1>3 DEF Skip
  <2> QED BY <1>2, <2>1 DEF ReadsAsSequential, Expected, Untouched
<1>4. CASE Run \/ Issue
  <2>1. saw' = [stmt |-> Current, iter |-> Iter(Current),
                vals |-> [buf \in body[Current].reads |-> mem[Cell(buf, Current, Iter(Current))]]]
    BY <1>4 DEF Run, Issue, Starts
  <2>2. saw'.stmt = Current /\ saw'.iter = Iter(Current)
        /\ \A buf \in body[Current].reads : saw'.vals[buf] = mem[Cell(buf, Current, Iter(Current))]
    BY <2>1
  <2>3. \A buf \in body[Current].reads :
          mem[Cell(buf, Current, Iter(Current))] = Expected(Current, Iter(Current), buf)
    BY <1>4, ReadLemma DEF DataRuns
  <2> DEFINE s == Current
             i == Iter(Current)
  <2> HIDE DEF s, i
  <2>4. saw'.stmt = s /\ saw'.iter = i /\ \A buf \in body[s].reads : saw'.vals[buf] = Expected(s, i, buf)
    BY <2>2, <2>3 DEF s, i
  <2> QED BY <1>2, <2>4 DEF ReadsAsSequential, Expected, Untouched
<1> QED BY <1>3, <1>4

LEMMA DataRunsStep ==
  ASSUME Good, Progress, DataRuns, Skip \/ Run \/ Issue \/ Land \/ UNCHANGED vars
  PROVE  DataRuns'
<1> USE DEF DataRuns
<1>1. CASE Skip \/ Run \/ Issue
  <2>1. GroupsCommitted'
    BY <1>1, CommittedStep
  <2>2. CopiesIssued'
    BY <1>1, IssuedStep
  <2>3. CopiesAhead'
    BY <1>1, AheadStep
  <2>4. MemoryCurrent'
    BY <1>1, MemoryStep
  <2> QED BY <2>1, <2>2, <2>3, <2>4
<1>2. CASE Land \/ UNCHANGED vars
  <2>1. UNCHANGED compiled /\ section' = section /\ pos' = pos /\ issued' = issued
        /\ committed' = committed
    BY <1>2 DEF Land, vars, compiled
  <2>2. body' = body /\ plan' = plan /\ info' = info /\ loop' = loop /\ Iters' = Iters
        /\ Stmts' = Stmts /\ \A u, k : CopyOf(u, k)' = CopyOf(u, k)
    BY <2>1, CompiledLemma
  <2>3. \A u, k : Ran(u, k)' <=> Ran(u, k)
    BY <2>1 DEF compiled, Ran, Due, BodyExtent, max_stage_
  <2>4. GroupsCommitted'
    BY <2>1, <2>2 DEF GroupsCommitted
  <2>5. CopiesIssued'
    BY <2>1, <2>2, <2>3 DEF CopiesIssued
  <2>6. MemoryCurrent' /\ CopiesAhead'
    <3>1. CASE Land
      BY <3>1, MemoryLand
    <3>2. CASE UNCHANGED vars
      <4>1. mem' = mem /\ flight' = flight
        BY <3>2 DEF vars
      <4>2. \A u \in Stmts, k \in Iters : Landed(u, k)' <=> Landed(u, k)
        BY <2>2, <2>3, <4>1 DEF Landed
      <4>3. MemoryCurrent'
        BY <2>1, <4>1, <4>2, MemorySame
      <4>4. CopiesAhead'
        BY <2>1, <2>2, <2>3, <4>1 DEF CopiesAhead
      <4> QED BY <4>3, <4>4
    <3> QED BY <1>2, <3>1, <3>2
  <2> QED BY <2>4, <2>5, <2>6
<1> QED BY <1>1, <1>2

LEMMA DataStep ==
  ASSUME LoopsLong, LoopsRegular, Setup, Progress, Data, [Next]_vars
  PROVE  Data'
<1>1. phase = "run" => Good
  BY AcceptedLemma DEF Good, LoopsLong, LoopsRegular, Setup
<1>2. Setup' /\ Progress'
  BY SetupStep, ProgressStep
<1>3. CASE PlanLoop \/ RejectLoop
  <2>1. phase # "run" /\ phase' # "run" /\ UNCHANGED <<issued, flight, committed, saw>>
    BY <1>3 DEF PlanLoop, RejectLoop
  <2>2. issued' = {} /\ flight' = {} /\ committed' = 0 /\ saw'.stmt = 0
    BY <2>1 DEF Data
  <2>3. ReadsAsSequential'
    BY <2>2 DEF ReadsAsSequential
  <2> QED BY <2>1, <2>2, <2>3 DEF Data
<1>4. CASE InjectLoop
  <2>1. /\ phase # "run" /\ phase' = "run" /\ mem' = [c \in Cells' |-> Untouched]
        /\ UNCHANGED <<section, pos, issued, flight, committed, saw>>
    BY <1>4 DEF InjectLoop
  <2>2. /\ issued' = {} /\ flight' = {} /\ committed' = 0 /\ saw'.stmt = 0
        /\ section' = 1 /\ pos' = 0
    BY <2>1 DEF Data, Progress
  <2>3. LongEnough(loop)' /\ Regular(loop)'
    <3>1. loop' \in Loops
      BY <1>2 DEF Setup
    <3>2. Accepted(loop)'
      BY <1>2, <2>1 DEF Setup, Accepted, body
    <3> QED BY <3>1, <3>2 DEF LoopsLong, LoopsRegular
  <2>4. DataBegun'
    <3>1. mem' = [c \in Cells' |-> Untouched']
      BY <2>1 DEF Untouched
    <3> QED BY ZenonT(60), <1>2, <2>1, <2>2, <2>3, <3>1 DEF DataBegun, Good
  <2>5. DataRuns'
    BY <2>4, DataBegin, PTL
  <2>6. ReadsAsSequential'
    BY <2>2 DEF ReadsAsSequential
  <2> QED BY <2>1, <2>5, <2>6 DEF Data
<1>5. CASE Skip \/ Run \/ Issue
  <2>1. phase = "run" /\ phase' = "run"
    <3>1. phase = "run" /\ UNCHANGED compiled
      BY <1>5 DEF Skip, Run, Issue, Running
    <3> QED BY <3>1 DEF compiled
  <2>2. DataRuns /\ ReadsAsSequential /\ Good
    BY <1>1, <2>1 DEF Data
  <2>3. DataRuns'
    BY <1>5, <2>2, DataRunsStep
  <2>4. ReadsAsSequential'
    BY ZenonT(60), <1>5, <2>2, ReadsStep
  <2> QED BY <2>1, <2>3, <2>4 DEF Data
<1>6. CASE Land \/ Terminated \/ UNCHANGED vars
  <2>1. UNCHANGED compiled /\ saw' = saw /\ issued' = issued /\ committed' = committed
    BY <1>6 DEF Land, Terminated, vars, compiled
  <2>2. body' = body /\ loop' = loop /\ phase' = phase
    BY <2>1, CompiledLemma
  <2>3. ReadsAsSequential'
    BY <2>1, <2>2 DEF Data, ReadsAsSequential, Expected, Untouched
  <2>4. CASE phase = "run"
    <3>1. DataRuns'
      BY <1>1, <1>6, <2>4, DataRunsStep DEF Data, Terminated
    <3> QED BY <2>2, <2>3, <2>4, <3>1 DEF Data
  <2>5. CASE phase # "run"
    <3>1. flight = {} /\ issued = {} /\ committed = 0 /\ saw.stmt = 0
      BY <2>5 DEF Data
    <3>2. flight' = {}
      BY <1>6, <3>1 DEF Land, Terminated, vars
    <3> QED BY ZenonT(60), <2>1, <2>2, <2>3, <2>5, <3>1, <3>2 DEF Data
  <2> QED BY <2>4, <2>5
<1> QED BY <1>3, <1>4, <1>5, <1>6 DEF Next

LEMMA DataHolds ==
  ASSUME LoopsLong, LoopsRegular
  PROVE  Spec => [](Setup /\ Progress /\ Data)
<1>1. Init => Setup /\ Progress /\ Data
  <2> SUFFICES ASSUME Init PROVE Data
    BY SetupInit
  <2> QED BY DEF Init, Data, ReadsAsSequential
<1>2. (Setup /\ Progress /\ Data) /\ [Next]_vars => (Setup /\ Progress /\ Data)'
  BY SetupStep, ProgressStep, DataStep
<1> QED BY <1>1, <1>2, PTL DEF Spec

\* The pipelined loop computes what the original loop computes: for every body, number of
\* stages and extent that the passes accept, every instance of a statement reads the
\* values that it reads in the original loop, however late the copies land.
THEOREM ReadsAsSequentialHolds ==
  ASSUME LoopsLong, LoopsRegular
  PROVE  Spec => []ReadsAsSequential
<1>1. Setup /\ Progress /\ Data => ReadsAsSequential
  BY DEF Data
<1> QED BY <1>1, DataHolds, PTL

\* After the epilogue the buffers that outlive the loop hold what the original loop leaves
\* in them.
THEOREM FinalMemoryHolds ==
  ASSUME LoopsLong, LoopsRegular
  PROVE  Spec => []FinalMemory
<1>1. Setup /\ Progress /\ Data => FinalMemory
  <2> SUFFICES ASSUME Setup, Progress, Data PROVE FinalMemory
    OBVIOUS
  <2>1. CASE phase = "run"
    <3>1. Good
      BY <2>1, AcceptedLemma DEF Good, LoopsLong, LoopsRegular, Setup
    <3> QED BY <2>1, <3>1, FinalLemma DEF Data, DataRuns
  <2>2. CASE phase # "run"
    BY ZenonT(60), <2>2 DEF FinalMemory, Finished
  <2> QED BY <2>1, <2>2
<1> QED BY <1>1, DataHolds, PTL

\* PopulateWaitCounts relaxes the waits as far as it can: no wait forces a copy that is
\* newer than the ones its statement reads.
THEOREM WaitIsTightHolds ==
  ASSUME LoopsLong, LoopsRegular
  PROVE  Spec => []WaitIsTight
<1>1. Setup /\ Progress /\ Data => WaitIsTight
  <2> SUFFICES ASSUME Setup, Progress, Data PROVE WaitIsTight
    OBVIOUS
  <2>1. CASE phase = "run"
    <3>1. Good
      BY <2>1, AcceptedLemma DEF Good, LoopsLong, LoopsRegular, Setup
    <3> QED BY ZenonT(60), <2>1, <3>1, TightLemma DEF Data, DataRuns
  <2>2. CASE phase # "run"
    BY <2>2 DEF WaitIsTight, Running
  <2> QED BY <2>1, <2>2
<1> QED BY <1>1, DataHolds, PTL
=============================================================================
