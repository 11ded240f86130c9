--------------------------- MODULE InjectPipeline ---------------------------
(***************************************************************************)
(* The pass tl.InjectSoftwarePipeline (src/src/tl/inject_pipeline.cc): the *)
(* checks it makes, the number of versions it gives to the buffers of the  *)
(* loop, the commit groups of the asynchronous copies, and the wait counts.*)
(* p is the plan: statement -> [order, stage, async].                      *)
(***************************************************************************)
EXTENDS PipelinePlanning

CONSTANT Allocs     \* pipeline_allocs_: the buffers allocated in the loop

Readers(b, buf) == {s \in DOMAIN b : buf \in b[s].reads}
Writers(b, buf) == {s \in DOMAIN b : buf \in b[s].writes}

Buffers(b) == UNION {b[s].reads \union b[s].writes : s \in DOMAIN b}

\* BuildDependencyGraph: t reads a buffer that the earlier statement s wrote.
DependsOn(b, s, t) == s < t /\ b[s].writes \intersect b[t].reads # {}

\* ValidatePipelineBody: orders are unique, and a dependence goes to a later
\* stage, or to a later statement of the same stage.
ValidatePipelineBody(b, p) ==
  /\ \A s, t \in DOMAIN b : p[s].order = p[t].order => s = t
  /\ \A s, t \in DOMAIN b : DependsOn(b, s, t) =>
        \/ p[s].stage < p[t].stage
        \/ p[s].stage = p[t].stage /\ p[s].order < p[t].order

MaxStage(b, p) == Max({p[s].stage : s \in DOMAIN b})

\* GetBufferAccessInfo: the first stage that defines a buffer, the last using it.
DefStage(b, p, buf) == Min({p[s].stage : s \in Writers(b, buf)})
UseStage(b, p, buf) == Max({-1} \union {p[s].stage : s \in Readers(b, buf)})

\* A mutant of NeedMultiVersion, with the roles as the comment of the code has them.
ReaderBeforeWriter(b, p, buf) ==
  \E w \in Writers(b, buf), r \in Readers(b, buf) :
     p[r].order < p[w].order /\ p[r].stage < p[w].stage

\* A writer comes before a reader of a later stage in the order of the body.
NeedMultiVersion(b, p, buf) ==
  \E w \in Writers(b, buf), r \in Readers(b, buf) :
     p[w].order < p[r].order /\ p[w].stage < p[r].stage

\* ComputeBufferVersions, from the access information of the buffer.
ComputeBufferVersions(def, use, need_multi_version) ==
  IF use - def + 1 >= 2 /\ ~need_multi_version THEN use - def ELSE use - def + 1

\* Only the buffers of the loop that are written in it are remapped, and only to
\* more than one version.
Versions(b, p, buf) ==
  IF buf \notin Allocs \/ Writers(b, buf) = {}
  THEN 1
  ELSE Max({1, ComputeBufferVersions(DefStage(b, p, buf), UseStage(b, p, buf),
                                     NeedMultiVersion(b, p, buf))})

----------------------------------------------------------------------------
(* Asynchronous copies.                                                    *)

Async(b, p) == {s \in DOMAIN b : p[s].async}

AsyncWritten(b, p) == UNION {b[s].writes : s \in Async(b, p)}

\* The statement reads a buffer that is written asynchronously.
ReadsAsync(b, p, s) == b[s].reads \intersect AsyncWritten(b, p) # {}

\* A consumer closes the group of the asynchronous statements before it: the
\* next asynchronous statement, s, starts a new one.
AsyncBetween(b, p, lo, hi) == \E s \in Async(b, p) : p[s].order \in lo .. hi

StartsGroup(b, p, s) ==
  \/ ~AsyncBetween(b, p, 0, p[s].order - 1)
  \/ \E r \in DOMAIN b : /\ ReadsAsync(b, p, r)
                         /\ p[r].order < p[s].order
                         /\ ~AsyncBetween(b, p, p[r].order + 1, p[s].order - 1)

CommitGroup(b, p, s) ==
  Cardinality({t \in Async(b, p) : StartsGroup(b, p, t) /\ p[t].order <= p[s].order})

CommitGroups(b, p) == {CommitGroup(b, p, s) : s \in Async(b, p)}

GroupOrders(b, p, g) ==
  {p[s].order : s \in {t \in Async(b, p) : CommitGroup(b, p, t) = g}}

\* The last statement of a group commits it.
Commits(b, p, s) == p[s].order = Max(GroupOrders(b, p, CommitGroup(b, p, s)))

\* The groups that come after statement s in the slot.
GroupsAfter(b, p, s) ==
  Cardinality({g \in CommitGroups(b, p) : Min(GroupOrders(b, p, g)) > p[s].order})

\* The groups at the end of the list that statement s does not depend on.
DependentGroups(b, p, s) ==
  {CommitGroup(b, p, t) :
     t \in {u \in Async(b, p) : b[u].writes \intersect b[s].reads # {}}}

IndependentTail(b, p, s) ==
  Cardinality({g \in CommitGroups(b, p) :
                 \A d \in DependentGroups(b, p, s) : g > d})

----------------------------------------------------------------------------
\* What the rewriter works out before it emits the three sections of the loop.
Analysis(b, p) ==
  [ max_stage_    |-> MaxStage(b, p),
    versions      |-> [buf \in Buffers(b) |-> Versions(b, p, buf)],
    commit_groups |-> Cardinality(CommitGroups(b, p)),
    commits       |-> {s \in Async(b, p) : Commits(b, p, s)},
    waits         |-> {s \in DOMAIN b : ReadsAsync(b, p, s)},
    after         |-> [s \in DOMAIN b |-> GroupsAfter(b, p, s)],
    tail          |-> [s \in DOMAIN b |-> IndependentTail(b, p, s)] ]

\* PopulateWaitCounts: the commits that may still be in flight when s starts its
\* iteration iter.  local: the section of the loop has asynchronous statements,
\* and head is their iteration (one less for the groups still to come in this
\* slot); else head is the last iteration issued before.  A mutant: without the
\* relaxation for independent groups.
WaitForAllGroups(a, s, iter, local, head) ==
  a.commit_groups * (head - iter) - (IF local THEN a.after[s] ELSE 0)

WaitCount(a, s, iter, local, head) ==
  a.commit_groups * (head - iter) - (IF local THEN a.after[s] ELSE 0) + a.tail[s]
=============================================================================
