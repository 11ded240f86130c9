--------------------------- MODULE PipelineProofs ---------------------------
(***************************************************************************)
(* Proofs about the plans of PipelinePlanning and about what InjectPipeline *)
(* derives from them (buffer versions, commit groups, wait counts), for    *)
(* every body, any number of stages and loops of any length.               *)
(***************************************************************************)
EXTENDS PipelineExec, FiniteSetTheorems, WellFoundedInduction, TLAPS

\* A leaf goes to Zenon unless it names another prover.
USE Zenon

----------------------------------------------------------------------------
\* A set of natural numbers that is not empty has a smallest element ...
LEMMA SmallestLemma ==
  ASSUME NEW S \in SUBSET Nat, S # {}
  PROVE  \E x \in S : \A y \in S : x <= y
<1>1. PICK x \in S : \A y \in S : ~(<<y, x>> \in OpToRel(<, Nat))
  BY WFMin, NatLessThanWellFounded
<1>2. ASSUME NEW y \in S PROVE x <= y
  <2>1. <<y, x>> \in Nat \X Nat /\ <<y, x>>[1] = y /\ <<y, x>>[2] = x
    OBVIOUS
  <2>2. y < x => <<y, x>> \in OpToRel(<, Nat)
    BY <2>1 DEF OpToRel
  <2>3. ~(y < x)
    BY <1>1, <2>2
  <2> QED BY SMTT(30), <2>3
<1> QED BY <1>2

LEMMA MinLemma ==
  ASSUME NEW S \in SUBSET Nat, S # {}
  PROVE  Min(S) \in S /\ \A y \in S : Min(S) <= y
  BY SmallestLemma DEF Min

\* ... and one that is bounded has a greatest.
LEMMA MaxLemma ==
  ASSUME NEW n \in Nat, NEW S \in SUBSET (-1 .. n), S # {}
  PROVE  Max(S) \in S /\ \A y \in S : y <= Max(S)
<1> DEFINE T == {n - y : y \in S}
<1>1. ASSUME NEW y \in S PROVE y \in Int /\ n - y \in Nat
  BY SMTT(30)
<1>2. T \in SUBSET Nat
  BY <1>1
<1>3. T # {}
  OBVIOUS
<1>4. PICK x \in T : \A y \in T : x <= y
  BY <1>2, <1>3, SmallestLemma
<1>5. PICK m \in S : x = n - m
  OBVIOUS
<1>6. ASSUME NEW y \in S PROVE y <= m
  <2>1. n - m <= n - y
    BY <1>4, <1>5
  <2> QED BY SMTT(30), <1>1, <2>1
<1>7. \E z \in S : \A y \in S : z >= y
  BY <1>1, <1>6
<1>8. Max(S) \in S /\ \A y \in S : Max(S) >= y
  BY <1>7 DEF Max
<1> QED BY <1>1, <1>8

----------------------------------------------------------------------------
\* A plan for the body b that ValidatePipelineBody may have to judge: stages and
\* orders are numbers, the stages up to last.
IsPlan(b, p, last) ==
  \A s \in DOMAIN b : p[s].order \in Nat /\ p[s].stage \in 0 .. last

\* The statement s runs for iteration i at slot i + stage; within a slot the
\* statements run in the planned order.
RunsBefore(p, s, i, t, j) ==
  \/ i + p[s].stage < j + p[t].stage
  \/ i + p[s].stage = j + p[t].stage /\ p[s].order < p[t].order

\* The stages between which GetBufferAccessInfo keeps a buffer alive enclose the
\* stages of all its writers and readers.
LEMMA LiveRange ==
  ASSUME NEW b, NEW p, NEW last \in Nat, IsPlan(b, p, last), NEW buf,
         NEW w \in Writers(b, buf), NEW r \in Readers(b, buf)
  PROVE  /\ DefStage(b, p, buf) \in 0 .. p[w].stage
         /\ UseStage(b, p, buf) \in p[r].stage .. last
<1> DEFINE D == {p[s].stage : s \in Writers(b, buf)}
           U == {-1} \union {p[s].stage : s \in Readers(b, buf)}
<1>1. \A s \in Writers(b, buf) \union Readers(b, buf) : p[s].stage \in 0 .. last
  BY DEF IsPlan, Writers, Readers
<1>2. D \in SUBSET Nat /\ p[w].stage \in D
  BY SMTT(30), <1>1
<1>3. Min(D) \in Nat /\ Min(D) <= p[w].stage
  BY <1>2, MinLemma
<1>4. U \in SUBSET (-1 .. last) /\ p[r].stage \in U
  BY SMTT(30), <1>1
<1>5. Max(U) \in -1 .. last /\ p[r].stage <= Max(U)
  BY <1>4, MaxLemma
<1> QED BY SMTT(30), <1>1, <1>3, <1>5 DEF DefStage, UseStage

\* Two iterations with the same version are at least as far apart as there are
\* versions.
LEMMA SameVersion ==
  ASSUME NEW V \in Nat \ {0}, NEW i \in Int, NEW j \in Int, i < j, i % V = j % V
  PROVE  j - i >= V
<1> DEFINE a == i \div V
           c == j \div V
<1>1. a \in Int /\ c \in Int
  BY SMTT(30)
<1>2. i = V * a + (i % V) /\ j = V * c + (j % V) /\ i % V \in Int
  BY SMTT(30)
<1> HIDE DEF a, c
<1>3. j - i = V * (c - a)
  BY SMTT(30), <1>1, <1>2
<1>4. c - a \in Int /\ V * (c - a) > 0
  BY SMTT(30), <1>1, <1>3
<1>5. c - a >= 1
  BY SMTT(30), <1>4
<1> QED BY SMTT(30), <1>3, <1>4, <1>5

\* The versions of a buffer: use - def + 1, or use - def when no writer precedes a
\* reader of a later stage, and at least 1.
LEMMA VersionsLemma ==
  ASSUME NEW b, NEW p, NEW buf \in Allocs, Writers(b, buf) # {},
         DefStage(b, p, buf) \in Int, UseStage(b, p, buf) \in Int
  PROVE  LET V == Versions(b, p, buf)
             live == UseStage(b, p, buf) - DefStage(b, p, buf)
         IN  /\ V \in Nat \ {0}
             /\ \/ V >= live + 1
                \/ V >= live /\ live >= 1 /\ ~NeedMultiVersion(b, p, buf)
<1> DEFINE live == UseStage(b, p, buf) - DefStage(b, p, buf)
           v == ComputeBufferVersions(DefStage(b, p, buf), UseStage(b, p, buf),
                                      NeedMultiVersion(b, p, buf))
<1>1. live \in Int /\ v \in {live, live + 1}
      /\ (v = live + 1 \/ (v = live /\ live >= 1 /\ ~NeedMultiVersion(b, p, buf)))
  BY SMTT(30) DEF ComputeBufferVersions
<1>2. Versions(b, p, buf) = Max({1, v})
  BY DEF Versions
<1> HIDE DEF v
<1>3. v \in Int
  BY SMTT(30), <1>1
<1>4. \E x \in {1, v} : \A y \in {1, v} : x >= y
  BY SMTT(30), <1>3
<1>5. Max({1, v}) \in {1, v} /\ \A y \in {1, v} : Max({1, v}) >= y
  BY <1>4 DEF Max
<1> QED BY SMTT(30), <1>1, <1>2, <1>3, <1>5

\* The versions that ComputeBufferVersions gives a buffer suffice: a later
\* iteration that uses the same version writes it only after every read of the
\* earlier one, also when the optimisation saves a version.
THEOREM VersionsSuffice ==
  ASSUME NEW b, NEW p, NEW last \in Nat, IsPlan(b, p, last), ValidatePipelineBody(b, p),
         NEW buf \in Allocs, NEW w \in Writers(b, buf), NEW r \in Readers(b, buf),
         NEW i \in Int, NEW j \in Int, i < j,
         i % Versions(b, p, buf) = j % Versions(b, p, buf)
  PROVE  RunsBefore(p, r, i, w, j)
<1> DEFINE def == DefStage(b, p, buf)
           use == UseStage(b, p, buf)
           V == Versions(b, p, buf)
<1>1. /\ def \in Int /\ use \in Int /\ def <= p[w].stage /\ p[r].stage <= use
      /\ p[w].stage \in Nat /\ p[r].stage \in Nat
      /\ p[w].order \in Nat /\ p[r].order \in Nat
  <2>1. p[w].stage \in 0 .. last /\ p[r].stage \in 0 .. last
        /\ p[w].order \in Nat /\ p[r].order \in Nat
    BY DEF IsPlan, Writers, Readers
  <2>2. def \in 0 .. p[w].stage /\ use \in p[r].stage .. last
    BY LiveRange
  <2> HIDE DEF def, use
  <2> QED BY SMTT(30), <2>1, <2>2
<1>2. /\ V \in Nat \ {0}
      /\ \/ V >= use - def + 1
         \/ V >= use - def /\ use - def >= 1 /\ ~NeedMultiVersion(b, p, buf)
  BY <1>1, VersionsLemma
<1> HIDE DEF def, use
<1>3. j - i >= V
  BY <1>2, SameVersion
<1> HIDE DEF V
<1>4. CASE V >= use - def + 1
  BY SMTT(30), <1>1, <1>2, <1>3, <1>4 DEF RunsBefore
<1>5. CASE V >= use - def /\ use - def >= 1 /\ ~NeedMultiVersion(b, p, buf)
  <2>1. i + p[r].stage <= j + p[w].stage
    BY SMTT(30), <1>1, <1>2, <1>3, <1>5
  <2>2. ASSUME i + p[r].stage = j + p[w].stage PROVE p[r].order < p[w].order
    <3>1. p[w].stage < p[r].stage
      BY SMTT(30), <1>1, <1>2, <1>3, <1>5, <2>2
    <3>2. ~(p[w].order < p[r].order)
      BY <1>5, <3>1 DEF NeedMultiVersion
    <3>3. p[w].order # p[r].order
      BY SMTT(30), <1>1, <3>1 DEF ValidatePipelineBody, Writers, Readers
    <3> QED BY SMTT(30), <1>1, <3>2, <3>3
  <2> QED BY SMTT(30), <1>1, <2>1, <2>2 DEF RunsBefore
<1> QED BY <1>2, <1>4, <1>5

\* A tile reaches its reader: what the copy w puts into a version at iteration i
\* is there when a later statement r of the body reads it at that iteration.  It
\* has been written, and every other iteration that writes the same version does
\* so before w or after r.
THEOREM TileSurvives ==
  ASSUME NEW b, NEW p, NEW last \in Nat, IsPlan(b, p, last), ValidatePipelineBody(b, p),
         NEW buf \in Allocs, NEW w \in Writers(b, buf), NEW r \in Readers(b, buf),
         w < r, NEW i \in Int, NEW j \in Int, i # j,
         i % Versions(b, p, buf) = j % Versions(b, p, buf)
  PROVE  /\ RunsBefore(p, w, i, r, i)
         /\ RunsBefore(p, w, j, w, i) \/ RunsBefore(p, r, i, w, j)
<1>1. w \in DOMAIN b /\ r \in DOMAIN b /\ DependsOn(b, w, r)
  BY DEF Writers, Readers, DependsOn
<1>2. /\ p[w].stage \in Nat /\ p[r].stage \in Nat
      /\ p[w].order \in Nat /\ p[r].order \in Nat
  BY SMTT(30), <1>1 DEF IsPlan
<1>3. RunsBefore(p, w, i, r, i)
  BY SMTT(30), <1>1, <1>2 DEF ValidatePipelineBody, RunsBefore
<1>4. CASE j < i
  BY SMTT(30), <1>2, <1>3, <1>4 DEF RunsBefore
<1>5. CASE i < j
  BY <1>3, <1>5, VersionsSuffice
<1> QED BY SMTT(30), <1>3, <1>4, <1>5

----------------------------------------------------------------------------
(* The orders and stages of the planner *)

IsBody(b) == Len(b) \in Nat \ {0} /\ DOMAIN b = 1 .. Len(b)

\* The last use of a copy comes after it; other statements have none.
LEMMA LastUseLemma ==
  ASSUME NEW b, IsBody(b), NEW s \in DOMAIN b
  PROVE  /\ LastUse(b, s) \in 0 .. Len(b)
         /\ Prefetched(b, s) => /\ LastUse(b, s) \in s + 1 .. Len(b) /\ CopyStage(b, s)
                                /\ MayConflict(b[s].writes, b[LastUse(b, s)].reads)
<1> DEFINE U == {t \in s + 1 .. Len(b) : /\ CopyStage(b, s)
                                         /\ MayConflict(b[s].writes, b[t].reads)}
           S == {0} \union U
<1>1. Len(b) \in Nat /\ s \in 1 .. Len(b)
  BY DEF IsBody
<1>2. S \in SUBSET (-1 .. Len(b)) /\ S # {}
  BY SMTT(30), <1>1
<1>3. Max(S) \in S /\ LastUse(b, s) = Max(S)
  BY <1>1, <1>2, MaxLemma DEF LastUse
<1>4. S \in SUBSET (0 .. Len(b))
  BY SMTT(30), <1>1
<1>5. Max(S) # 0 => Max(S) \in U
  BY <1>3
<1> QED BY <1>3, <1>4, <1>5 DEF Prefetched

\* The statements that are not prefetched are sorted as in the body.
LEMMA KeyLemma ==
  ASSUME NEW b, IsBody(b), NEW s \in DOMAIN b
  PROVE  /\ OrderKey(b, s) \in Int
         /\ \A t \in DOMAIN b : ~Prefetched(b, s) /\ ~Prefetched(b, t) /\ s < t =>
              OrderKey(b, s) < OrderKey(b, t)
<1>1. Len(b) \in Nat /\ s \in Nat /\ \A t \in DOMAIN b : t \in Nat
  BY SMTT(30) DEF IsBody
<1>2. LastUse(b, s) \in Int
  BY SMTT(30), LastUseLemma
<1>3. OrderKey(b, s) \in Int
  BY SMTT(30), <1>1, <1>2 DEF OrderKey
<1>4. ASSUME NEW t \in DOMAIN b, ~Prefetched(b, s), ~Prefetched(b, t), s < t
      PROVE  OrderKey(b, s) < OrderKey(b, t)
  <2>1. t \in Nat /\ t - s >= 1
    BY SMTT(30), <1>1, <1>4
  <2>2. s * (Len(b) + 1) < t * (Len(b) + 1)
    BY SMTT(30), <1>1, <2>1
  <2> QED BY <1>4, <2>2 DEF OrderKey
<1> QED BY <1>3, <1>4

LEMMA FirstOrderLemma ==
  ASSUME NEW b, IsBody(b), NEW s \in DOMAIN b
  PROVE  /\ FirstOrder(b, s) \in 0 .. Len(b) - 1
         /\ \A t \in DOMAIN b : OrderKey(b, s) < OrderKey(b, t) =>
              FirstOrder(b, s) < FirstOrder(b, t)
<1> DEFINE Less(t) == {u \in DOMAIN b : OrderKey(b, u) < OrderKey(b, t)}
<1>1. IsFiniteSet(DOMAIN b) /\ Cardinality(DOMAIN b) = Len(b) /\ Len(b) \in Nat
  BY SMTT(30), FS_Interval DEF IsBody
<1>2. \A t \in DOMAIN b : OrderKey(b, t) \in Int
  BY KeyLemma
<1>3. ASSUME NEW t \in DOMAIN b
      PROVE  /\ IsFiniteSet(Less(t)) /\ Cardinality(Less(t)) \in Nat
             /\ FirstOrder(b, t) = Cardinality(Less(t))
  BY <1>1, FS_Subset, FS_CardinalityType DEF FirstOrder
<1>4. Cardinality(Less(s)) < Len(b)
  <2>1. s \notin Less(s) /\ Less(s) \in SUBSET DOMAIN b
    BY SMTT(30), <1>2
  <2>2. Less(s) # DOMAIN b
    BY <2>1
  <2> HIDE DEF Less
  <2>3. Cardinality(Less(s)) <= Len(b) /\ Cardinality(Less(s)) # Len(b)
    BY <1>1, <2>1, <2>2, FS_Subset
  <2> QED BY SMTT(30), <1>1, <1>3, <2>3
<1>5. ASSUME NEW t \in DOMAIN b, OrderKey(b, s) < OrderKey(b, t)
      PROVE  Cardinality(Less(s)) < Cardinality(Less(t))
  <2>1. Less(s) \in SUBSET Less(t)
    BY SMTT(30), <1>2, <1>5
  <2>2. s \in Less(t) /\ s \notin Less(s)
    BY SMTT(30), <1>2, <1>5
  <2> HIDE DEF Less
  <2>3. Cardinality(Less(s)) <= Cardinality(Less(t))
        /\ Cardinality(Less(s)) # Cardinality(Less(t))
    BY <1>3, <2>1, <2>2, FS_Subset
  <2> QED BY SMTT(30), <1>3, <2>3
<1> HIDE DEF Less
<1>6. FirstOrder(b, s) \in 0 .. Len(b) - 1
  BY SMTT(30), <1>1, <1>3, <1>4
<1> QED BY <1>3, <1>5, <1>6

\* When CopyStageAtEnd finds the copies behind the other statements they have the last
\* orders.
LEMMA AtEndLemma ==
  ASSUME NEW b, IsBody(b), CopyStageAtEnd(b) > 0
  PROVE  LET c == CopyStageAtEnd(b)
         IN  /\ c \in 0 .. Len(b)
             /\ \A s \in DOMAIN b : IF CopyStage(b, s) THEN FirstOrder(b, s) >= Len(b) - c
                                                       ELSE FirstOrder(b, s) < Len(b) - c
             /\ \A s, t \in DOMAIN b : ~CopyStage(b, s) /\ CopyStage(b, t) =>
                  FirstOrder(b, s) < FirstOrder(b, t)
<1> DEFINE copies == {s \in DOMAIN b : CopyStage(b, s)}
           others == DOMAIN b \ copies
           F == {Len(b)} \union {FirstOrder(b, s) : s \in copies}
           L == {0} \union {FirstOrder(b, s) : s \in others}
           Less(t) == {u \in DOMAIN b : OrderKey(b, u) < OrderKey(b, t)}
           c == Cardinality(copies)
<1>1. IsFiniteSet(DOMAIN b) /\ Cardinality(DOMAIN b) = Len(b) /\ Len(b) \in Nat
  BY SMTT(30), FS_Interval DEF IsBody
<1>2. CopyStageAtEnd(b) = c /\ Min(F) > Max(L)
  BY SMTT(30) DEF CopyStageAtEnd
<1>3. \A s \in DOMAIN b : FirstOrder(b, s) \in 0 .. Len(b) - 1 /\ OrderKey(b, s) \in Int
  BY FirstOrderLemma, KeyLemma
<1>4. Min(F) \in F /\ \A y \in F : Min(F) <= y
  <2>1. F \in SUBSET Nat /\ F # {}
    BY SMTT(30), <1>1, <1>3
  <2> QED BY <2>1, MinLemma
<1>5. Max(L) \in L /\ \A y \in L : y <= Max(L)
  <2>1. L \in SUBSET (-1 .. Len(b)) /\ L # {}
    BY SMTT(30), <1>1, <1>3
  <2> QED BY <1>1, <2>1, MaxLemma
<1>6. ASSUME NEW s \in others, NEW t \in copies
      PROVE  FirstOrder(b, s) < FirstOrder(b, t)
  <2>1. FirstOrder(b, s) \in L /\ FirstOrder(b, t) \in F
    OBVIOUS
  <2>2. FirstOrder(b, s) <= Max(L) /\ Min(F) <= FirstOrder(b, t)
    BY <1>4, <1>5, <2>1
  <2>3. F \subseteq Int /\ L \subseteq Int
    BY SMTT(30), <1>1, <1>3
  <2>4. Max(L) \in Int /\ Min(F) \in Int /\ FirstOrder(b, s) \in Int /\ FirstOrder(b, t) \in Int
    BY <1>4, <1>5, <2>1, <2>3
  <2> HIDE DEF F, L
  <2> QED BY SMTT(30), <1>2, <2>2, <2>4
<1>7. ASSUME NEW s \in others, NEW t \in copies
      PROVE  OrderKey(b, s) < OrderKey(b, t)
  <2>1. FirstOrder(b, s) < FirstOrder(b, t) /\ s \in DOMAIN b /\ t \in DOMAIN b
    BY <1>6
  <2>2. ~(OrderKey(b, t) < OrderKey(b, s))
    <3>1. OrderKey(b, t) < OrderKey(b, s) => FirstOrder(b, t) < FirstOrder(b, s)
      BY <2>1, FirstOrderLemma
    <3> QED BY SMTT(30), <1>3, <2>1, <3>1
  <2>3. OrderKey(b, t) # OrderKey(b, s)
    <3>1. OrderKey(b, t) = OrderKey(b, s) => FirstOrder(b, t) = FirstOrder(b, s)
      BY DEF FirstOrder
    <3> QED BY SMTT(30), <1>3, <2>1, <3>1
  <2> QED BY SMTT(30), <1>3, <2>1, <2>2, <2>3
<1>8. /\ IsFiniteSet(copies) /\ c \in Nat /\ c <= Len(b)
      /\ IsFiniteSet(others) /\ Cardinality(others) = Len(b) - c
  <2>1. IsFiniteSet(copies) /\ IsFiniteSet(others) /\ c <= Len(b)
    BY <1>1, FS_Subset
  <2>2. copies \union others = DOMAIN b /\ copies \intersect others = {}
    OBVIOUS
  <2> HIDE DEF copies, others
  <2>3. Cardinality(copies \union others) = c + Cardinality(others) - Cardinality({})
    BY SMTT(30), <2>1, <2>2, FS_Union
  <2>4. Cardinality({}) = 0 /\ c \in Nat /\ Cardinality(others) \in Nat
    BY <2>1, FS_EmptySet, FS_CardinalityType
  <2> QED BY SMTT(30), <1>1, <2>1, <2>2, <2>3, <2>4
<1>9. ASSUME NEW s \in DOMAIN b
      PROVE  /\ IsFiniteSet(Less(s)) /\ Cardinality(Less(s)) = FirstOrder(b, s)
             /\ s \notin Less(s)
  BY SMTT(30), <1>1, <1>3, FS_Subset DEF FirstOrder
<1>10. ASSUME NEW s \in copies PROVE FirstOrder(b, s) >= Len(b) - c
  <2>1. others \in SUBSET Less(s)
    BY <1>7
  <2>2. s \in DOMAIN b
    OBVIOUS
  <2> HIDE DEF Less, others
  <2> QED BY SMTT(30), <1>8, <1>9, <2>1, <2>2, FS_Subset
<1>11. ASSUME NEW s \in others PROVE FirstOrder(b, s) < Len(b) - c
  <2>1. Less(s) \in SUBSET others
    <3> SUFFICES ASSUME NEW t \in copies PROVE ~(OrderKey(b, t) < OrderKey(b, s))
      OBVIOUS
    <3>1. OrderKey(b, s) < OrderKey(b, t) /\ OrderKey(b, s) \in Int /\ OrderKey(b, t) \in Int
      BY <1>3, <1>7
    <3> QED BY SMTT(30), <3>1
  <2>2. s \in DOMAIN b
    OBVIOUS
  <2>3. Less(s) # others
    BY <1>9, <2>2
  <2> HIDE DEF Less, others
  <2>4. /\ Cardinality(Less(s)) <= Cardinality(others)
        /\ Cardinality(Less(s)) # Cardinality(others)
    BY <1>8, <2>1, <2>3, FS_Subset
  <2> QED BY SMTT(30), <1>1, <1>3, <1>8, <1>9, <2>2, <2>4
<1>12. c \in 0 .. Len(b)
  BY SMTT(30), <1>1, <1>8
<1> QED BY <1>2, <1>6, <1>10, <1>11, <1>12

\* Moving the copies to the front keeps the order among them and among the others.
LEMMA MovedOrder ==
  ASSUME NEW b, IsBody(b), NEW num_stages, Moved(b, num_stages), NEW s \in DOMAIN b
  PROVE  LET c == CopyStageAtEnd(b)
         IN  Order(b, num_stages, s) = IF CopyStage(b, s) THEN FirstOrder(b, s) + c - Len(b)
                                                          ELSE FirstOrder(b, s) + c
<1> DEFINE c == CopyStageAtEnd(b)
           f == FirstOrder(b, s)
           n == Len(b)
<1>1. n \in Nat \ {0} /\ f \in 0 .. n - 1
  BY FirstOrderLemma DEF IsBody
<1>2. c \in 0 .. n /\ IF CopyStage(b, s) THEN f >= n - c ELSE f < n - c
  BY AtEndLemma DEF Moved
<1>3. Order(b, num_stages, s) = (f + c) % n
  BY DEF Order
<1> HIDE DEF c, f, n
<1>4. CASE CopyStage(b, s)
  <2>1. f + c - n \in 0 .. n - 1 /\ f + c = n + (f + c - n)
    BY SMTT(30), <1>1, <1>2, <1>4
  <2>2. (f + c) % n = f + c - n
    BY SMTT(30), <1>1, <1>2, <2>1
  <2> QED BY <1>3, <1>4, <2>2 DEF c, f, n
<1>5. CASE ~CopyStage(b, s)
  <2>1. f + c \in 0 .. n - 1
    BY SMTT(30), <1>1, <1>2, <1>5
  <2>2. (f + c) % n = f + c
    BY SMTT(30), <1>1, <2>1
  <2> QED BY <1>3, <1>5, <2>2 DEF c, f, n
<1> QED BY <1>4, <1>5

LEMMA PlanLemma ==
  ASSUME NEW b, IsBody(b), NEW num_stages \in Nat \ {0}, NEW async
  PROVE  LET p == Plan(b, num_stages, async)
         IN  /\ IsPlan(b, p, num_stages)
             /\ \A s \in DOMAIN b : /\ p[s].order \in 0 .. Len(b) - 1
                                    /\ p[s].stage = 0 <=> Prefetched(b, s)
                                    /\ p[s].async <=> async /\ Prefetched(b, s)
<1> DEFINE p == Plan(b, num_stages, async)
<1> SUFFICES ASSUME NEW s \in DOMAIN b
             PROVE  /\ p[s].order \in 0 .. Len(b) - 1 /\ p[s].stage \in 0 .. num_stages
                    /\ p[s].stage = 0 <=> Prefetched(b, s)
                    /\ p[s].async <=> async /\ Prefetched(b, s)
  BY SMTT(30) DEF IsPlan, IsBody
<1>1. /\ p[s].order = Order(b, num_stages, s) /\ p[s].stage = Stage(b, num_stages, s)
      /\ p[s].async <=> async /\ Stage(b, num_stages, s) = 0
  BY DEF Plan
<1>2. Stage(b, num_stages, s) \in 0 .. num_stages
      /\ (Stage(b, num_stages, s) = 0 <=> Prefetched(b, s))
  BY SMTT(30) DEF Stage, Moved
<1>3. Order(b, num_stages, s) \in 0 .. Len(b) - 1
  <2>1. Len(b) \in Nat \ {0} /\ FirstOrder(b, s) \in 0 .. Len(b) - 1
    BY FirstOrderLemma DEF IsBody
  <2>2. CASE Moved(b, num_stages)
    <3>1. CopyStageAtEnd(b) \in 0 .. Len(b)
      BY <2>2, AtEndLemma DEF Moved
    <3> QED BY SMTT(30), <2>1, <2>2, <3>1 DEF Order
  <2>3. CASE ~Moved(b, num_stages)
    BY <2>1, <2>3 DEF Order
  <2> QED BY <2>2, <2>3
<1> QED BY <1>1, <1>2, <1>3

\* Of two statements that are not prefetched, those of the same stage keep the order of
\* the body.  The stages differ only where the copies have been moved: the later one, a
\* store, is one stage behind and comes first in the slot.
LEMMA KeptLemma ==
  ASSUME NEW b, IsBody(b), NEW num_stages \in Nat \ {0}, NEW async,
         NEW s \in DOMAIN b, NEW t \in DOMAIN b, ~Prefetched(b, s), ~Prefetched(b, t), s < t
  PROVE  LET p == Plan(b, num_stages, async)
         IN  \/ p[s].stage = p[t].stage /\ p[s].order < p[t].order
             \/ p[t].stage = p[s].stage + 1 /\ p[t].order < p[s].order
<1> DEFINE p == Plan(b, num_stages, async)
           Goal == \/ p[s].stage = p[t].stage /\ p[s].order < p[t].order
                   \/ p[t].stage = p[s].stage + 1 /\ p[t].order < p[s].order
<1> SUFFICES Goal
  OBVIOUS
<1>1. /\ p[s].order = Order(b, num_stages, s) /\ p[s].stage = Stage(b, num_stages, s)
      /\ p[t].order = Order(b, num_stages, t) /\ p[t].stage = Stage(b, num_stages, t)
  BY DEF Plan
<1>2. /\ FirstOrder(b, s) \in Nat /\ FirstOrder(b, t) \in Nat /\ Len(b) \in Nat
      /\ FirstOrder(b, s) \in 0 .. Len(b) - 1 /\ FirstOrder(b, t) \in 0 .. Len(b) - 1
      /\ FirstOrder(b, s) < FirstOrder(b, t)
  BY SMTT(30), KeyLemma, FirstOrderLemma DEF IsBody
<1> HIDE DEF p
<1>3. CASE ~Moved(b, num_stages)
  <2>1. p[s].stage = p[t].stage
    BY <1>1, <1>3 DEF Stage
  <2>2. p[s].order < p[t].order
    BY <1>1, <1>2, <1>3 DEF Order
  <2> QED BY <2>1, <2>2
<1>4. CASE Moved(b, num_stages)
  <2> DEFINE c == CopyStageAtEnd(b)
  <2>1. c \in 0 .. Len(b) /\ (CopyStage(b, s) => CopyStage(b, t))
    <3>1. CopyStage(b, s) /\ ~CopyStage(b, t) => FirstOrder(b, t) < FirstOrder(b, s)
      BY <1>4, AtEndLemma DEF Moved
    <3>2. c \in 0 .. Len(b)
      BY <1>4, AtEndLemma DEF Moved
    <3> QED BY SMTT(30), <1>2, <3>1, <3>2
  <2>2. /\ p[s].order = IF CopyStage(b, s) THEN FirstOrder(b, s) + c - Len(b)
                                           ELSE FirstOrder(b, s) + c
        /\ p[t].order = IF CopyStage(b, t) THEN FirstOrder(b, t) + c - Len(b)
                                           ELSE FirstOrder(b, t) + c
    BY <1>1, <1>4, MovedOrder
  <2>3. /\ p[s].stage = IF CopyStage(b, s) THEN num_stages ELSE num_stages - 1
        /\ p[t].stage = IF CopyStage(b, t) THEN num_stages ELSE num_stages - 1
    BY <1>1, <1>4 DEF Stage
  <2> HIDE DEF c
  <2>4. CASE CopyStage(b, s)
    BY SMTT(30), <1>2, <2>1, <2>2, <2>3, <2>4
  <2>5. CASE ~CopyStage(b, s) /\ ~CopyStage(b, t)
    BY SMTT(30), <1>2, <2>1, <2>2, <2>3, <2>5
  <2>6. CASE ~CopyStage(b, s) /\ CopyStage(b, t)
    BY SMTT(30), <1>2, <2>1, <2>2, <2>3, <2>6
  <2> QED BY <2>4, <2>5, <2>6
<1> QED BY <1>3, <1>4

----------------------------------------------------------------------------
(* Accesses to the same version of a buffer *)

\* The order of the original loop.
SeqBefore(s, i, t, j) == i < j \/ (i = j /\ s < t)

\* A prefetched copy is the only statement that writes the buffers it fills.
LEMMA SoleWriter ==
  ASSUME NEW b, IsBody(b), SingleWrite(b), CopiesAreIndependent(b),
         NEW s \in DOMAIN b, Prefetched(b, s), NEW buf \in b[s].writes,
         NEW t \in Writers(b, buf)
  PROVE  t = s
<1>1. t \in DOMAIN b /\ buf \in b[t].writes /\ s \in 1 .. Len(b) /\ t \in 1 .. Len(b)
  BY DEF Writers, IsBody
<1>2. MayConflict(b[t].writes, b[s].writes) /\ MayConflict(b[s].writes, b[t].writes)
  BY <1>1 DEF MayConflict
<1>3. CopyStage(b, s) /\ CopyStage(b, t)
  BY <1>1, <1>2, LastUseLemma DEF CopiesAreIndependent
<1>4. ~(t \in s + 1 .. Len(b)) /\ ~(s \in t + 1 .. Len(b))
  BY <1>1, <1>2, <1>3 DEF SingleWrite
<1>5. Len(b) \in Nat
  BY DEF IsBody
<1> QED BY SMTT(30), <1>1, <1>4, <1>5

\* A statement that reads what a prefetched copy writes comes after it in the body, and
\* is not prefetched itself.
LEMMA ConsumerLemma ==
  ASSUME NEW b, IsBody(b), SingleWrite(b), CopiesAreIndependent(b), DefinedBeforeUse(b),
         NEW s \in DOMAIN b, Prefetched(b, s), NEW buf \in b[s].writes,
         NEW t \in Readers(b, buf)
  PROVE  s < t /\ ~Prefetched(b, t) /\ buf \in Allocs
<1>1. t \in DOMAIN b /\ buf \in b[t].reads /\ t \in Nat /\ DOMAIN b = 1 .. Len(b) /\ Len(b) \in Nat
  BY SMTT(30) DEF Readers, IsBody
<1>2. buf \in Allocs
  BY DEF CopiesAreIndependent
<1>3. PICK u \in 1 .. t - 1 : buf \in b[u].writes
  BY <1>1, <1>2 DEF DefinedBeforeUse
<1>4. u \in DOMAIN b
  BY SMTT(30), <1>1, <1>3
<1>5. u = s
  BY <1>3, <1>4, SoleWriter DEF Writers
<1>6. s \in Writers(b, buf)
  BY DEF Writers
<1>7. ~Prefetched(b, t)
  BY <1>1, <1>6 DEF CopiesAreIndependent
<1> QED BY SMTT(30), <1>1, <1>2, <1>3, <1>5, <1>7

\* The pipelined loop keeps the order of any two accesses to the same version of a
\* buffer of which one at least is a write: the planner's reordering, the stages, and
\* the number of versions break no dependence, flow, anti or output.
THEOREM ConflictsKept ==
  ASSUME NEW b, IsBody(b), NEW num_stages \in Nat \ {0}, NEW async,
         Plannable(b), ValidatePipelineBody(b, Plan(b, num_stages, async)),
         CopiesAreIndependent(b), DefinedBeforeUse(b), NEW buf,
         NEW s \in Writers(b, buf) \union Readers(b, buf),
         NEW t \in Writers(b, buf) \union Readers(b, buf),
         s \in Writers(b, buf) \/ t \in Writers(b, buf),
         NEW i \in Int, NEW j \in Int,
         i % Versions(b, Plan(b, num_stages, async), buf)
           = j % Versions(b, Plan(b, num_stages, async), buf),
         SeqBefore(s, i, t, j)
  PROVE  RunsBefore(Plan(b, num_stages, async), s, i, t, j)
<1> DEFINE p == Plan(b, num_stages, async)
<1> SUFFICES RunsBefore(p, s, i, t, j)
  OBVIOUS
<1>1. s \in DOMAIN b /\ t \in DOMAIN b /\ s \in Nat /\ t \in Nat
  BY SMTT(30) DEF Writers, Readers, IsBody
<1>2. /\ p[s].order \in Nat /\ p[s].stage \in Nat /\ p[t].order \in Nat /\ p[t].stage \in Nat
      /\ p[s].stage = 0 <=> Prefetched(b, s)
      /\ p[t].stage = 0 <=> Prefetched(b, t)
      /\ IsPlan(b, p, num_stages)
  <2>1. /\ IsPlan(b, p, num_stages)
        /\ \A u \in DOMAIN b : p[u].stage = 0 <=> Prefetched(b, u)
    BY SMTT(30), PlanLemma
  <2> QED BY SMTT(30), <1>1, <2>1 DEF IsPlan
<1>3. \A u \in Readers(b, buf) : Prefetched(b, u) => Writers(b, buf) = {}
  BY DEF Readers, CopiesAreIndependent
<1>4. SingleWrite(b)
  BY DEF Plannable
<1>5. \A u, v \in Writers(b, buf) : Prefetched(b, u) => u = v
  BY SMTT(30), <1>4, SoleWriter DEF Writers
<1>6. \A u \in Writers(b, buf), v \in Readers(b, buf) :
        Prefetched(b, u) => u < v /\ ~Prefetched(b, v) /\ buf \in Allocs
  BY <1>4, ConsumerLemma DEF Writers
<1>7. CASE ~Prefetched(b, s) /\ ~Prefetched(b, t)
  <2>1. CASE s < t
    <3>1. \/ p[s].stage = p[t].stage /\ p[s].order < p[t].order
          \/ p[t].stage = p[s].stage + 1 /\ p[t].order < p[s].order
      BY <1>1, <1>7, <2>1, KeptLemma
    <3> HIDE DEF p
    <3> QED BY SMTT(30), <1>1, <1>2, <2>1, <3>1 DEF RunsBefore, SeqBefore
  <2>2. CASE t < s
    <3>1. \/ p[t].stage = p[s].stage /\ p[t].order < p[s].order
          \/ p[s].stage = p[t].stage + 1 /\ p[s].order < p[t].order
      BY <1>1, <1>7, <2>2, KeptLemma
    <3> HIDE DEF p
    <3> QED BY SMTT(30), <1>1, <1>2, <2>2, <3>1 DEF RunsBefore, SeqBefore
  <2>3. CASE s = t
    <3> HIDE DEF p
    <3> QED BY SMTT(30), <1>1, <1>2, <2>3 DEF RunsBefore, SeqBefore
  <2> QED BY SMTT(30), <1>1, <2>1, <2>2, <2>3
<1>8. CASE Prefetched(b, s) /\ ~Prefetched(b, t)
  <2>1. s \in Writers(b, buf) /\ t \in Readers(b, buf) /\ s < t
    BY <1>3, <1>5, <1>6, <1>8
  <2>2. DependsOn(b, s, t)
    BY <2>1 DEF DependsOn, Writers, Readers
  <2> HIDE DEF p
  <2>3. \/ p[s].stage < p[t].stage
        \/ p[s].stage = p[t].stage /\ p[s].order < p[t].order
    BY <1>1, <2>2 DEF ValidatePipelineBody, p
  <2> QED BY SMTT(30), <1>1, <1>2, <1>8, <2>1, <2>3 DEF RunsBefore, SeqBefore
<1>9. CASE ~Prefetched(b, s) /\ Prefetched(b, t)
  <2>1. t \in Writers(b, buf) /\ s \in Readers(b, buf) /\ t < s /\ buf \in Allocs
    BY <1>3, <1>5, <1>6, <1>9
  <2>2. i < j
    BY SMTT(30), <1>1, <2>1 DEF SeqBefore
  <2> QED BY <1>2, <2>1, <2>2, VersionsSuffice
<1>10. CASE Prefetched(b, s) /\ Prefetched(b, t)
  <2>1. s = t
    BY <1>3, <1>5, <1>10
  <2> HIDE DEF p
  <2> QED BY SMTT(30), <1>1, <1>2, <2>1 DEF RunsBefore, SeqBefore
<1> QED BY <1>7, <1>8, <1>9, <1>10

----------------------------------------------------------------------------
(* The commit groups of the asynchronous copies *)

\* What ValidatePipelineBody leaves of the plans: every statement has an order of its own.
Ordered(b, p) ==
  /\ \A s \in DOMAIN b : p[s].order \in 0 .. Len(b) - 1
  /\ \A s, t \in DOMAIN b : p[s].order = p[t].order => s = t

\* Counting the elements of S up to t numbers them from 1 to the size of S.
LEMMA RankLemma ==
  ASSUME NEW S, IsFiniteSet(S), NEW key \in [S -> Nat],
         \A s, t \in S : key[s] = key[t] => s = t
  PROVE  {Cardinality({u \in S : key[u] <= key[t]}) : t \in S} = 1 .. Cardinality(S)
<1> DEFINE UpTo(t) == {u \in S : key[u] <= key[t]}
           n == Cardinality(S)
           rank == [t \in S |-> Cardinality(UpTo(t))]
<1>1. n \in Nat
  BY FS_CardinalityType
<1>2. ASSUME NEW t \in S
      PROVE  /\ IsFiniteSet(UpTo(t)) /\ Cardinality(UpTo(t)) \in Nat /\ t \in UpTo(t)
             /\ Cardinality(UpTo(t)) \in 1 .. n
  <2>1. UpTo(t) \in SUBSET S /\ t \in UpTo(t)
    BY SMTT(30)
  <2> HIDE DEF UpTo
  <2>2. IsFiniteSet(UpTo(t)) /\ Cardinality(UpTo(t)) <= n
    BY <2>1, FS_Subset
  <2>3. Cardinality(UpTo(t)) \in Nat /\ Cardinality(UpTo(t)) # 0
    BY <2>1, <2>2, FS_CardinalityType, FS_EmptySet
  <2> QED BY SMTT(30), <1>1, <2>1, <2>2, <2>3
<1>3. ASSUME NEW s \in S, NEW t \in S, key[s] < key[t]
      PROVE  Cardinality(UpTo(s)) < Cardinality(UpTo(t))
  <2>1. UpTo(s) \in SUBSET UpTo(t) /\ t \notin UpTo(s)
    BY SMTT(30), <1>3
  <2>2. t \in UpTo(t)
    BY <1>2
  <2> HIDE DEF UpTo
  <2>3. /\ Cardinality(UpTo(s)) <= Cardinality(UpTo(t))
        /\ Cardinality(UpTo(s)) # Cardinality(UpTo(t))
    BY <1>2, <2>1, <2>2, FS_Subset
  <2> QED BY SMTT(30), <1>2, <2>3
<1>4. ASSUME NEW s \in S, NEW t \in S, s # t
      PROVE  Cardinality(UpTo(s)) # Cardinality(UpTo(t))
  <2>1. key[s] < key[t] \/ key[t] < key[s]
    BY SMTT(30), <1>4
  <2> HIDE DEF UpTo
  <2> QED BY SMTT(30), <1>2, <1>3, <2>1
<1> HIDE DEF UpTo
<1>5. rank \in [S -> 1 .. n] /\ \A t \in S : rank[t] = Cardinality(UpTo(t))
  BY <1>2
<1> HIDE DEF rank, n
<1>6. rank \in Injection(S, 1 .. n)
  BY <1>4, <1>5 DEF Injection, IsInjective
<1>7. IsFiniteSet(1 .. n) /\ Cardinality(1 .. n) = n
  BY SMTT(30), <1>1, FS_Interval
<1>8. rank \in Surjection(S, 1 .. n)
  BY <1>6, <1>7, FS_Injection DEF n
<1>9. ASSUME NEW k \in 1 .. n PROVE \E t \in S : k = Cardinality(UpTo(t))
  <2>1. \E t \in S : rank[t] = k
    BY <1>8 DEF Surjection
  <2> QED BY <1>5, <2>1
<1>10. {Cardinality(UpTo(t)) : t \in S} = 1 .. n
  BY <1>2, <1>9
<1> QED BY <1>10 DEF UpTo, n

\* The groups are numbered from 1, in the order of the slot.
LEMMA GroupLemma ==
  ASSUME NEW b, IsBody(b), NEW p, Ordered(b, p)
  PROVE  LET G == Cardinality(CommitGroups(b, p))
         IN  /\ G \in Nat /\ CommitGroups(b, p) = 1 .. G
             /\ \A s \in Async(b, p) : CommitGroup(b, p, s) \in 1 .. G
             /\ \A s, t \in Async(b, p) : p[s].order <= p[t].order =>
                  CommitGroup(b, p, s) <= CommitGroup(b, p, t)
             /\ \A s, t \in Async(b, p) : p[s].order < p[t].order /\ StartsGroup(b, p, t) =>
                  CommitGroup(b, p, s) < CommitGroup(b, p, t)
<1> DEFINE A == Async(b, p)
           St == {t \in A : StartsGroup(b, p, t)}
           UpTo(s) == {u \in St : p[u].order <= p[s].order}
           key == [s \in St |-> p[s].order]
           CG(s) == CommitGroup(b, p, s)
<1>1. IsFiniteSet(DOMAIN b) /\ A \in SUBSET DOMAIN b /\ St \in SUBSET A
  BY SMTT(30), FS_Interval DEF IsBody, Async
<1>2. \A s \in A : p[s].order \in Nat
  BY SMTT(30), <1>1 DEF Ordered
<1>3. IsFiniteSet(St)
  BY <1>1, FS_Subset
<1>4. ASSUME NEW s \in A
      PROVE  /\ CG(s) = Cardinality(UpTo(s)) /\ IsFiniteSet(UpTo(s)) /\ CG(s) \in Nat
  <2>1. UpTo(s) = {t \in Async(b, p) : StartsGroup(b, p, t) /\ p[t].order <= p[s].order}
    OBVIOUS
  <2>2. UpTo(s) \in SUBSET St
    OBVIOUS
  <2>3. IsFiniteSet(UpTo(s)) /\ CG(s) = Cardinality(UpTo(s))
    BY <1>3, <2>1, <2>2, FS_Subset DEF CommitGroup
  <2> HIDE DEF UpTo, CG
  <2> QED BY <2>3, FS_CardinalityType
<1>5. ASSUME NEW s \in A, NEW t \in A, p[s].order <= p[t].order
      PROVE  CG(s) <= CG(t)
  <2>1. UpTo(s) \in SUBSET UpTo(t)
    BY SMTT(30), <1>2, <1>1, <1>5
  <2> HIDE DEF UpTo, CG
  <2> QED BY <1>4, <2>1, FS_Subset
<1>6. ASSUME NEW s \in A, NEW t \in St, p[s].order < p[t].order
      PROVE  CG(s) < CG(t)
  <2>1. UpTo(s) \in SUBSET UpTo(t) /\ t \in UpTo(t) /\ t \notin UpTo(s)
    BY SMTT(30), <1>1, <1>2, <1>6
  <2> HIDE DEF UpTo, CG
  <2>2. CG(s) <= CG(t) /\ CG(s) # CG(t)
    BY SMTT(30), <1>1, <1>4, <2>1, FS_Subset
  <2> QED BY SMTT(30), <1>1, <1>4, <2>2
<1>7. ASSUME NEW s \in A PROVE \E t \in St : CG(t) = CG(s)
  <2> DEFINE first == {p[u].order : u \in A}
             last == {p[u].order : u \in UpTo(s)}
  <2>1. first \in SUBSET Nat /\ first # {}
    BY <1>2
  <2>2. PICK u \in A : \A v \in A : p[u].order <= p[v].order
    <3>1. PICK x \in first : \A y \in first : x <= y
      BY <2>1, SmallestLemma
    <3> QED BY <3>1
  <2>3. ~AsyncBetween(b, p, 0, p[u].order - 1)
    BY SMTT(30), <1>2, <2>2 DEF AsyncBetween
  <2>4. u \in UpTo(s)
    BY <2>2, <2>3 DEF StartsGroup
  <2>5. last \in SUBSET (-1 .. p[s].order) /\ last # {}
    BY SMTT(30), <1>1, <1>2, <2>4
  <2>6. Max(last) \in last /\ \A y \in last : y <= Max(last)
    BY <1>2, <2>5, MaxLemma
  <2>7. PICK t \in UpTo(s) : \A v \in UpTo(s) : p[v].order <= p[t].order
    BY <2>6
  <2>8. UpTo(t) = UpTo(s)
    BY SMTT(30), <1>1, <1>2, <2>7
  <2>9. t \in St /\ t \in A
    BY <1>1
  <2> HIDE DEF UpTo, CG
  <2> QED BY <1>4, <2>8, <2>9
<1>8. {Cardinality({u \in St : key[u] <= key[t]}) : t \in St} = 1 .. Cardinality(St)
  <2>1. key \in [St -> Nat] /\ \A s, t \in St : key[s] = key[t] => s = t
    BY <1>1, <1>2 DEF Ordered
  <2> HIDE DEF key, St
  <2> QED BY <1>3, <2>1, RankLemma
<1>9. CommitGroups(b, p) = 1 .. Cardinality(St)
  <2>1. ASSUME NEW t \in St PROVE {u \in St : key[u] <= key[t]} = UpTo(t)
    OBVIOUS
  <2>2. {Cardinality({u \in St : key[u] <= key[t]}) : t \in St} = {CG(t) : t \in St}
    BY <1>1, <1>4, <2>1
  <2>3. {CG(s) : s \in A} = {CG(t) : t \in St}
    <3> HIDE DEF CG
    <3> QED BY <1>1, <1>7
  <2>4. CommitGroups(b, p) = {CG(s) : s \in A}
    BY DEF CommitGroups
  <2> QED BY <1>8, <2>2, <2>3, <2>4
<1>10. Cardinality(St) \in Nat /\ Cardinality(CommitGroups(b, p)) = Cardinality(St)
  <2>1. Cardinality(St) \in Nat
    BY <1>3, FS_CardinalityType
  <2> HIDE DEF St
  <2> QED BY SMTT(30), <1>9, <2>1, FS_Interval
<1>11. \A s \in A : CG(s) \in CommitGroups(b, p)
  BY DEF CommitGroups
<1> QED BY <1>5, <1>6, <1>9, <1>10, <1>11

\* The statements before the place o of a slot that commit a group.
CommitsBefore(b, p, o) == {s \in Async(b, p) : Commits(b, p, s) /\ p[s].order < o}

\* The members of a group have a first and a last.
LEMMA GroupEnds ==
  ASSUME NEW b, IsBody(b), NEW p, Ordered(b, p), NEW g \in CommitGroups(b, p)
  PROVE  LET O == GroupOrders(b, p, g)
         IN  /\ O \in SUBSET (0 .. Len(b) - 1) /\ Max(O) \in O /\ Min(O) \in O
             /\ \A y \in O : Min(O) <= y /\ y <= Max(O)
             /\ \E s \in Async(b, p) : CommitGroup(b, p, s) = g /\ p[s].order = Max(O)
             /\ \E s \in Async(b, p) : CommitGroup(b, p, s) = g /\ p[s].order = Min(O)
<1> DEFINE O == GroupOrders(b, p, g)
<1>1. Len(b) \in Nat /\ Async(b, p) \subseteq DOMAIN b
  BY DEF IsBody, Async
<1>2. O = {p[s].order : s \in {t \in Async(b, p) : CommitGroup(b, p, t) = g}}
  BY DEF GroupOrders
<1>3. O \in SUBSET (0 .. Len(b) - 1) /\ O # {}
  BY SMTT(30), <1>1, <1>2 DEF Ordered, CommitGroups
<1>4. O \in SUBSET Nat /\ O \in SUBSET (-1 .. Len(b))
  BY SMTT(30), <1>1, <1>3
<1> HIDE DEF O
<1>5. Max(O) \in O /\ \A y \in O : y <= Max(O)
  BY <1>1, <1>3, <1>4, MaxLemma
<1>6. Min(O) \in O /\ \A y \in O : Min(O) <= y
  BY <1>3, <1>4, MinLemma
<1>7. \A x \in O : \E s \in Async(b, p) : CommitGroup(b, p, s) = g /\ p[s].order = x
  BY <1>2
<1> QED BY <1>3, <1>5, <1>6, <1>7 DEF O

\* Each group is committed once: as many commits come before o as groups end before it.
LEMMA ClosedLemma ==
  ASSUME NEW b, IsBody(b), NEW p, Ordered(b, p), NEW o \in Nat
  PROVE  LET C == CommitsBefore(b, p, o)
         IN  /\ IsFiniteSet(C) /\ Cardinality(C) \in Nat
             /\ Cardinality(C) =
                  Cardinality({g \in CommitGroups(b, p) : Max(GroupOrders(b, p, g)) < o})
<1> DEFINE C == CommitsBefore(b, p, o)
           T == {g \in CommitGroups(b, p) : Max(GroupOrders(b, p, g)) < o}
           f == [c \in C |-> CommitGroup(b, p, c)]
<1>1. IsFiniteSet(C) /\ C \subseteq Async(b, p) /\ Async(b, p) \subseteq DOMAIN b
  <2>1. IsFiniteSet(DOMAIN b)
    BY SMTT(30), FS_Interval DEF IsBody
  <2>2. C \subseteq Async(b, p) /\ Async(b, p) \subseteq DOMAIN b
    BY DEF Async, CommitsBefore
  <2>3. C \in SUBSET DOMAIN b
    BY <2>2
  <2> HIDE DEF C
  <2> QED BY <2>1, <2>2, <2>3, FS_Subset
<1>2. \A c \in C : /\ p[c].order = Max(GroupOrders(b, p, CommitGroup(b, p, c)))
                   /\ p[c].order < o /\ CommitGroup(b, p, c) \in CommitGroups(b, p)
  BY DEF CommitsBefore, Commits, CommitGroups
<1>3. f \in [C -> T]
  BY <1>2
<1>4. ASSUME NEW c \in C, NEW d \in C, f[c] = f[d] PROVE c = d
  <2>1. p[c].order = p[d].order
    BY <1>2, <1>4
  <2> QED BY <1>1, <2>1 DEF Ordered
<1>5. ASSUME NEW g \in T PROVE \E c \in C : f[c] = g
  <2>1. PICK s \in Async(b, p) : /\ CommitGroup(b, p, s) = g
                                 /\ p[s].order = Max(GroupOrders(b, p, g))
    BY GroupEnds
  <2>2. s \in C
    BY <2>1 DEF CommitsBefore, Commits
  <2> QED BY <2>1, <2>2
<1> HIDE DEF C, T, f
<1>6. f \in Bijection(C, T)
  BY <1>3, <1>4, <1>5 DEF Bijection, Injection, Surjection, IsInjective
<1>7. ExistsBijection(C, T)
  BY <1>6 DEF ExistsBijection
<1>8. Cardinality(T) = Cardinality(C) /\ Cardinality(C) \in Nat
  BY <1>1, <1>7, FS_Bijection, FS_CardinalityType
<1> QED BY <1>1, <1>8 DEF C, T

\* All the groups have been committed at the end of the slot; those before its own when a
\* copy is issued; those that do not come after it when a consumer starts.
LEMMA CommitLemma ==
  ASSUME NEW b, IsBody(b), NEW p, Ordered(b, p)
  PROVE  LET G    == Cardinality(CommitGroups(b, p))
             K(o) == Cardinality(CommitsBefore(b, p, o))
         IN  /\ K(0) = 0 /\ K(Len(b)) = G
             /\ \A s \in Async(b, p) : K(p[s].order) = CommitGroup(b, p, s) - 1
             /\ \A t \in DOMAIN b \ Async(b, p) : ReadsAsync(b, p, t) =>
                  K(p[t].order) = G - GroupsAfter(b, p, t)
<1> DEFINE G == Cardinality(CommitGroups(b, p))
           E(o) == {g \in CommitGroups(b, p) : Max(GroupOrders(b, p, g)) < o}
           K(o) == Cardinality(CommitsBefore(b, p, o))
           CG(s) == CommitGroup(b, p, s)
<1>1. /\ G \in Nat /\ CommitGroups(b, p) = 1 .. G
      /\ \A s \in Async(b, p) : CG(s) \in 1 .. G
      /\ \A s, t \in Async(b, p) : p[s].order <= p[t].order => CG(s) <= CG(t)
      /\ \A s, t \in Async(b, p) : p[s].order < p[t].order /\ StartsGroup(b, p, t) =>
            CG(s) < CG(t)
  BY GroupLemma
<1>2. Len(b) \in Nat /\ Async(b, p) \subseteq DOMAIN b
      /\ \A s \in DOMAIN b : p[s].order \in 0 .. Len(b) - 1 /\ p[s].order \in Nat
  BY SMTT(30) DEF IsBody, Async, Ordered
<1>3. \A o \in Nat : K(o) = Cardinality(E(o))
  BY ClosedLemma
<1>4. ASSUME NEW g \in 1 .. G
      PROVE  \E s \in Async(b, p) :
               /\ CG(s) = g /\ p[s].order = Max(GroupOrders(b, p, g))
               /\ \A u \in Async(b, p) : CG(u) = g => p[u].order <= p[s].order
  <2>1. PICK s \in Async(b, p) : CG(s) = g /\ p[s].order = Max(GroupOrders(b, p, g))
    BY <1>1, GroupEnds
  <2>2. \A y \in GroupOrders(b, p, g) : y <= p[s].order
    BY SMTT(30), <1>1, <2>1, GroupEnds
  <2>3. \A u \in Async(b, p) : CG(u) = g => p[u].order \in GroupOrders(b, p, g)
    BY DEF GroupOrders
  <2> QED BY <2>1, <2>2, <2>3
<1> HIDE DEF CG, G
<1>5. K(0) = 0
  <2>1. CommitsBefore(b, p, 0) = {}
    BY SMTT(30), <1>2 DEF CommitsBefore
  <2> QED BY <2>1, FS_EmptySet
<1>6. K(Len(b)) = G
  <2>1. E(Len(b)) = 1 .. G
    <3>1. ASSUME NEW g \in 1 .. G PROVE Max(GroupOrders(b, p, g)) < Len(b)
      BY SMTT(30), <1>2, <1>4
    <3> QED BY <1>1, <3>1
  <2>2. Cardinality(1 .. G) = G
    BY SMTT(30), <1>1, FS_Interval
  <2> QED BY <1>2, <1>3, <2>1, <2>2
<1>7. ASSUME NEW s \in Async(b, p) PROVE K(p[s].order) = CG(s) - 1
  <2>1. ASSUME NEW g \in 1 .. G
        PROVE  Max(GroupOrders(b, p, g)) < p[s].order <=> g < CG(s)
    <3>1. PICK u \in Async(b, p) :
            /\ CG(u) = g /\ p[u].order = Max(GroupOrders(b, p, g))
            /\ \A v \in Async(b, p) : CG(v) = g => p[v].order <= p[u].order
      BY <1>4
    <3>2. p[u].order \in Nat /\ p[s].order \in Nat /\ CG(u) \in Int /\ CG(s) \in Int
      BY SMTT(30), <1>1, <1>2
    <3>3. ASSUME p[u].order < p[s].order PROVE CG(u) < CG(s)
      <4>1. CG(u) <= CG(s)
        BY SMTT(30), <1>1, <3>2, <3>3
      <4>2. CG(u) # CG(s)
        BY SMTT(30), <3>1, <3>2, <3>3
      <4> QED BY SMTT(30), <3>2, <4>1, <4>2
    <3>4. ASSUME ~(p[u].order < p[s].order) PROVE ~(CG(u) < CG(s))
      <4>1. CG(s) <= CG(u)
        BY SMTT(30), <1>1, <3>2, <3>4
      <4> QED BY SMTT(30), <3>2, <4>1
    <3> QED BY <3>1, <3>3, <3>4
  <2>2. CG(s) \in 1 .. G /\ p[s].order \in Nat
    BY <1>1, <1>2
  <2>3. E(p[s].order) = 1 .. CG(s) - 1
    BY SMTT(30), <1>1, <2>1, <2>2
  <2>4. Cardinality(1 .. CG(s) - 1) = CG(s) - 1
    BY SMTT(30), <1>1, <2>2, FS_Interval
  <2> QED BY <1>3, <2>2, <2>3, <2>4
<1>8. ASSUME NEW t \in DOMAIN b \ Async(b, p), ReadsAsync(b, p, t)
      PROVE  K(p[t].order) = G - GroupsAfter(b, p, t)
  <2> DEFINE o == p[t].order
             After == {g \in CommitGroups(b, p) : Min(GroupOrders(b, p, g)) > o}
  <2>1. o \in Nat
    BY <1>2
  <2>2. ASSUME NEW u \in Async(b, p), NEW v \in Async(b, p), p[u].order < o, o < p[v].order
        PROVE  CG(u) # CG(v)
    <3> DEFINE W == {p[w].order : w \in {x \in Async(b, p) : o < p[x].order}}
    <3>1. W \in SUBSET Nat /\ W # {}
      BY <1>2, <2>2
    <3>2. PICK x \in W : \A y \in W : x <= y
      BY <3>1, SmallestLemma
    <3>3. PICK w \in Async(b, p) : o < p[w].order /\ p[w].order = x
      OBVIOUS
    <3>4. \A y \in Async(b, p) : o < p[y].order => p[w].order <= p[y].order
      BY <3>2, <3>3
    <3>5. ~AsyncBetween(b, p, o + 1, p[w].order - 1)
      <4> SUFFICES ASSUME NEW y \in Async(b, p), p[y].order \in o + 1 .. p[w].order - 1
                   PROVE  FALSE
        BY DEF AsyncBetween
      <4> HIDE DEF o
      <4>1. p[y].order \in Nat /\ p[w].order \in Nat
        BY <1>2
      <4>2. o < p[y].order
        BY SMTT(30), <2>1, <4>1
      <4>3. p[w].order <= p[y].order
        BY <3>4, <4>2
      <4> QED BY SMTT(30), <4>1, <4>3
    <3>6. StartsGroup(b, p, w)
      BY <1>8, <3>3, <3>5 DEF StartsGroup
    <3>7. p[u].order < p[w].order /\ p[w].order <= p[v].order
      <4> HIDE DEF o
      <4>1. p[u].order \in Nat /\ p[w].order \in Nat
        BY <1>2
      <4>2. p[w].order <= p[v].order
        BY <2>2, <3>4
      <4> QED BY SMTT(30), <2>1, <2>2, <3>3, <4>1, <4>2
    <3>8. CG(u) < CG(w) /\ CG(w) <= CG(v)
      BY <1>1, <3>6, <3>7
    <3>9. CG(u) \in Int /\ CG(w) \in Int /\ CG(v) \in Int
      BY SMTT(30), <1>1
    <3> QED BY SMTT(30), <3>8, <3>9
  <2>3. \A u \in Async(b, p) : p[u].order # o
    BY <1>2 DEF Ordered
  <2>4. ASSUME NEW g \in 1 .. G
        PROVE  Max(GroupOrders(b, p, g)) < o <=> ~(Min(GroupOrders(b, p, g)) > o)
    <3>1. PICK u \in Async(b, p) : CG(u) = g /\ p[u].order = Max(GroupOrders(b, p, g))
      BY <1>4
    <3>2. PICK v \in Async(b, p) : CG(v) = g /\ p[v].order = Min(GroupOrders(b, p, g))
      BY SMTT(30), <1>1, GroupEnds DEF CG
    <3>3. p[v].order <= p[u].order
      BY SMTT(30), <1>1, <3>1, <3>2, GroupEnds
    <3>4. /\ p[u].order \in Nat /\ p[v].order \in Nat /\ p[u].order # o /\ p[v].order # o
          /\ ~(p[v].order < o /\ o < p[u].order)
      BY <1>2, <2>2, <2>3, <3>1, <3>2
    <3> QED BY SMTT(30), <2>1, <3>1, <3>2, <3>3, <3>4
  <2>5. E(o) \union After = 1 .. G /\ E(o) \intersect After = {}
    BY <1>1, <2>4
  <2>6. IsFiniteSet(E(o)) /\ IsFiniteSet(After) /\ Cardinality(1 .. G) = G
    <3>1. IsFiniteSet(1 .. G) /\ Cardinality(1 .. G) = G
      BY SMTT(30), <1>1, FS_Interval
    <3>2. E(o) \in SUBSET (1 .. G) /\ After \in SUBSET (1 .. G)
      BY <1>1
    <3> HIDE DEF E, After
    <3> QED BY <3>1, <3>2, FS_Subset
  <2>7. GroupsAfter(b, p, t) = Cardinality(After)
    BY DEF GroupsAfter
  <2>8. K(o) = Cardinality(E(o))
    BY <1>3, <2>1
  <2> HIDE DEF E, After, K, o
  <2>9. Cardinality(E(o) \union After) =
          Cardinality(E(o)) + Cardinality(After) - Cardinality(E(o) \intersect After)
    BY <2>6, FS_Union
  <2>10. Cardinality(E(o)) \in Nat /\ Cardinality(After) \in Nat /\ Cardinality({}) = 0
    BY <2>6, FS_CardinalityType, FS_EmptySet
  <2>11. G = Cardinality(E(o)) + Cardinality(After) - 0
    BY <2>5, <2>6, <2>9, <2>10
  <2>12. K(o) = G - GroupsAfter(b, p, t)
    BY SMTT(30), <1>1, <2>7, <2>8, <2>10, <2>11
  <2> QED BY <2>12 DEF o
<1> QED BY <1>5, <1>6, <1>7, <1>8 DEF G, CG

\* The groups that a consumer need not wait for are those after the last it depends on.
LEMMA TailLemma ==
  ASSUME NEW b, IsBody(b), NEW p, Ordered(b, p), NEW t \in DOMAIN b, ReadsAsync(b, p, t)
  PROVE  LET D == DependentGroups(b, p, t)
         IN  /\ Max(D) \in D /\ \A d \in D : d <= Max(D)
             /\ D \in SUBSET (1 .. Cardinality(CommitGroups(b, p)))
             /\ IndependentTail(b, p, t) = Cardinality(CommitGroups(b, p)) - Max(D)
<1> DEFINE D == DependentGroups(b, p, t)
           G == Cardinality(CommitGroups(b, p))
           T == {g \in CommitGroups(b, p) : \A d \in D : g > d}
<1>1. /\ G \in Nat /\ CommitGroups(b, p) = 1 .. G
      /\ \A s \in Async(b, p) : CommitGroup(b, p, s) \in 1 .. G
  BY GroupLemma
<1>2. D \in SUBSET (1 .. G)
  BY <1>1 DEF DependentGroups
<1>3. D # {}
  <2>1. PICK s \in Async(b, p) : b[s].writes \intersect b[t].reads # {}
    BY DEF ReadsAsync, AsyncWritten
  <2>2. CommitGroup(b, p, s) \in D
    BY <2>1 DEF DependentGroups
  <2> QED BY <2>2
<1>4. IndependentTail(b, p, t) = Cardinality(T)
  BY DEF IndependentTail
<1> HIDE DEF D, G
<1>5. D \in SUBSET (-1 .. G)
  BY SMTT(30), <1>1, <1>2
<1>6. Max(D) \in D /\ \A d \in D : d <= Max(D)
  BY <1>1, <1>3, <1>5, MaxLemma
<1>7. Max(D) \in 1 .. G
  BY <1>2, <1>6
<1>8. T = Max(D) + 1 .. G
  <2> DEFINE m == Max(D)
  <2>1. \A d \in D : d \in Int /\ d <= m
    BY SMTT(30), <1>1, <1>2, <1>6
  <2>2. m \in D /\ m \in 1 .. G
    BY <1>6, <1>7
  <2> HIDE DEF m
  <2>3. ASSUME NEW g \in 1 .. G PROVE (\A d \in D : g > d) <=> g \in m + 1 .. G
    BY SMTT(30), <1>1, <2>1, <2>2
  <2>4. \A g \in m + 1 .. G : g \in 1 .. G
    BY SMTT(30), <1>1, <2>2
  <2>5. T = m + 1 .. G
    BY <1>1, <2>3, <2>4
  <2> QED BY <2>5 DEF m
<1>9. Cardinality(Max(D) + 1 .. G) = G - Max(D)
  BY SMTT(30), <1>1, <1>7, FS_Interval
<1> QED BY <1>2, <1>4, <1>6, <1>8, <1>9 DEF D, G

\* One place further on in the slot: its statement may commit a group.
LEMMA CommitsStep ==
  ASSUME NEW b, IsBody(b), NEW p, Ordered(b, p), NEW s \in DOMAIN b
  PROVE  Cardinality(CommitsBefore(b, p, p[s].order + 1)) =
           Cardinality(CommitsBefore(b, p, p[s].order))
             + (IF s \in Async(b, p) /\ Commits(b, p, s) THEN 1 ELSE 0)
<1> DEFINE C(o) == CommitsBefore(b, p, o)
           o == p[s].order
<1>1. o \in Nat /\ \A u \in DOMAIN b : p[u].order \in Nat /\ (p[u].order = o => u = s)
  BY SMTT(30) DEF Ordered, IsBody
<1>2. IsFiniteSet(C(o)) /\ Cardinality(C(o)) \in Nat
  BY <1>1, ClosedLemma
<1>3. \A u \in DOMAIN b : p[u].order < o + 1 <=> (p[u].order < o \/ u = s)
  BY SMTT(30), <1>1
<1>4. Async(b, p) \subseteq DOMAIN b /\ s \notin C(o)
  BY SMTT(30), <1>1 DEF Async, CommitsBefore
<1>5. CASE s \in Async(b, p) /\ Commits(b, p, s)
  <2>1. C(o + 1) = C(o) \union {s}
    BY <1>3, <1>4, <1>5 DEF CommitsBefore
  <2> HIDE DEF C, o
  <2>2. Cardinality(C(o + 1)) = Cardinality(C(o)) + 1
    BY <1>2, <1>4, <2>1, FS_AddElement
  <2> QED BY <1>5, <2>2 DEF C, o
<1>6. CASE ~(s \in Async(b, p) /\ Commits(b, p, s))
  <2>1. C(o + 1) = C(o)
    BY <1>3, <1>4, <1>6 DEF CommitsBefore
  <2> HIDE DEF C, o
  <2>2. Cardinality(C(o + 1)) = Cardinality(C(o)) + 0
    BY SMTT(30), <1>2, <2>1
  <2> QED BY <1>6, <2>2 DEF C, o
<1> QED BY <1>5, <1>6
=============================================================================
