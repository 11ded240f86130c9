----------------------------- MODULE MCPipeline -----------------------------
(***************************************************************************)
(* Loops for PipelineExec: bodies made of tile copies, computations and    *)
(* stores, with two input tiles SA and SB, a temporary L, an accumulator   *)
(* ACC that outlives the loop, and an output O.                            *)
(***************************************************************************)
EXTENDS PipelineExec

MCGlobal == {"GA", "GB", "O"}
MCAllocs == {"SA", "SB", "L"}

Copy(from, to) == [reads |-> {from}, writes |-> {to}, ptr |-> FALSE]
Compute(reads, writes) == [reads |-> reads, writes |-> writes, ptr |-> FALSE]

\* A gemm gets its tiles through tvm_access_ptr.
Gemm(reads, writes) == [reads |-> reads, writes |-> writes, ptr |-> TRUE]

Statements ==
  { Copy("GA", "SA"), Copy("GB", "SB"),
    Compute({"SA", "ACC"}, {"ACC"}),          \* ACC += SA
    Compute({"SB", "ACC"}, {"ACC"}),
    Gemm({"SA", "SB", "ACC"}, {"ACC"}),       \* ACC += SA * SB
    Compute({"SA"}, {"L"}),
    Compute({"L", "SB", "ACC"}, {"ACC"}),
    Copy("ACC", "O"), Copy("L", "O") }

Bodies(n) == UNION {[1 .. k -> Statements] : k \in 2 .. n}

\* Attention: two tiles per iteration, each with its own consumer.
Attention ==
  << Copy("GA", "SA"), Gemm({"SA"}, {"L"}), Compute({"L", "ACC"}, {"L", "ACC"}),
     Copy("GB", "SB"), Gemm({"L", "SB", "ACC"}, {"ACC"}) >>

\* A load whose address is computed in the loop: the passes reject it.
IndirectLoad ==
  << Compute({"ACC"}, {"L"}), Compute({"L", "GA"}, {"SA"}),
     Compute({"SA", "ACC"}, {"ACC"}) >>

----------------------------------------------------------------------------
(* The loops that keep to the conditions of PipelineExec.                  *)

LoopsOf(bodies, stages, asyncs, mins, extents) ==
  [body : bodies, num_stages : stages, async : asyncs, min : mins, extent : extents]

\* A loop without accesses through tvm_access_ptr starts at 1.
Start(l) == (\E s \in DOMAIN l.body : l.body[s].ptr) \/ l.min = 1

WellFormed(b) ==
  /\ DefinedBeforeUse(b)
  /\ CopiesAreIndependent(b)
  /\ \E s \in DOMAIN b : Prefetched(b, s)

MCLoops ==
  { l \in LoopsOf({b \in Bodies(4) : WellFormed(b)}, 1 .. 3, {TRUE}, {0, 1},
                  {1, 2, 4})
            \union LoopsOf({Attention}, 1 .. 3, {TRUE, FALSE}, {0}, {1, 5}) :
      LongEnough(l) /\ PtrFromZero(l) /\ Start(l) }
    \union LoopsOf({IndirectLoad}, 1 .. 3, {TRUE}, {0}, {4})

----------------------------------------------------------------------------
(* Loops outside those conditions. *)

\* One iteration of a loop that loads, computes and stores a tile.
ShortLoops ==
  LoopsOf({<<Copy("GA", "SA"), Compute({"SA"}, {"L"}), Copy("L", "O")>>},
          {2, 3}, {TRUE}, {0}, {1, 2, 3})

\* The tile that is loaded is also used after the loop (it is ACC here), hence
\* allocated outside it.
OuterTileLoops ==
  LoopsOf({<<Copy("GA", "ACC"), Compute({"ACC"}, {"L"}), Copy("L", "O")>>},
          {2}, {TRUE}, {0}, {4})

\* A gemm in a loop that does not start at 0.
OffsetLoops ==
  LoopsOf({<<Copy("GA", "SA"), Gemm({"SA", "ACC"}, {"ACC"})>>},
          {2, 3}, {TRUE}, {1}, {4})
=============================================================================
