---------------------------- MODULE WorkspacePool ----------------------------
(***************************************************************************)
(* The pool of temporary workspaces of one device in one thread:           *)
(* WorkspacePool::Pool of src/src/runtime/workspace_pool.cc.  Operators    *)
(* ask for a workspace and give it back, usually in reverse order; the pool*)
(* keeps what comes back, sorted by size, and asks the device for memory   *)
(* only when nothing it keeps is large enough.  The device may throw at any*)
(* call, to allocate or to free, and may hand out again an address that    *)
(* was freed.                                                              *)
(***************************************************************************)
EXTENDS Integers, SequencesExt, FiniteSetsExt

CONSTANTS
  kWorkspacePageSize,
  Requests,   \* bound: the numbers of bytes that are asked for
  Addresses,  \* bound: the addresses the device hands out
  nullptr,    \* none of them
  MaxHeld     \* bound: workspaces in use at the same time

ASSUME PoolAssumption ==
  /\ kWorkspacePageSize \in Nat \ {0} /\ Requests \subseteq Nat
  /\ nullptr \notin Addresses /\ MaxHeld \in Nat /\ Cardinality(Addresses) > MaxHeld

VARIABLES
  free_list_, allocated_,  \* the lists of entries, each behind a guard of size 0
  heap,                    \* the buffers of the device that are not freed: address -> size
  lost,                    \* those among them that the device threw at instead of freeing
  peak,                    \* the largest number of workspaces in use or asked for so far
  alive                    \* the pool has not been destroyed

vars == <<free_list_, allocated_, heap, lost, peak, alive>>

Entry(data, size) == [data |-> data, size |-> size]
Guard == Entry(nullptr, 0)

Init ==
  /\ free_list_ = <<Guard>> /\ allocated_ = <<Guard>>
  /\ heap = <<>> /\ lost = {}
  /\ peak = 0
  /\ alive = TRUE
-----------------------------------------------------------------------------
\* Whole pages, and at least one.
Rounded(n) ==
  LET r == ((n + kWorkspacePageSize - 1) \div kWorkspacePageSize) * kWorkspacePageSize
  IN  IF r = 0 THEN kWorkspacePageSize ELSE r

\* The first block that is found.
LastFit(nbytes) == Len(free_list_)

\* The search from the end for the smallest block that fits.
SmallestFit(nbytes) ==
  1 + Max({k \in 1 .. Len(free_list_) - 1 : free_list_[k].size < nbytes})

\* Nothing is given up for a larger block.
ChosenIfFits(nbytes) ==
  IF Last(free_list_).size < nbytes THEN 0 ELSE SmallestFit(nbytes)

\* The index of the block that Alloc takes from the free list, 0 if there is none.
Chosen(nbytes) ==
  CASE Len(free_list_) = 1 -> 0
    [] Len(free_list_) = 2 -> 2
    [] Len(free_list_) > 2 /\ Last(free_list_).size < nbytes -> Len(free_list_)
    [] OTHER -> SmallestFit(nbytes)

\* FreeDataSpace and AllocDataSpace of the device, when they do not throw.
Freed(h, as) == [a \in DOMAIN h \ as |-> h[a]]
Allocated(h, a, size) == [x \in DOMAIN h \union {a} |-> IF x = a THEN size ELSE h[x]]

\* Alloc: a free block, or memory from the device, after a block that is too small has
\* been given back to it.  Either call of the device may throw, which ends Alloc.  The
\* block has left the free list by then: if it is FreeDataSpace that throws then nobody
\* has the block any more, and the device may not have freed it.
Alloc(n) ==
  LET nbytes == Rounded(n)
      k      == Chosen(nbytes)
      e      == IF k = 0 THEN Guard ELSE free_list_[k]
      h      == IF e.size < nbytes THEN Freed(heap, {e.data}) ELSE heap
  IN  /\ alive /\ Len(allocated_) <= MaxHeld
      /\ free_list_' = IF k = 0 THEN free_list_ ELSE RemoveAt(free_list_, k)
      /\ peak' = Max({peak, Len(allocated_)})
      /\ \/ /\ e.size >= nbytes
            /\ allocated_' = Append(allocated_, e) /\ UNCHANGED <<heap, lost>>
         \/ /\ e.size < nbytes
            /\ \E a \in Addresses \ DOMAIN h :
                 /\ heap' = Allocated(h, a, nbytes)
                 /\ allocated_' = Append(allocated_, Entry(a, nbytes))
            /\ lost' = lost
         \/ /\ e.size < nbytes
            /\ heap' = h /\ UNCHANGED <<allocated_, lost>>
         \/ /\ e.size < nbytes /\ k # 0
            /\ lost' = lost \union {e.data} /\ UNCHANGED <<allocated_, heap>>
      /\ alive' = alive

\* The three cases of Free.  The entry goes behind the last one that is not larger, or
\* in front of the only one there is when that is not smaller.
Inserted(e) ==
  CASE Last(free_list_).size < e.size -> Append(free_list_, e)
    [] Last(free_list_).size >= e.size /\ Len(free_list_) = 2 ->
         <<free_list_[1], e, free_list_[2]>>
    [] OTHER -> InsertAt(free_list_,
                         1 + Max({k \in DOMAIN free_list_ : free_list_[k].size <= e.size}), e)

\* The entry stays in the list.
NotRemoved(k) == allocated_

Removed(k) == RemoveAt(allocated_, k)

\* Free of a workspace that is in use: the last one, or any of those before it.  (The
\* caller gives back nothing else.)
Free(k) ==
  /\ alive
  /\ allocated_' = Removed(k)
  /\ free_list_' = Inserted(allocated_[k])
  /\ UNCHANGED <<heap, lost, peak, alive>>

\* The thread ends: Release.  (It is called by a destructor: if the device throws here,
\* the process ends.)
Release ==
  /\ alive /\ alive' = FALSE
  /\ heap' = Freed(heap, {free_list_[k].data : k \in 2 .. Len(free_list_)})
  /\ free_list_' = <<>>
  /\ UNCHANGED <<allocated_, lost, peak>>

Next ==
  \/ \E n \in Requests : Alloc(n)
  \/ \E k \in 2 .. Len(allocated_) : Free(k)
  \/ Release

Spec == Init /\ [][Next]_vars
-----------------------------------------------------------------------------
(* Properties *)

Entries(list) == {list[k] : k \in 2 .. Len(list)}

\* The buffers of the device that are in the pool's care.
Pooled == Freed(heap, lost)

\* The variables hold values of their types: a buffer is some whole pages, not none.
TypeOK ==
  /\ \A e \in Entries(free_list_) \union Entries(allocated_) :
       e.data \in Addresses /\ e.size \in Nat \ {0} /\ e.size % kWorkspacePageSize = 0
  /\ DOMAIN heap \subseteq Addresses /\ \A a \in DOMAIN heap : heap[a] \in Nat
  /\ lost \subseteq DOMAIN heap /\ peak \in 0 .. MaxHeld /\ alive \in BOOLEAN

\* Each buffer of the device is in exactly one place of one of the two lists, with its
\* size, and the lists hold no others: no workspace is lent twice or after it was freed,
\* and none is lost when AllocDataSpace throws in the middle of Alloc.  Only a buffer at
\* which FreeDataSpace threw is in neither list, so that it is never lent again.
HeldOnce ==
  /\ Entries(free_list_) \union Entries(allocated_) =
       {Entry(a, Pooled[a]) : a \in DOMAIN Pooled}
  /\ Len(free_list_ \o allocated_) = Cardinality(DOMAIN Pooled) + (IF alive THEN 2 ELSE 1)

\* The pool keeps no more buffers than have been in use, or asked for, at one time: a
\* request that no free buffer can serve replaces one.
NoMoreThanPeak == Cardinality(DOMAIN Pooled) <= peak

\* A buffer that is not freed is in one of the lists, whatever the device does.
NothingLost ==
  DOMAIN heap = {e.data : e \in Entries(free_list_) \union Entries(allocated_)}

\* If a free buffer is large enough, Alloc returns the smallest that is and leaves the
\* device alone; in any case what it returns holds what was asked for.
AllocFits(n) ==
  LET fits == {e \in Entries(free_list_) : e.size >= n}
      got  == Last(allocated_')
  IN  /\ Len(allocated_') > Len(allocated_) => got.size >= n
      /\ fits # {} => /\ heap' = heap /\ got \in fits
                      /\ \A e \in fits : got.size <= e.size
AllocIsTight == [][\A n \in Requests : Alloc(n) => AllocFits(n)]_vars
=============================================================================
