------------------------ MODULE WorkspacePoolProofs ------------------------
(***************************************************************************)
(* Proofs about the pool of workspaces, for every page size, every set of  *)
(* requests and of addresses, and any number of workspaces in use.         *)
(***************************************************************************)
EXTENDS WorkspacePool, FiniteSetTheorems, SequenceTheorems, WellFoundedInduction, TLAPS

\* A leaf goes to Zenon unless it names another prover.
USE Zenon

Blocks == [data : Addresses \union {nullptr}, size : Nat]

\* A list of entries behind its guard, in which no buffer occurs twice.
IsList(l) ==
  /\ l \in Seq(Blocks) /\ Len(l) >= 1 /\ l[1] = Guard
  /\ \A i \in 2 .. Len(l) : /\ l[i].data \in Addresses /\ l[i].size > 0
                            /\ l[i].size % kWorkspacePageSize = 0
  /\ \A i, j \in 2 .. Len(l) : l[i].data = l[j].data => i = j

\* The buffers in a list.
Owned(l) == {l[i].data : i \in 2 .. Len(l)}

Sorted(l) == \A i, j \in 1 .. Len(l) : i <= j => l[i].size <= l[j].size

\* The buffers h are those of the two lists, with their sizes, and none is in both.
Holds(h, f, a) ==
  /\ DOMAIN h = Owned(f) \union Owned(a)
  /\ Owned(f) \intersect Owned(a) = {}
  /\ \A i \in 2 .. Len(f) : h[f[i].data] = f[i].size
  /\ \A i \in 2 .. Len(a) : h[a[i].data] = a[i].size

PeakInv ==
  /\ peak \in Nat /\ Len(allocated_) - 1 <= peak
  /\ Len(free_list_) + Len(allocated_) - (IF alive THEN 2 ELSE 1) <= peak

\* What was lost is not freed, and was in the pool once.
LostInv == lost \subseteq Addresses \intersect DOMAIN heap

IInv ==
  /\ alive \in BOOLEAN
  /\ IsList(allocated_)
  /\ alive => IsList(free_list_) /\ Sorted(free_list_)
  /\ ~alive => free_list_ = <<>>
  /\ Holds(Pooled, free_list_, allocated_)
  /\ LostInv
  /\ PeakInv
-----------------------------------------------------------------------------
(* Numbers *)

\* A set of natural numbers that is not empty has a smallest element ...
LEMMA SmallestLemma ==
  ASSUME NEW S \in SUBSET Nat, S # {}
  PROVE  \E x \in S : \A y \in S : x <= y
<1>1. PICK x \in S : \A y \in S : ~(<<y, x>> \in OpToRel(<, Nat))
  BY WFMin, NatLessThanWellFounded
<1>2. ASSUME NEW y \in S PROVE x <= y
  <2>1. <<y, x>> \in Nat \X Nat /\ <<y, x>>[1] = y /\ <<y, x>>[2] = x
    OBVIOUS
  <2>2. y < x => <<y, x>> \in OpToRel(<, Nat)
    BY <2>1 DEF OpToRel
  <2>3. ~(y < x)
    BY <1>1, <2>2
  <2> QED BY SMTT(30), <2>3
<1> QED BY <1>2

\* ... and one that is bounded has a greatest, which Max chooses.
LEMMA MaxLemma ==
  ASSUME NEW n \in Nat, NEW S \in SUBSET (1 .. n), S # {}
  PROVE  Max(S) \in S /\ \A y \in S : y <= Max(S)
<1> DEFINE T == {n - y : y \in S}
<1>1. ASSUME NEW y \in S PROVE y \in Int /\ n - y \in Nat
  BY SMTT(30)
<1>2. T \in SUBSET Nat
  BY <1>1
<1>3. T # {}
  OBVIOUS
<1>4. PICK x \in T : \A y \in T : x <= y
  BY <1>2, <1>3, SmallestLemma
<1>5. PICK m \in S : x = n - m
  OBVIOUS
<1>6. ASSUME NEW y \in S PROVE y <= m
  <2>1. n - m <= n - y
    BY <1>4, <1>5
  <2> QED BY SMTT(30), <1>1, <2>1
<1>7. \E z \in S : \A y \in S : z >= y
  BY <1>1, <1>6
<1>8. Max(S) \in S /\ \A y \in S : Max(S) >= y
  BY <1>7 DEF Max
<1> QED BY <1>1, <1>8

LEMMA DivMod ==
  ASSUME NEW p \in Nat \ {0}, NEW x \in Int
  PROVE  x \div p \in Int /\ x % p \in 0 .. p - 1 /\ x = p * (x \div p) + (x % p)
<1>1. x \div p \in Int /\ x % p \in Int
  BY SMTT(30)
<1>2. 0 <= x % p /\ x % p <= p - 1
  BY SMTT(30)
<1>3. x = p * (x \div p) + (x % p)
  BY SMTT(30)
<1> QED BY SMTT(30), <1>1, <1>2, <1>3

\* Multiples of the page size: rounding up is the smallest that is enough.
LEMMA PagesLemma ==
  ASSUME NEW p \in Nat \ {0}, NEW n \in Nat
  PROVE  LET r == ((n + p - 1) \div p) * p
         IN  /\ r \in Nat /\ r >= n /\ r % p = 0
             /\ \A s \in Nat : s >= n /\ s % p = 0 => s >= r
<1> DEFINE q == (n + p - 1) \div p
           m == (n + p - 1) % p
<1>1. q \in Int /\ m \in 0 .. p - 1 /\ n + p - 1 = p * q + m
  BY SMTT(30)
<1> HIDE DEF q, m
<1>2. p * q >= n /\ p * q \in Int /\ p * q = q * p
  BY SMTT(30), <1>1
<1>3. (q * p) % p = 0
  <2> DEFINE d == (q * p) \div p
             e == (q * p) % p
  <2>1. d \in Int /\ e \in 0 .. p - 1 /\ q * p = p * d + e
    BY <1>2, DivMod
  <2> HIDE DEF d, e
  <2>2. p * (q - d) = e /\ q - d \in Int
    BY SMTT(30), <1>1, <1>2, <2>1
  <2>3. q - d = 0
    BY SMTT(30), <2>1, <2>2
  <2>4. e = 0
    BY SMTT(30), <2>2, <2>3
  <2> QED BY <2>4 DEF e
<1>4. ASSUME NEW s \in Nat, s >= n, s % p = 0 PROVE s >= q * p
  <2> DEFINE t == s \div p
  <2>1. t \in Int /\ s = p * t
    BY SMTT(30), <1>4
  <2> HIDE DEF t
  <2>2. p * (q - t) <= p - 1 /\ q - t \in Int
    BY SMTT(30), <1>1, <1>4, <2>1
  <2>3. q - t <= 0
    BY SMTT(30), <2>2
  <2> QED BY SMTT(30), <1>1, <2>1, <2>3
<1> QED BY SMTT(30), <1>2, <1>3, <1>4 DEF q

LEMMA RoundedLemma ==
  ASSUME NEW n \in Nat
  PROVE  /\ Rounded(n) \in Nat \ {0} /\ Rounded(n) >= n
         /\ Rounded(n) % kWorkspacePageSize = 0
         /\ \A s \in Nat \ {0} : s >= n /\ s % kWorkspacePageSize = 0 => s >= Rounded(n)
<1> DEFINE p == kWorkspacePageSize
           r == ((n + p - 1) \div p) * p
<1>1. p \in Nat \ {0}
  BY PoolAssumption
<1>2. /\ r \in Nat /\ r >= n /\ r % p = 0
      /\ \A s \in Nat : s >= n /\ s % p = 0 => s >= r
  BY <1>1, PagesLemma
<1>3. Rounded(n) = IF r = 0 THEN p ELSE r
  BY DEF Rounded
<1>4. p % p = 0 /\ \A s \in Nat \ {0} : s % p = 0 => s >= p
  BY SMTT(30), <1>1
<1> HIDE DEF r, p
<1>5. CASE r = 0
  BY SMTT(30), <1>1, <1>2, <1>3, <1>4, <1>5 DEF p
<1>6. CASE r # 0
  BY <1>1, <1>2, <1>3, <1>6 DEF p
<1> QED BY <1>5, <1>6
-----------------------------------------------------------------------------
(* Lists *)

LEMMA RemoveAtLemma ==
  ASSUME NEW S, NEW l \in Seq(S), NEW k \in 1 .. Len(l)
  PROVE  /\ RemoveAt(l, k) \in Seq(S) /\ Len(RemoveAt(l, k)) = Len(l) - 1
         /\ \A i \in 1 .. Len(l) - 1 :
              RemoveAt(l, k)[i] = IF i < k THEN l[i] ELSE l[i + 1]
<1> DEFINE a == SubSeq(l, 1, k - 1)
           b == SubSeq(l, k + 1, Len(l))
<1>1. Len(l) \in Nat /\ \A i \in 1 .. Len(l) : l[i] \in S
  BY LenProperties
<1>2. /\ a \in Seq(S) /\ Len(a) = k - 1
      /\ \A i \in 1 .. k - 1 : a[i] = l[i]
  <2>1. \A i \in 1 .. k - 1 : l[i] \in S
    BY SMTT(30), <1>1
  <2> QED BY SMTT(30), <1>1, <2>1, SubSeqProperties
<1>3. /\ b \in Seq(S) /\ Len(b) = Len(l) - k
      /\ \A i \in 1 .. Len(l) - k : b[i] = l[k + i]
  <2>1. \A i \in k + 1 .. Len(l) : l[i] \in S
    BY SMTT(30), <1>1
  <2>2. /\ b \in Seq(S) /\ Len(b) = IF k + 1 <= Len(l) THEN Len(l) - (k + 1) + 1 ELSE 0
        /\ \A i \in 1 .. Len(l) - (k + 1) + 1 : b[i] = l[(k + 1) + i - 1]
    BY SMTT(30), <1>1, <2>1, SubSeqProperties
  <2> QED BY SMTT(30), <1>1, <2>2
<1> HIDE DEF a, b
<1>4. /\ a \o b \in Seq(S) /\ Len(a \o b) = Len(a) + Len(b)
      /\ \A i \in 1 .. Len(a) + Len(b) :
           (a \o b)[i] = IF i <= Len(a) THEN a[i] ELSE b[i - Len(a)]
  BY <1>2, <1>3, ConcatProperties
<1>5. RemoveAt(l, k) = a \o b
  BY DEF RemoveAt, a, b
<1>6. ASSUME NEW i \in 1 .. Len(l) - 1
      PROVE  (a \o b)[i] = IF i < k THEN l[i] ELSE l[i + 1]
  <2>1. i \in 1 .. Len(a) + Len(b)
    BY SMTT(30), <1>1, <1>2, <1>3
  <2>2. CASE i < k
    BY SMTT(30), <1>2, <1>4, <2>1, <2>2
  <2>3. CASE i >= k
    <3>1. (a \o b)[i] = b[i - (k - 1)]
      BY SMTT(30), <1>2, <1>4, <2>1, <2>3
    <3>2. i - (k - 1) \in 1 .. Len(l) - k /\ k + (i - (k - 1)) = i + 1
      BY SMTT(30), <1>1, <2>3
    <3>3. b[i - (k - 1)] = l[k + (i - (k - 1))]
      BY <1>3, <3>2
    <3>4. ~(i < k)
      BY SMTT(30), <1>1, <2>3
    <3> QED BY <3>1, <3>2, <3>3, <3>4
  <2>4. i < k \/ i >= k
    BY SMTT(30), <1>1
  <2> QED BY <2>2, <2>3, <2>4
<1>7. Len(a \o b) = Len(l) - 1
  BY SMTT(30), <1>1, <1>2, <1>3, <1>4
<1> QED BY <1>4, <1>5, <1>6, <1>7

LEMMA InsertAtLemma ==
  ASSUME NEW S, NEW l \in Seq(S), NEW k \in 1 .. Len(l) + 1, NEW e \in S
  PROVE  /\ InsertAt(l, k, e) \in Seq(S) /\ Len(InsertAt(l, k, e)) = Len(l) + 1
         /\ \A i \in 1 .. Len(l) + 1 :
              InsertAt(l, k, e)[i] = IF i < k THEN l[i] ELSE IF i = k THEN e ELSE l[i - 1]
<1> DEFINE a == SubSeq(l, 1, k - 1)
           b == SubSeq(l, k, Len(l))
           c == a \o <<e>>
<1>1. Len(l) \in Nat /\ \A i \in 1 .. Len(l) : l[i] \in S
  BY LenProperties
<1>2. /\ a \in Seq(S) /\ Len(a) = k - 1
      /\ \A i \in 1 .. k - 1 : a[i] = l[i]
  <2>1. \A i \in 1 .. k - 1 : l[i] \in S
    BY SMTT(30), <1>1
  <2> QED BY SMTT(30), <1>1, <2>1, SubSeqProperties
<1>3. /\ b \in Seq(S) /\ Len(b) = Len(l) - k + 1
      /\ \A i \in 1 .. Len(l) - k + 1 : b[i] = l[k + i - 1]
  <2>1. \A i \in k .. Len(l) : l[i] \in S
    BY SMTT(30), <1>1
  <2> QED BY SMTT(30), <1>1, <2>1, SubSeqProperties
<1> HIDE DEF a, b
<1>4. <<e>> \in Seq(S) /\ Len(<<e>>) = 1 /\ <<e>>[1] = e
  BY SMTT(30)
<1>5. /\ c \in Seq(S) /\ Len(c) = k
      /\ \A i \in 1 .. k : c[i] = IF i < k THEN l[i] ELSE e
  <2>1. /\ c \in Seq(S) /\ Len(c) = Len(a) + 1
        /\ \A i \in 1 .. Len(a) + 1 :
             c[i] = IF i <= Len(a) THEN a[i] ELSE <<e>>[i - Len(a)]
    BY SMTT(30), <1>2, <1>4, ConcatProperties
  <2> QED BY SMTT(30), <1>2, <1>4, <2>1
<1> HIDE DEF c
<1>6. /\ c \o b \in Seq(S) /\ Len(c \o b) = Len(c) + Len(b)
      /\ \A i \in 1 .. Len(c) + Len(b) :
           (c \o b)[i] = IF i <= Len(c) THEN c[i] ELSE b[i - Len(c)]
  BY <1>3, <1>5, ConcatProperties
<1>7. InsertAt(l, k, e) = c \o b
  BY DEF InsertAt, a, b, c
<1> QED BY SMTT(30), <1>1, <1>3, <1>5, <1>6, <1>7

\* A block that leaves a list: the others stay, in order.
LEMMA RemovedList ==
  ASSUME NEW l, IsList(l), NEW k \in 2 .. Len(l)
  PROVE  /\ IsList(RemoveAt(l, k)) /\ Len(RemoveAt(l, k)) = Len(l) - 1
         /\ Owned(RemoveAt(l, k)) = Owned(l) \ {l[k].data}
         /\ \A i \in 2 .. Len(l) - 1 : \E j \in 2 .. Len(l) : RemoveAt(l, k)[i] = l[j]
         /\ Sorted(l) => Sorted(RemoveAt(l, k))
<1> DEFINE r == RemoveAt(l, k)
<1>1. /\ l \in Seq(Blocks) /\ Len(l) \in Nat /\ Len(l) >= 2
      /\ r \in Seq(Blocks) /\ Len(r) = Len(l) - 1
      /\ \A i \in 1 .. Len(l) - 1 : r[i] = IF i < k THEN l[i] ELSE l[i + 1]
  BY SMTT(30), RemoveAtLemma, LenProperties DEF IsList
<1> HIDE DEF r
<1>2. \A i \in 2 .. Len(r) : \E j \in 2 .. Len(l) : r[i] = l[j] /\ j # k
  BY SMTT(30), <1>1
<1>3. \A j \in 2 .. Len(l) : j # k => \E i \in 2 .. Len(r) : r[i] = l[j]
  <2> SUFFICES ASSUME NEW j \in 2 .. Len(l), j # k PROVE \E i \in 2 .. Len(r) : r[i] = l[j]
    OBVIOUS
  <2>1. CASE j < k
    BY SMTT(30), <1>1, <2>1
  <2>2. CASE j > k
    <3>1. j - 1 \in 2 .. Len(r) /\ r[j - 1] = l[j]
      BY SMTT(30), <1>1, <2>2
    <3> QED BY <3>1
  <2> QED BY SMTT(30), <1>1, <2>1, <2>2
<1>4. IsList(r)
  <2>1. r[1] = Guard /\ Len(r) >= 1
    BY SMTT(30), <1>1 DEF IsList
  <2>2. \A i \in 2 .. Len(r) : /\ r[i].data \in Addresses /\ r[i].size > 0
                               /\ r[i].size % kWorkspacePageSize = 0
    BY ZenonT(60), <1>2 DEF IsList
  <2>3. ASSUME NEW i \in 2 .. Len(r), NEW j \in 2 .. Len(r), r[i].data = r[j].data
        PROVE  i = j
    <3> DEFINE a == IF i < k THEN i ELSE i + 1
               b == IF j < k THEN j ELSE j + 1
    <3>1. a \in 2 .. Len(l) /\ b \in 2 .. Len(l) /\ r[i] = l[a] /\ r[j] = l[b]
      BY SMTT(30), <1>1
    <3>2. a = b
      BY <2>3, <3>1 DEF IsList
    <3> QED BY SMTT(30), <3>2
  <2> QED BY <1>1, <2>1, <2>2, <2>3 DEF IsList
<1>5. Owned(r) = Owned(l) \ {l[k].data}
  <2>1. \A j \in 2 .. Len(l) : j # k => l[j].data # l[k].data
    BY DEF IsList
  <2>2. ASSUME NEW i \in 2 .. Len(r) PROVE r[i].data \in Owned(l) \ {l[k].data}
    BY <1>2, <2>1 DEF Owned
  <2>3. ASSUME NEW j \in 2 .. Len(l), l[j].data # l[k].data PROVE l[j].data \in Owned(r)
    BY <1>3, <2>3 DEF Owned
  <2> QED BY <2>2, <2>3 DEF Owned
<1>6. ASSUME Sorted(l) PROVE Sorted(r)
  BY SMTT(30), <1>1, <1>6 DEF Sorted
<1> QED BY <1>1, <1>2, <1>4, <1>5, <1>6 DEF r

\* r is the list l with the block e at position k.
IsInsert(r, l, k, e) ==
  /\ r \in Seq(Blocks) /\ Len(r) = Len(l) + 1
  /\ \A i \in 1 .. Len(l) + 1 :
       r[i] = IF i < k THEN l[i] ELSE IF i = k THEN e ELSE l[i - 1]

LEMMA AppendInserts ==
  ASSUME NEW l \in Seq(Blocks), NEW e \in Blocks
  PROVE  IsInsert(Append(l, e), l, Len(l) + 1, e)
<1>1. Len(l) \in Nat
  BY LenProperties
<1> QED BY SMTT(30), <1>1, AppendProperties DEF IsInsert

LEMMA InsertAtInserts ==
  ASSUME NEW l \in Seq(Blocks), NEW e \in Blocks, NEW k \in 1 .. Len(l) + 1
  PROVE  IsInsert(InsertAt(l, k, e), l, k, e)
BY SMTT(30), InsertAtLemma DEF IsInsert

\* A block that comes into a list: the others stay, in order.
LEMMA InsertedList ==
  ASSUME NEW l, IsList(l), NEW k \in 2 .. Len(l) + 1, NEW e \in Blocks, NEW r,
         IsInsert(r, l, k, e), e.data \in Addresses \ Owned(l), e.size > 0,
         e.size % kWorkspacePageSize = 0
  PROVE  /\ IsList(r)
         /\ Owned(r) = Owned(l) \union {e.data}
         /\ \A i \in 2 .. Len(r) : r[i] = e \/ \E j \in 2 .. Len(l) : r[i] = l[j]
<1>1. /\ l \in Seq(Blocks) /\ Len(l) \in Nat /\ Len(l) >= 1
      /\ r \in Seq(Blocks) /\ Len(r) = Len(l) + 1
      /\ \A i \in 1 .. Len(l) + 1 :
           r[i] = IF i < k THEN l[i] ELSE IF i = k THEN e ELSE l[i - 1]
  BY LenProperties DEF IsList, IsInsert
<1> DEFINE Was(i) == IF i < k THEN i ELSE i - 1
<1>2. \A i \in 2 .. Len(r) : IF i = k THEN r[i] = e
                             ELSE Was(i) \in 2 .. Len(l) /\ r[i] = l[Was(i)]
  BY SMTT(30), <1>1
<1>3. \A i, j \in 2 .. Len(r) : i # k /\ j # k /\ Was(i) = Was(j) => i = j
  BY SMTT(30), <1>1
<1>4. ASSUME NEW j \in 2 .. Len(l) PROVE \E i \in 2 .. Len(r) : r[i] = l[j]
  <2>1. CASE j < k
    BY SMTT(30), <1>1, <2>1
  <2>2. CASE j >= k
    <3>1. j + 1 \in 2 .. Len(r) /\ r[j + 1] = l[j]
      BY SMTT(30), <1>1, <2>2
    <3> QED BY <3>1
  <2> QED BY SMTT(30), <1>1, <2>1, <2>2
<1> HIDE DEF Was
<1>5. \A j \in 2 .. Len(l) : l[j].data # e.data
  BY DEF Owned
<1>6. IsList(r)
  <2>1. r[1] = Guard /\ Len(r) >= 1
    BY SMTT(30), <1>1 DEF IsList
  <2>2. ASSUME NEW i \in 2 .. Len(r)
        PROVE  /\ r[i].data \in Addresses /\ r[i].size > 0
               /\ r[i].size % kWorkspacePageSize = 0
    <3>1. CASE i = k
      BY <1>2, <3>1
    <3>2. CASE i # k
      <4>1. Was(i) \in 2 .. Len(l) /\ r[i] = l[Was(i)]
        BY <1>2, <3>2
      <4> QED BY SMTT(30), <4>1 DEF IsList
    <3> QED BY <3>1, <3>2
  <2>3. ASSUME NEW i \in 2 .. Len(r), NEW j \in 2 .. Len(r), r[i].data = r[j].data
        PROVE  i = j
    <3>1. CASE i = k \/ j = k
      BY <1>2, <1>5, <2>3, <3>1
    <3>2. CASE i # k /\ j # k
      <4>1. Was(i) = Was(j)
        BY ZenonT(60), <1>2, <2>3, <3>2 DEF IsList
      <4> QED BY <1>3, <3>2, <4>1
    <3> QED BY <3>1, <3>2
  <2> QED BY <1>1, <2>1, <2>2, <2>3 DEF IsList
<1>7. Owned(r) = Owned(l) \union {e.data}
  <2>1. ASSUME NEW i \in 2 .. Len(r) PROVE r[i].data \in Owned(l) \union {e.data}
    BY <1>2 DEF Owned
  <2>2. e.data \in Owned(r)
    <3>1. k \in 2 .. Len(r) /\ r[k] = e
      BY SMTT(30), <1>1
    <3> QED BY <3>1 DEF Owned
  <2>3. ASSUME NEW j \in 2 .. Len(l) PROVE l[j].data \in Owned(r)
    BY <1>4 DEF Owned
  <2>4. Owned(r) \subseteq Owned(l) \union {e.data}
    BY <2>1 DEF Owned
  <2>5. Owned(l) \subseteq Owned(r)
    BY <2>3 DEF Owned
  <2> QED BY <2>2, <2>4, <2>5
<1> QED BY <1>2, <1>6, <1>7

\* The list stays sorted if the block is put between smaller and larger ones.
LEMMA InsertedSorted ==
  ASSUME NEW l, IsList(l), Sorted(l), NEW k \in 2 .. Len(l) + 1, NEW e \in Blocks, NEW r,
         IsInsert(r, l, k, e),
         \A i \in 1 .. Len(l) : IF i < k THEN l[i].size <= e.size ELSE e.size <= l[i].size
  PROVE  Sorted(r)
<1>1. /\ Len(l) \in Nat /\ Len(r) = Len(l) + 1 /\ \A i \in 1 .. Len(l) : l[i].size \in Nat
      /\ e.size \in Nat
      /\ \A i \in 1 .. Len(l) + 1 :
           r[i] = IF i < k THEN l[i] ELSE IF i = k THEN e ELSE l[i - 1]
  <2>1. l \in Seq(Blocks) /\ Len(l) \in Nat
    BY LenProperties DEF IsList
  <2>2. \A i \in 1 .. Len(l) : l[i] \in Blocks
    BY <2>1, ElementOfSeq
  <2> QED BY <2>1, <2>2 DEF IsInsert, Blocks
<1>2. ASSUME NEW i \in 1 .. Len(r), NEW j \in 1 .. Len(r), i <= j
      PROVE  r[i].size <= r[j].size
  <2>1. CASE i < k /\ j < k
    <3>1. r[i] = l[i] /\ r[j] = l[j] /\ i \in 1 .. Len(l) /\ j \in 1 .. Len(l)
      BY SMTT(30), <1>1, <1>2, <2>1
    <3> QED BY <1>2, <3>1 DEF Sorted
  <2>2. CASE i < k /\ j = k
    <3>1. r[i] = l[i] /\ r[j] = e /\ i \in 1 .. Len(l)
      BY SMTT(30), <1>1, <1>2, <2>2
    <3> QED BY <2>2, <3>1
  <2>3. CASE i < k /\ j > k
    <3>1. /\ r[i] = l[i] /\ r[j] = l[j - 1] /\ i \in 1 .. Len(l) /\ j - 1 \in 1 .. Len(l)
          /\ i <= j - 1
      BY SMTT(30), <1>1, <1>2, <2>3
    <3> QED BY <3>1 DEF Sorted
  <2>4. CASE i = k /\ j = k
    BY SMTT(30), <1>1, <2>4
  <2>5. CASE i = k /\ j > k
    <3>1. r[i] = e /\ r[j] = l[j - 1] /\ j - 1 \in 1 .. Len(l) /\ ~(j - 1 < k)
      BY SMTT(30), <1>1, <1>2, <2>5
    <3> QED BY <3>1
  <2>6. CASE i > k /\ j > k
    <3>1. /\ r[i] = l[i - 1] /\ r[j] = l[j - 1] /\ i - 1 \in 1 .. Len(l)
          /\ j - 1 \in 1 .. Len(l) /\ i - 1 <= j - 1
      BY SMTT(30), <1>1, <1>2, <2>6
    <3> QED BY <3>1 DEF Sorted
  <2> QED BY SMTT(30), <1>1, <1>2, <2>1, <2>2, <2>3, <2>4, <2>5, <2>6
<1> QED BY <1>2 DEF Sorted

\* A list has as many buffers as blocks behind the guard.
LEMMA ListCount ==
  ASSUME NEW l, IsList(l)
  PROVE  IsFiniteSet(Owned(l)) /\ Cardinality(Owned(l)) = Len(l) - 1
<1> DEFINE f == [i \in 1 .. Len(l) - 1 |-> l[i + 1].data]
<1>1. Len(l) \in Nat /\ Len(l) >= 1 /\ Len(l) - 1 \in Nat
  BY SMTT(30), LenProperties DEF IsList
<1>2. \A i \in 1 .. Len(l) - 1 : i + 1 \in 2 .. Len(l) /\ f[i] = l[i + 1].data
  BY SMTT(30), <1>1
<1>3. f \in [1 .. Len(l) - 1 -> Owned(l)]
  BY <1>2 DEF Owned
<1>4. \A i, j \in 1 .. Len(l) - 1 : f[i] = f[j] => i = j
  <2> SUFFICES ASSUME NEW i \in 1 .. Len(l) - 1, NEW j \in 1 .. Len(l) - 1, f[i] = f[j]
               PROVE  i = j
    OBVIOUS
  <2>1. i + 1 = j + 1
    BY <1>2 DEF IsList
  <2> QED BY SMTT(30), <2>1
<1>5. \A a \in Owned(l) : \E i \in 1 .. Len(l) - 1 : f[i] = a
  <2> SUFFICES ASSUME NEW j \in 2 .. Len(l) PROVE \E i \in 1 .. Len(l) - 1 : f[i] = l[j].data
    BY DEF Owned
  <2>1. j - 1 \in 1 .. Len(l) - 1 /\ (j - 1) + 1 = j
    BY SMTT(30), <1>1
  <2>2. f[j - 1] = l[j].data
    BY <1>2, <2>1
  <2> QED BY <2>1, <2>2
<1> HIDE DEF f
<1>6. f \in Bijection(1 .. Len(l) - 1, Owned(l))
  BY <1>3, <1>4, <1>5 DEF Bijection, Injection, Surjection, IsInjective
<1>7. ExistsBijection(1 .. Len(l) - 1, Owned(l))
  BY <1>6 DEF ExistsBijection
<1> QED BY <1>1, <1>7, FS_CountingElements, FS_NatBijection
-----------------------------------------------------------------------------
(* Buffers and lists *)

LEMMA HoldsSym ==
  ASSUME NEW h, NEW f, NEW a, Holds(h, f, a)
  PROVE  Holds(h, a, f)
BY DEF Holds

\* A block goes from one list to the other.
LEMMA MoveBlock ==
  ASSUME NEW h, NEW f, NEW a, Holds(h, f, a), IsList(f), IsList(a), NEW k \in 2 .. Len(f),
         NEW j \in 2 .. Len(a) + 1, NEW r, IsInsert(r, a, j, f[k])
  PROVE  Holds(h, RemoveAt(f, k), r) /\ IsList(r) /\ IsList(RemoveAt(f, k))
<1>1. /\ f[k] \in Blocks /\ f[k].data \in Addresses /\ f[k].size > 0
      /\ f[k].size % kWorkspacePageSize = 0 /\ f[k].data \in Owned(f)
  <2>1. f \in Seq(Blocks) /\ k \in 1 .. Len(f)
    BY SMTT(30), LenProperties DEF IsList
  <2>2. f[k] \in Blocks
    BY <2>1, ElementOfSeq
  <2> QED BY <2>2 DEF IsList, Owned
<1>2. f[k].data \notin Owned(a)
  BY <1>1 DEF Holds
<1>3. /\ IsList(r) /\ Owned(r) = Owned(a) \union {f[k].data}
      /\ \A i \in 2 .. Len(r) : r[i] = f[k] \/ \E m \in 2 .. Len(a) : r[i] = a[m]
  BY SMTT(30), <1>1, <1>2, InsertedList
<1> DEFINE g == RemoveAt(f, k)
<1>4. /\ IsList(g) /\ Len(g) = Len(f) - 1 /\ Owned(g) = Owned(f) \ {f[k].data}
      /\ \A i \in 2 .. Len(f) - 1 : \E m \in 2 .. Len(f) : g[i] = f[m]
  <2>1. IsList(g) /\ Len(g) = Len(f) - 1 /\ Owned(g) = Owned(f) \ {f[k].data}
    BY RemovedList
  <2>2. ASSUME NEW i \in 2 .. Len(f) - 1 PROVE \E m \in 2 .. Len(f) : g[i] = f[m]
    BY SMTT(30), RemovedList
  <2> QED BY <2>1, <2>2
<1> HIDE DEF g
<1>5. Owned(g) \union Owned(r) = Owned(f) \union Owned(a) /\ Owned(g) \intersect Owned(r) = {}
  BY ZenonT(60), <1>1, <1>3, <1>4 DEF Holds
<1>6. ASSUME NEW i \in 2 .. Len(g) PROVE h[g[i].data] = g[i].size
  <2>1. PICK m \in 2 .. Len(f) : g[i] = f[m]
    BY <1>4
  <2> QED BY <2>1 DEF Holds
<1>7. ASSUME NEW i \in 2 .. Len(r) PROVE h[r[i].data] = r[i].size
  BY ZenonT(60), <1>3 DEF Holds
<1> QED BY ZenonT(60), <1>3, <1>4, <1>5, <1>6, <1>7 DEF Holds, g

\* A block is given back to the device.
LEMMA DropBlock ==
  ASSUME NEW h, NEW f, NEW a, Holds(h, f, a), IsList(f), NEW k \in 2 .. Len(f)
  PROVE  Holds(Freed(h, {f[k].data}), RemoveAt(f, k), a)
<1> DEFINE g == RemoveAt(f, k)
           t == Freed(h, {f[k].data})
<1>1. /\ IsList(g) /\ Len(g) = Len(f) - 1 /\ Owned(g) = Owned(f) \ {f[k].data}
      /\ \A i \in 2 .. Len(f) - 1 : \E m \in 2 .. Len(f) : g[i] = f[m]
  BY SMTT(30), RemovedList
<1>2. DOMAIN t = DOMAIN h \ {f[k].data} /\ \A x \in DOMAIN t : t[x] = h[x]
  BY DEF Freed
<1>3. f[k].data \in Owned(f)
  BY DEF Owned
<1> HIDE DEF g, t
<1>4. DOMAIN t = Owned(g) \union Owned(a) /\ Owned(g) \intersect Owned(a) = {}
  BY ZenonT(60), <1>1, <1>2, <1>3 DEF Holds
<1>5. ASSUME NEW i \in 2 .. Len(g) PROVE t[g[i].data] = g[i].size
  <2>1. g[i].data \in Owned(g)
    BY DEF Owned
  <2>2. PICK m \in 2 .. Len(f) : g[i] = f[m]
    BY <1>1
  <2> QED BY ZenonT(60), <1>2, <1>4, <2>1, <2>2 DEF Holds
<1>6. ASSUME NEW i \in 2 .. Len(a) PROVE t[a[i].data] = a[i].size
  <2>1. a[i].data \in Owned(a)
    BY DEF Owned
  <2> QED BY <1>2, <1>4, <2>1 DEF Holds
<1> QED BY ZenonT(60), <1>4, <1>5, <1>6 DEF Holds, g, t

\* The device hands out a buffer.
LEMMA AddBlock ==
  ASSUME NEW h, NEW f, NEW a, Holds(h, f, a), IsList(a), NEW x \in Addresses \ DOMAIN h,
         NEW size \in Nat, size > 0, size % kWorkspacePageSize = 0
  PROVE  /\ Holds(Allocated(h, x, size), f, Append(a, Entry(x, size)))
         /\ IsList(Append(a, Entry(x, size)))
<1> DEFINE e == Entry(x, size)
           r == Append(a, e)
           t == Allocated(h, x, size)
<1>1. e \in Blocks /\ e.data = x /\ e.size = size
  BY DEF Entry, Blocks
<1>2. DOMAIN t = DOMAIN h \union {x} /\ t[x] = size /\ \A y \in DOMAIN h : t[y] = h[y]
  BY DEF Allocated
<1>3. a \in Seq(Blocks) /\ Len(a) \in Nat /\ Len(a) >= 1
  BY LenProperties DEF IsList
<1> HIDE DEF e, t
<1>4. IsInsert(r, a, Len(a) + 1, e)
  BY <1>1, <1>3, AppendInserts
<1> HIDE DEF r
<1>5. Len(a) + 1 \in 2 .. Len(a) + 1
  BY SMTT(30), <1>3
<1>6. e.data \in Addresses \ Owned(a) /\ e.data \notin Owned(f)
  BY <1>1 DEF Holds
<1>7. /\ IsList(r) /\ Owned(r) = Owned(a) \union {x}
      /\ \A i \in 2 .. Len(r) : r[i] = e \/ \E m \in 2 .. Len(a) : r[i] = a[m]
  BY SMTT(30), <1>1, <1>4, <1>5, <1>6, InsertedList
<1>8. DOMAIN t = Owned(f) \union Owned(r) /\ Owned(f) \intersect Owned(r) = {}
  <2>1. DOMAIN h = Owned(f) \union Owned(a) /\ Owned(f) \intersect Owned(a) = {}
    BY DEF Holds
  <2> QED BY SMTT(30), <1>1, <1>2, <1>6, <1>7, <2>1
<1>9. ASSUME NEW i \in 2 .. Len(f) PROVE t[f[i].data] = f[i].size
  <2>1. f[i].data \in Owned(f)
    BY DEF Owned
  <2> QED BY <1>2, <2>1 DEF Holds
<1>10. ASSUME NEW i \in 2 .. Len(r) PROVE t[r[i].data] = r[i].size
  <2>1. CASE r[i] = e
    BY <1>1, <1>2, <2>1
  <2>2. ASSUME NEW m \in 2 .. Len(a), r[i] = a[m] PROVE t[r[i].data] = r[i].size
    <3>1. a[m].data \in Owned(a)
      BY DEF Owned
    <3> QED BY ZenonT(60), <1>2, <2>2, <3>1 DEF Holds
  <2> QED BY <1>7, <2>1, <2>2
<1> QED BY ZenonT(60), <1>7, <1>8, <1>9, <1>10 DEF Holds, e, r, t

\* The block that Alloc takes: none if there is none, otherwise the smallest that is
\* large enough, or one that is too small if all are.
LEMMA ChosenLemma ==
  ASSUME IsList(free_list_), Sorted(free_list_), NEW nbytes \in Nat \ {0}
  PROVE  LET k == Chosen(nbytes)
         IN  \/ k = 0 /\ Len(free_list_) = 1
             \/ /\ k \in 2 .. Len(free_list_)
                /\ free_list_[k].size < nbytes =>
                     \A i \in 2 .. Len(free_list_) : free_list_[i].size < nbytes
                /\ \A i \in 2 .. Len(free_list_) :
                     free_list_[i].size >= nbytes => free_list_[k].size <= free_list_[i].size
<1> DEFINE n == Len(free_list_)
           size(i) == free_list_[i].size
<1>1. /\ free_list_ \in Seq(Blocks) /\ n \in Nat /\ n >= 1 /\ free_list_[1] = Guard
      /\ \A i \in 1 .. n : size(i) \in Nat
  <2>1. free_list_ \in Seq(Blocks) /\ n \in Nat /\ n >= 1 /\ free_list_[1] = Guard
    BY LenProperties DEF IsList
  <2>2. \A i \in 1 .. n : free_list_[i] \in Blocks
    BY <2>1, ElementOfSeq
  <2> QED BY <2>1, <2>2 DEF Blocks
<1>2. size(1) = 0
  BY SMTT(30), <1>1 DEF Guard, Entry
<1>3. \A i, j \in 1 .. n : i <= j => size(i) <= size(j)
  BY DEF Sorted
<1>4. Last(free_list_).size = size(n)
  BY DEF Last
<1> HIDE DEF n, size
<1>5. CASE n = 1
  BY SMTT(30), <1>5 DEF Chosen, n
<1>6. CASE n = 2
  <2>1. Chosen(nbytes) = 2
    BY SMTT(30), <1>6 DEF Chosen, n
  <2>2. \A i \in 2 .. n : i = 2
    BY SMTT(30), <1>6
  <2>3. size(2) \in Nat /\ 2 \in 2 .. n
    BY SMTT(30), <1>1, <1>6
  <2> QED BY SMTT(30), <2>1, <2>2, <2>3 DEF n, size
<1>7. CASE n > 2 /\ size(n) < nbytes
  <2>1. Chosen(nbytes) = n
    BY SMTT(30), <1>1, <1>4, <1>7 DEF Chosen, n
  <2>2. \A i \in 2 .. n : size(i) < nbytes
    BY SMTT(30), <1>1, <1>3, <1>7
  <2> QED BY SMTT(30), <1>1, <1>7, <2>1, <2>2 DEF n, size
<1>8. CASE n > 2 /\ ~(size(n) < nbytes)
  <2> DEFINE K == {i \in 1 .. n - 1 : size(i) < nbytes}
             k == 1 + Max(K)
  <2>1. Chosen(nbytes) = k
    <3>1. Chosen(nbytes) = SmallestFit(nbytes)
      <4>1. n # 1 /\ n # 2
        BY SMTT(30), <1>1, <1>8
      <4>2. ~(Last(free_list_).size < nbytes)
        BY <1>4, <1>8
      <4> QED BY <4>1, <4>2 DEF Chosen, n
    <3> QED BY <3>1 DEF SmallestFit, n, size
  <2>2. n - 1 \in Nat /\ K \in SUBSET (1 .. n - 1) /\ 1 \in K
    BY SMTT(30), <1>1, <1>2, <1>8
  <2>3. Max(K) \in K /\ \A y \in K : y <= Max(K)
    BY <2>2, MaxLemma
  <2>4. k \in 2 .. n /\ size(k) >= nbytes
    <3>1. Max(K) \in 1 .. n - 1 /\ k \in 2 .. n /\ ~(k <= Max(K))
      BY SMTT(30), <1>1, <2>3
    <3>2. k \notin K
      BY <2>3, <3>1
    <3>3. k = n \/ k \in 1 .. n - 1
      BY SMTT(30), <1>1, <3>1
    <3>4. ~(size(k) < nbytes)
      BY <1>8, <3>2, <3>3
    <3>5. size(k) \in Nat
      BY SMTT(30), <1>1, <3>1
    <3> QED BY SMTT(30), <3>1, <3>4, <3>5
  <2>5. ASSUME NEW i \in 2 .. n, size(i) >= nbytes PROVE size(k) <= size(i)
    <3>1. size(Max(K)) < nbytes /\ Max(K) \in 1 .. n - 1
      BY <2>3
    <3> HIDE DEF K
    <3>2. ~(i <= Max(K))
      BY SMTT(30), <1>1, <1>3, <2>5, <3>1
    <3> QED BY SMTT(30), <1>1, <1>3, <2>4, <3>1, <3>2
  <2> HIDE DEF k
  <2> QED BY SMTT(30), <1>1, <2>1, <2>4, <2>5 DEF n, size
<1> QED BY SMTT(30), <1>1, <1>5, <1>6, <1>7, <1>8
-----------------------------------------------------------------------------
(* The device with and without what the pool has lost *)

LEMMA FreedFreed ==
  ASSUME NEW h, NEW x, NEW y
  PROVE  Freed(Freed(h, x), y) = Freed(h, x \union y)
  BY SMTT(30) DEF Freed

LEMMA FreedCommutes ==
  ASSUME NEW h, NEW x, NEW y
  PROVE  Freed(Freed(h, x), y) = Freed(Freed(h, y), x)
  BY SMTT(30) DEF Freed

LEMMA FreedAllocated ==
  ASSUME NEW h, NEW a, NEW size, NEW x, a \notin x
  PROVE  Freed(Allocated(h, a, size), x) = Allocated(Freed(h, x), a, size)
  BY SMTT(30) DEF Freed, Allocated
-----------------------------------------------------------------------------
(* The steps *)

LEMMA InitInv == Init => IInv
<1> SUFFICES ASSUME Init PROVE IInv
  OBVIOUS
<1>1. Guard \in Blocks /\ <<Guard>> \in Seq(Blocks) /\ Len(<<Guard>>) = 1 /\ <<Guard>>[1] = Guard
  BY SMTT(30) DEF Guard, Entry, Blocks
<1>2. 2 .. 1 = {}
  BY SMTT(30)
<1>3. IsList(<<Guard>>) /\ Owned(<<Guard>>) = {} /\ Sorted(<<Guard>>)
  BY SMTT(30), <1>1, <1>2 DEF IsList, Owned, Sorted, Guard, Entry
<1>4. Holds(Pooled, <<Guard>>, <<Guard>>)
  <2>1. DOMAIN Pooled = {}
    BY SMTT(30) DEF Init, Pooled, Freed
  <2> QED BY SMTT(30), <1>1, <1>2, <1>3, <2>1 DEF Holds
<1>5. PeakInv
  BY SMTT(30), <1>1 DEF Init, PeakInv
<1>6. LostInv
  BY DEF Init, LostInv
<1> QED BY <1>3, <1>4, <1>5, <1>6 DEF Init, IInv

LEMMA AllocInv ==
  ASSUME IInv, NEW n \in Requests, Alloc(n)
  PROVE  IInv'
<1> DEFINE nbytes == Rounded(n)
           k      == Chosen(nbytes)
           e      == IF k = 0 THEN Guard ELSE free_list_[k]
           d      == IF e.size < nbytes THEN Freed(heap, {e.data}) ELSE heap
           h      == IF e.size < nbytes THEN Freed(Pooled, {e.data}) ELSE Pooled
<1>1. /\ alive /\ alive' = alive
      /\ free_list_' = IF k = 0 THEN free_list_ ELSE RemoveAt(free_list_, k)
      /\ peak' = Max({peak, Len(allocated_)})
  BY DEF Alloc
<1>11. \/ /\ e.size >= nbytes
          /\ allocated_' = Append(allocated_, e) /\ heap' = heap /\ lost' = lost
       \/ /\ e.size < nbytes
          /\ \E a \in Addresses \ DOMAIN d :
               /\ heap' = Allocated(d, a, nbytes)
               /\ allocated_' = Append(allocated_, Entry(a, nbytes))
          /\ lost' = lost
       \/ /\ e.size < nbytes
          /\ heap' = d /\ allocated_' = allocated_ /\ lost' = lost
       \/ /\ e.size < nbytes /\ k # 0
          /\ lost' = lost \union {e.data} /\ allocated_' = allocated_ /\ heap' = heap
  BY DEF Alloc
<1>2. nbytes \in Nat \ {0} /\ nbytes % kWorkspacePageSize = 0
  BY PoolAssumption, RoundedLemma
<1> HIDE DEF nbytes
<1>3. /\ IsList(free_list_) /\ Sorted(free_list_) /\ IsList(allocated_)
      /\ Holds(Pooled, free_list_, allocated_) /\ PeakInv /\ LostInv
  BY <1>1 DEF IInv
<1>4. \/ k = 0 /\ Len(free_list_) = 1
      \/ k \in 2 .. Len(free_list_)
  BY <1>2, <1>3, ChosenLemma
<1> HIDE DEF k
<1>12. e.data \notin lost /\ (k # 0 => e.data \in Addresses \intersect DOMAIN heap)
  <2>1. CASE k = 0
    BY <1>3, <2>1, PoolAssumption DEF LostInv, Guard, Entry
  <2>2. CASE k # 0
    <3>1. e = free_list_[k] /\ k \in 2 .. Len(free_list_)
      BY <1>4, <2>2
    <3>2. e.data \in Owned(free_list_) /\ e.data \in Addresses
      BY <1>3, <3>1 DEF Owned, IsList
    <3>3. e.data \in DOMAIN Pooled
      BY <1>3, <3>2 DEF Holds
    <3> QED BY <3>2, <3>3 DEF Pooled, Freed
  <2> QED BY <2>1, <2>2
<1>13. /\ LostInv'
       /\ \/ /\ e.size >= nbytes
             /\ allocated_' = Append(allocated_, e) /\ Pooled' = Pooled
          \/ /\ e.size < nbytes
             /\ \E a \in Addresses \ DOMAIN h :
                  /\ Pooled' = Allocated(h, a, nbytes)
                  /\ allocated_' = Append(allocated_, Entry(a, nbytes))
          \/ /\ e.size < nbytes
             /\ Pooled' = h /\ allocated_' = allocated_
  <2>1. CASE /\ e.size >= nbytes
             /\ allocated_' = Append(allocated_, e) /\ heap' = heap /\ lost' = lost
    BY <1>3, <2>1 DEF LostInv, Pooled
  <2>2. ASSUME e.size < nbytes, lost' = lost
        PROVE  Freed(d, lost) = h /\ lost \subseteq Addresses \intersect DOMAIN d
    <3>1. d = Freed(heap, {e.data}) /\ h = Freed(Pooled, {e.data})
      BY <2>2
    <3>2. lost \subseteq Addresses \intersect DOMAIN d
      <4>1. DOMAIN d = DOMAIN heap \ {e.data}
        <5>1. d = Freed(heap, {e.data})
          BY <3>1
        <5> HIDE DEF d, h, e
        <5> QED BY SMTT(30), <5>1 DEF Freed
      <4> HIDE DEF d, h, e
      <4> QED BY <1>3, <1>12, <4>1 DEF LostInv
    <3> HIDE DEF d, h, e
    <3>3. Freed(Freed(heap, {e.data}), lost) = Freed(Freed(heap, lost), {e.data})
      BY SMTT(30), FreedCommutes
    <3>4. Pooled = Freed(heap, lost)
      BY DEF Pooled
    <3> QED BY <3>1, <3>2, <3>3, <3>4
  <2> HIDE DEF d, h, e
  <2>3. ASSUME e.size < nbytes, lost' = lost,
               NEW a \in Addresses \ DOMAIN d, heap' = Allocated(d, a, nbytes)
        PROVE  /\ a \in Addresses \ DOMAIN h /\ Pooled' = Allocated(h, a, nbytes)
               /\ LostInv'
    <3>1. Freed(d, lost) = h /\ lost \subseteq Addresses \intersect DOMAIN d
      BY <2>2, <2>3
    <3>2. a \notin lost /\ a \notin DOMAIN h
      BY <3>1 DEF Freed
    <3>3. Pooled' = Allocated(h, a, nbytes)
      <4>1. Freed(Allocated(d, a, nbytes), lost) = Allocated(Freed(d, lost), a, nbytes)
        BY SMTT(30), <3>2, FreedAllocated
      <4>2. Pooled' = Freed(heap', lost')
        BY DEF Pooled
      <4> QED BY <2>3, <3>1, <4>1, <4>2
    <3>4. LostInv'
      BY <2>3, <3>1 DEF LostInv, Allocated
    <3> QED BY <3>2, <3>3, <3>4
  <2>4. ASSUME e.size < nbytes, lost' = lost, heap' = d
        PROVE  Pooled' = h /\ LostInv'
    BY <2>2, <2>4 DEF Pooled, LostInv
  <2>5. ASSUME e.size < nbytes, k # 0, lost' = lost \union {e.data}, heap' = heap
        PROVE  Pooled' = h /\ LostInv'
    <3>1. h = Freed(Pooled, {e.data})
      BY <2>5 DEF h
    <3>2. Pooled' = h
      <4>1. Freed(Freed(heap, lost), {e.data}) = Freed(heap, lost \union {e.data})
        BY SMTT(30), FreedFreed
      <4>2. Pooled = Freed(heap, lost) /\ Pooled' = Freed(heap', lost')
        BY DEF Pooled
      <4> QED BY <2>5, <3>1, <4>1, <4>2
    <3>3. LostInv'
      BY <1>3, <1>12, <2>5 DEF LostInv
    <3> QED BY <3>2, <3>3
  <2> QED BY <1>11, <2>1, <2>3, <2>4, <2>5
<1>5. /\ Len(free_list_) \in Nat /\ Len(free_list_) >= 1
      /\ allocated_ \in Seq(Blocks) /\ Len(allocated_) \in Nat /\ Len(allocated_) >= 1
  BY <1>3, LenProperties DEF IsList
<1>6. IsList(free_list_') /\ Sorted(free_list_')
  BY <1>1, <1>3, <1>4, RemovedList
<1>7. Len(free_list_') = IF k = 0 THEN Len(free_list_) ELSE Len(free_list_) - 1
  BY <1>1, <1>3, <1>4, RemovedList
<1>8. peak' \in {peak, Len(allocated_)} /\ peak' >= peak /\ peak' >= Len(allocated_)
  <2>1. peak \in Nat
    BY <1>3 DEF PeakInv
  <2>2. \E x \in {peak, Len(allocated_)} : \A y \in {peak, Len(allocated_)} : x >= y
    BY SMTT(30), <1>5, <2>1
  <2> QED BY <1>1, <2>2 DEF Max
<1>9. CASE e.size >= nbytes
  <2>1. k # 0 /\ e = free_list_[k]
    BY SMTT(30), <1>2, <1>9 DEF Guard, Entry
  <2>2. k \in 2 .. Len(free_list_) /\ Len(allocated_) + 1 \in 2 .. Len(allocated_) + 1
    BY SMTT(30), <1>4, <1>5, <2>1
  <2>3. e \in Blocks /\ ~(e.size < nbytes)
    <3>1. free_list_ \in Seq(Blocks) /\ k \in 1 .. Len(free_list_)
      BY SMTT(30), <1>3, <1>5, <2>2 DEF IsList
    <3>2. e \in Blocks
      BY <2>1, <3>1, ElementOfSeq
    <3>3. e.size \in Nat
      BY <3>2 DEF Blocks
    <3> QED BY SMTT(30), <1>2, <1>9, <3>2, <3>3
  <2>4. allocated_' = Append(allocated_, e) /\ Pooled' = Pooled
    BY <1>13, <2>3
  <2> HIDE DEF e
  <2>5. IsInsert(allocated_', allocated_, Len(allocated_) + 1, free_list_[k])
    BY <1>5, <2>1, <2>3, <2>4, AppendInserts
  <2>6. Holds(Pooled', free_list_', allocated_') /\ IsList(allocated_')
    BY <1>1, <1>3, <2>1, <2>2, <2>4, <2>5, MoveBlock
  <2>7. Len(allocated_') = Len(allocated_) + 1
    BY <2>5 DEF IsInsert
  <2>8. PeakInv'
    BY SMTT(30), <1>1, <1>3, <1>5, <1>7, <1>8, <2>1, <2>7 DEF PeakInv
  <2> QED BY ZenonT(60), <1>1, <1>6, <1>13, <2>6, <2>8 DEF IInv
<1>10. CASE e.size < nbytes
  <2>1. Holds(h, free_list_', allocated_)
    <3>1. CASE k = 0
      <4>1. e.data = nullptr /\ free_list_' = free_list_
        BY <1>1, <3>1 DEF Guard, Entry
      <4>2. nullptr \notin DOMAIN Pooled
        <5>1. nullptr \notin Owned(free_list_) \union Owned(allocated_)
          BY SMTT(30), <1>3, PoolAssumption DEF Owned, IsList
        <5> QED BY <1>3, <5>1 DEF Holds
      <4>3. DOMAIN h = DOMAIN Pooled /\ \A x \in DOMAIN Pooled : h[x] = Pooled[x]
        BY <1>10, <4>1, <4>2 DEF Freed
      <4> HIDE DEF h
      <4>4. \A i \in 2 .. Len(free_list_) : free_list_[i].data \in Owned(free_list_)
        BY DEF Owned
      <4>5. \A i \in 2 .. Len(allocated_) : allocated_[i].data \in Owned(allocated_)
        BY DEF Owned
      <4> QED BY ZenonT(60), <1>3, <4>1, <4>3, <4>4, <4>5 DEF Holds
    <3>2. CASE k # 0
      <4>1. e = free_list_[k] /\ k \in 2 .. Len(free_list_)
        BY <1>4, <3>2
      <4>2. free_list_' = RemoveAt(free_list_, k) /\ h = Freed(Pooled, {free_list_[k].data})
        BY <1>1, <1>10, <3>2
      <4> HIDE DEF e, h
      <4> QED BY <1>3, <4>1, <4>2, DropBlock
    <3> QED BY <3>1, <3>2
  <2>2. ~(e.size >= nbytes)
    <3>1. e.size \in Nat
      <4>1. CASE k = 0
        BY <4>1 DEF Guard, Entry
      <4>2. CASE k # 0
        <5>1. free_list_ \in Seq(Blocks) /\ k \in 1 .. Len(free_list_)
          BY SMTT(30), <1>3, <1>4, <1>5, <4>2 DEF IsList
        <5>2. free_list_[k] \in Blocks
          BY <5>1, ElementOfSeq
        <5> QED BY <4>2, <5>2 DEF Blocks
      <4> QED BY <4>1, <4>2
    <3> QED BY SMTT(30), <1>2, <1>10, <3>1
  <2> HIDE DEF e, h
  <2>3. ASSUME NEW a \in Addresses \ DOMAIN h, Pooled' = Allocated(h, a, nbytes),
               allocated_' = Append(allocated_, Entry(a, nbytes))
        PROVE  IInv'
    <3>1. Holds(Pooled', free_list_', allocated_') /\ IsList(allocated_')
      BY SMTT(30), <1>2, <1>3, <2>1, <2>3, AddBlock
    <3>2. Len(allocated_') = Len(allocated_) + 1
      <4>1. Entry(a, nbytes) \in Blocks
        BY <1>2 DEF Entry, Blocks
      <4> QED BY <1>5, <2>3, <4>1, AppendProperties
    <3>3. PeakInv'
      <4>1. peak \in Nat /\ Len(free_list_) + Len(allocated_) - 2 <= peak /\ peak' \in Nat
        BY <1>1, <1>3, <1>5, <1>8 DEF PeakInv
      <4>2. Len(allocated_') - 1 <= peak'
        BY SMTT(30), <1>5, <1>8, <3>2, <4>1
      <4>3. Len(free_list_') + Len(allocated_') - 2 <= peak'
        <5>1. CASE k = 0
          BY SMTT(30), <1>4, <1>5, <1>7, <1>8, <3>2, <4>1, <5>1
        <5>2. CASE k # 0
          BY SMTT(30), <1>5, <1>7, <1>8, <3>2, <4>1, <5>2
        <5> QED BY <5>1, <5>2
      <4> QED BY <1>1, <4>1, <4>2, <4>3 DEF PeakInv
    <3> QED BY <1>1, <1>6, <1>13, <3>1, <3>3 DEF IInv
  <2>4. CASE Pooled' = h /\ allocated_' = allocated_
    <3>1. PeakInv'
      BY SMTT(30), <1>1, <1>3, <1>4, <1>5, <1>7, <1>8, <2>4 DEF PeakInv
    <3> QED BY ZenonT(60), <1>1, <1>3, <1>6, <1>13, <2>1, <2>4, <3>1 DEF IInv
  <2> QED BY ZenonT(60), <1>13, <2>2, <2>3, <2>4
<1> QED BY <1>13, <1>9, <1>10

\* Free puts the block where the sizes want it.
LEMMA InsertedLemma ==
  ASSUME IsList(free_list_), Sorted(free_list_), NEW e \in Blocks, e.size > 0
  PROVE  /\ \E k \in 2 .. Len(free_list_) + 1 : IsInsert(Inserted(e), free_list_, k, e)
         /\ Sorted(Inserted(e))
<1> DEFINE f == free_list_
           n == Len(free_list_)
<1>1. /\ f \in Seq(Blocks) /\ n \in Nat /\ n >= 1 /\ f[1].size = 0 /\ Last(f) = f[n]
      /\ \A i \in 1 .. n : f[i] \in Blocks
  BY SMTT(30), LenProperties, ElementOfSeq DEF IsList, Guard, Entry, Last
<1>2. e.size \in Nat /\ \A i \in 1 .. n : f[i].size \in Nat
  BY <1>1 DEF Blocks
<1>3. \A i, j \in 1 .. n : i <= j => f[i].size <= f[j].size
  BY DEF Sorted
<1>4. SUFFICES \E k \in 2 .. n + 1 :
                 /\ IsInsert(Inserted(e), f, k, e)
                 /\ \A i \in 1 .. n : IF i < k THEN f[i].size <= e.size
                                               ELSE e.size <= f[i].size
  BY <1>1, InsertedSorted
<1>5. CASE Last(f).size < e.size
  <2>1. Inserted(e) = Append(f, e)
    <3>1. ~(Last(f).size >= e.size)
      BY SMTT(30), <1>1, <1>2, <1>5
    <3> QED BY <1>5, <3>1 DEF Inserted
  <2>2. IsInsert(Inserted(e), f, n + 1, e)
    BY <1>1, <2>1, AppendInserts
  <2>3. \A i \in 1 .. n : i < n + 1 /\ f[i].size <= e.size
    BY SMTT(30), <1>1, <1>2, <1>3, <1>5
  <2>4. n + 1 \in 2 .. n + 1
    BY SMTT(30), <1>1
  <2> QED BY <2>2, <2>3, <2>4
<1>6. CASE Last(f).size >= e.size /\ n = 2
  <2>1. ~(Last(f).size < e.size)
    BY SMTT(30), <1>1, <1>2, <1>6
  <2>2. Inserted(e) = <<f[1], e, f[2]>>
    BY <1>6, <2>1 DEF Inserted
  <2>3. IsInsert(Inserted(e), f, 2, e)
    BY SMTT(30), <1>1, <1>6, <2>2 DEF IsInsert
  <2>4. \A i \in 1 .. n : IF i < 2 THEN f[i].size <= e.size ELSE e.size <= f[i].size
    BY SMTT(30), <1>1, <1>2, <1>6
  <2> QED BY SMTT(30), <1>6, <2>3, <2>4
<1>7. CASE Last(f).size >= e.size /\ n # 2
  <2> DEFINE S == {k \in DOMAIN f : f[k].size <= e.size}
             m == Max(S)
  <2>1. ~(Last(f).size < e.size)
    BY SMTT(30), <1>1, <1>2, <1>7
  <2>2. Inserted(e) = InsertAt(f, 1 + m, e)
    BY <1>7, <2>1 DEF Inserted
  <2>3. S \in SUBSET (1 .. n) /\ 1 \in S
    BY SMTT(30), <1>1, <1>2
  <2>4. m \in S /\ \A y \in S : y <= m
    BY <1>1, <2>3, MaxLemma
  <2>5. m \in 1 .. n /\ f[m].size <= e.size
    BY <2>3, <2>4
  <2>6. ASSUME NEW i \in 1 .. n, i > m PROVE e.size <= f[i].size
    <3>1. ~(i <= m)
      BY SMTT(30), <2>5, <2>6
    <3>2. i \notin S
      BY <2>4, <3>1
    <3> QED BY SMTT(30), <1>1, <1>2, <3>2
  <2> HIDE DEF m, S
  <2>7. ASSUME NEW i \in 1 .. n
        PROVE  IF i < 1 + m THEN f[i].size <= e.size ELSE e.size <= f[i].size
    <3>1. CASE i < 1 + m
      BY SMTT(30), <1>2, <1>3, <2>5, <3>1
    <3>2. CASE ~(i < 1 + m)
      BY SMTT(30), <2>5, <2>6, <3>2
    <3> QED BY <3>1, <3>2
  <2>8. 1 + m \in 2 .. n + 1
    BY SMTT(30), <1>1, <2>5
  <2>9. IsInsert(Inserted(e), f, 1 + m, e)
    <3>1. 1 + m \in 1 .. Len(f) + 1 /\ f \in Seq(Blocks)
      BY SMTT(30), <1>1, <2>8
    <3> QED BY <2>2, <3>1, InsertAtInserts
  <2> QED BY <2>7, <2>8, <2>9
<1> QED BY SMTT(30), <1>1, <1>2, <1>5, <1>6, <1>7

LEMMA FreeInv ==
  ASSUME IInv, NEW k \in 2 .. Len(allocated_), Free(k)
  PROVE  IInv'
<1>1. /\ alive /\ alive' = alive /\ Pooled' = Pooled /\ peak' = peak
      /\ allocated_' = RemoveAt(allocated_, k) /\ free_list_' = Inserted(allocated_[k])
      /\ LostInv'
  BY DEF Free, Removed, Pooled, IInv, LostInv
<1>2. /\ IsList(free_list_) /\ Sorted(free_list_) /\ IsList(allocated_)
      /\ Holds(Pooled, allocated_, free_list_) /\ PeakInv
  BY <1>1, HoldsSym DEF IInv
<1>3. allocated_[k] \in Blocks /\ allocated_[k].size > 0
  BY SMTT(30), LenProperties, ElementOfSeq, <1>2 DEF IsList
<1>4. PICK j \in 2 .. Len(free_list_) + 1 :
        IsInsert(free_list_', free_list_, j, allocated_[k])
  BY <1>1, <1>2, <1>3, InsertedLemma
<1>5. Sorted(free_list_')
  BY <1>1, <1>2, <1>3, InsertedLemma
<1>6. Holds(Pooled', allocated_', free_list_') /\ IsList(free_list_') /\ IsList(allocated_')
  BY <1>1, <1>2, <1>4, MoveBlock
<1>7. PeakInv'
  <2>1. Len(free_list_') = Len(free_list_) + 1 /\ Len(allocated_') = Len(allocated_) - 1
    BY <1>1, <1>2, <1>4, RemovedList DEF IsInsert
  <2>2. Len(free_list_) \in Nat /\ Len(allocated_) \in Nat
    BY <1>2, LenProperties DEF IsList
  <2> QED BY SMTT(30), <1>1, <1>2, <2>1, <2>2 DEF PeakInv
<1> QED BY <1>1, <1>5, <1>6, <1>7, HoldsSym DEF IInv

LEMMA ReleaseInv ==
  ASSUME IInv, Release
  PROVE  IInv'
<1>1. /\ alive /\ alive' = FALSE /\ free_list_' = <<>>
      /\ heap' = Freed(heap, Owned(free_list_)) /\ lost' = lost
      /\ allocated_' = allocated_ /\ peak' = peak
  BY DEF Release, Owned
<1>2. /\ IsList(free_list_) /\ IsList(allocated_)
      /\ Holds(Pooled, free_list_, allocated_) /\ PeakInv /\ LostInv
  BY <1>1 DEF IInv
<1>9. Pooled' = Freed(Pooled, Owned(free_list_))
  <2>1. Freed(Freed(heap, Owned(free_list_)), lost)
          = Freed(Freed(heap, lost), Owned(free_list_))
    BY SMTT(30), FreedCommutes
  <2>2. Pooled = Freed(heap, lost) /\ Pooled' = Freed(heap', lost')
    BY DEF Pooled
  <2> QED BY <1>1, <2>1, <2>2
<1>10. LostInv'
  <2>1. Owned(free_list_) \subseteq DOMAIN Pooled
    BY <1>2 DEF Holds
  <2>2. Owned(free_list_) \intersect lost = {}
    BY <2>1 DEF Pooled, Freed
  <2> QED BY <1>1, <1>2, <2>2 DEF LostInv, Freed
<1>3. /\ DOMAIN Pooled' = DOMAIN Pooled \ Owned(free_list_)
      /\ \A a \in DOMAIN Pooled' : Pooled'[a] = Pooled[a]
  BY <1>9 DEF Freed
<1>4. Owned(free_list_') = {} /\ Len(free_list_') = 0 /\ 2 .. Len(free_list_') = {}
  BY SMTT(30), <1>1 DEF Owned
<1>5. DOMAIN Pooled' = Owned(allocated_)
  BY <1>2, <1>3 DEF Holds
<1>6. ASSUME NEW i \in 2 .. Len(allocated_) PROVE Pooled'[allocated_[i].data] = allocated_[i].size
  <2>1. allocated_[i].data \in DOMAIN Pooled'
    BY <1>5 DEF Owned
  <2> QED BY <1>2, <1>3, <2>1 DEF Holds
<1>7. Holds(Pooled', free_list_', allocated_')
  BY ZenonT(60), <1>1, <1>4, <1>5, <1>6 DEF Holds
<1>8. PeakInv'
  BY SMTT(30), <1>1, <1>2, <1>4, LenProperties DEF PeakInv, IsList
<1> QED BY <1>1, <1>2, <1>7, <1>8, <1>10 DEF IInv
-----------------------------------------------------------------------------
(* The theorems *)

\* The lists and the device agree in every reachable state: Alloc, Free and Release keep
\* the entries of the two lists distinct, whole pages large and the free ones sorted, and
\* what was lost stays out of both.
THEOREM Invariant == Spec => []IInv
<1>1. Init => IInv
  BY InitInv
<1>2. IInv /\ [Next]_vars => IInv'
  <2> SUFFICES ASSUME IInv, [Next]_vars PROVE IInv'
    OBVIOUS
  <2>1. ASSUME NEW n \in Requests, Alloc(n) PROVE IInv'
    BY <2>1, AllocInv
  <2>2. ASSUME NEW k \in 2 .. Len(allocated_), Free(k) PROVE IInv'
    BY <2>2, FreeInv
  <2>3. CASE Release
    BY <2>3, ReleaseInv
  <2>4. CASE UNCHANGED vars
    BY <2>4 DEF vars, IInv, PeakInv, LostInv, Pooled
  <2> QED BY <2>1, <2>2, <2>3, <2>4 DEF Next
<1> QED BY <1>1, <1>2, PTL DEF Spec

\* The buffers in the pool's care are as many as the entries of the two lists.
LEMMA HeapCount ==
  ASSUME IInv
  PROVE  /\ IsFiniteSet(DOMAIN Pooled)
         /\ Cardinality(DOMAIN Pooled) =
              Len(free_list_) + Len(allocated_) - (IF alive THEN 2 ELSE 1)
<1> DEFINE F == Owned(free_list_)
           A == Owned(allocated_)
<1>1. DOMAIN Pooled = F \union A /\ F \intersect A = {}
  BY DEF IInv, Holds
<1>2. IsFiniteSet(A) /\ Cardinality(A) = Len(allocated_) - 1 /\ Len(allocated_) \in Nat
  BY ListCount, LenProperties DEF IInv, IsList
<1>3. /\ IsFiniteSet(F) /\ Len(free_list_) \in Nat
      /\ Cardinality(F) = Len(free_list_) - (IF alive THEN 1 ELSE 0)
  <2>1. CASE alive
    BY <2>1, ListCount, LenProperties DEF IInv, IsList
  <2>2. CASE ~alive
    <3>1. Len(free_list_) = 0 /\ F = {}
      BY SMTT(30), <2>2 DEF IInv, Owned
    <3> QED BY SMTT(30), <2>2, <3>1, FS_EmptySet
  <2> QED BY <2>1, <2>2
<1> HIDE DEF F, A
<1>4. IsFiniteSet(F \union A)
      /\ Cardinality(F \union A) = Cardinality(F) + Cardinality(A) - Cardinality(F \intersect A)
  BY <1>2, <1>3, FS_Union
<1>5. Cardinality(F \intersect A) = 0
  BY <1>1, FS_EmptySet
<1> QED BY SMTT(30), <1>1, <1>2, <1>3, <1>4, <1>5

\* No workspace is handed out twice, and none is lost but those at which FreeDataSpace
\* threw: each other buffer of the device is in one of the two lists, once, with its size,
\* after any sequence of AllocWorkspace, FreeWorkspace and Release in which the device may
\* throw at each of its calls in AllocWorkspace.
THEOREM HeldOnceHolds == Spec => []HeldOnce
<1>1. IInv => HeldOnce
  <2> SUFFICES ASSUME IInv PROVE HeldOnce
    OBVIOUS
  <2> DEFINE E == Entries(free_list_) \union Entries(allocated_)
             H == {Entry(a, Pooled[a]) : a \in DOMAIN Pooled}
  <2>1. /\ Holds(Pooled, free_list_, allocated_)
        /\ allocated_ \in Seq(Blocks) /\ free_list_ \in Seq(Blocks)
        /\ Len(allocated_) \in Nat /\ Len(free_list_) \in Nat
    <3>1. Holds(Pooled, free_list_, allocated_) /\ IsList(allocated_)
      BY DEF IInv
    <3>2. allocated_ \in Seq(Blocks)
      BY <3>1 DEF IsList
    <3>3. free_list_ \in Seq(Blocks)
      <4>1. CASE alive
        BY <4>1 DEF IInv, IsList
      <4>2. CASE ~alive
        <5>1. free_list_ = <<>>
          BY <4>2 DEF IInv
        <5> QED BY SMTT(30), <5>1
      <4> QED BY <4>1, <4>2
    <3> QED BY <3>1, <3>2, <3>3, LenProperties
  <2>2. ASSUME NEW l \in Seq(Blocks), NEW i \in 2 .. Len(l)
        PROVE  l[i] = Entry(l[i].data, l[i].size)
    <3>1. l[i] \in Blocks
      BY SMTT(30), LenProperties, ElementOfSeq
    <3> QED BY <3>1 DEF Blocks, Entry
  <2>3. ASSUME NEW x \in E PROVE x \in H
    <3>1. CASE x \in Entries(free_list_)
      <4>1. PICK i \in 2 .. Len(free_list_) : x = free_list_[i]
        BY <3>1 DEF Entries
      <4>2. Pooled[x.data] = x.size /\ x.data \in DOMAIN Pooled
        BY <2>1, <4>1 DEF Holds, Owned
      <4>3. x = Entry(x.data, Pooled[x.data])
        BY <2>1, <2>2, <4>1, <4>2
      <4> QED BY <4>2, <4>3
    <3>2. CASE x \in Entries(allocated_)
      <4>1. PICK i \in 2 .. Len(allocated_) : x = allocated_[i]
        BY <3>2 DEF Entries
      <4>2. Pooled[x.data] = x.size /\ x.data \in DOMAIN Pooled
        BY <2>1, <4>1 DEF Holds, Owned
      <4>3. x = Entry(x.data, Pooled[x.data])
        BY <2>1, <2>2, <4>1, <4>2
      <4> QED BY <4>2, <4>3
    <3> QED BY <3>1, <3>2
  <2>4. ASSUME NEW a \in DOMAIN Pooled PROVE Entry(a, Pooled[a]) \in E
    <3>1. CASE a \in Owned(free_list_)
      <4>1. PICK i \in 2 .. Len(free_list_) : a = free_list_[i].data
        BY <3>1 DEF Owned
      <4>2. Pooled[a] = free_list_[i].size
        BY <2>1, <4>1 DEF Holds
      <4>3. free_list_[i] = Entry(free_list_[i].data, free_list_[i].size)
        BY <2>1, <2>2
      <4>4. Entry(a, Pooled[a]) = free_list_[i]
        BY <4>1, <4>2, <4>3
      <4> QED BY <4>4 DEF Entries
    <3>2. CASE a \in Owned(allocated_)
      <4>1. PICK i \in 2 .. Len(allocated_) : a = allocated_[i].data
        BY <3>2 DEF Owned
      <4>2. Pooled[a] = allocated_[i].size
        BY <2>1, <4>1 DEF Holds
      <4>3. allocated_[i] = Entry(allocated_[i].data, allocated_[i].size)
        BY <2>1, <2>2
      <4>4. Entry(a, Pooled[a]) = allocated_[i]
        BY <4>1, <4>2, <4>3
      <4> QED BY <4>4 DEF Entries
    <3> QED BY <2>1, <3>1, <3>2 DEF Holds
  <2>5. E = H
    BY <2>3, <2>4
  <2>6. Len(free_list_ \o allocated_) = Len(free_list_) + Len(allocated_)
    BY <2>1, ConcatProperties
  <2>7. Len(free_list_ \o allocated_) = Cardinality(DOMAIN Pooled) + (IF alive THEN 2 ELSE 1)
    <3>1. Cardinality(DOMAIN Pooled) = Len(free_list_) + Len(allocated_) - (IF alive THEN 2 ELSE 1)
      BY HeapCount
    <3> QED BY SMTT(30), <2>1, <2>6, <3>1
  <2> QED BY <2>5, <2>7 DEF HeldOnce
<1> QED BY <1>1, Invariant, PTL

\* The pool keeps no more buffers than have been in use, or asked for, at one time: when
\* no free buffer is large enough Alloc gives the last one back before it asks for more.
THEOREM NoMoreThanPeakHolds == Spec => []NoMoreThanPeak
<1>1. IInv => NoMoreThanPeak
  BY HeapCount DEF IInv, PeakInv, NoMoreThanPeak
<1> QED BY <1>1, Invariant, PTL

\* What Alloc returns: if a free buffer is large enough the smallest that is, with no call
\* of the device; a new one otherwise, and it holds what was asked for.
LEMMA AllocTight ==
  ASSUME IInv, NEW n \in Requests, Alloc(n)
  PROVE  AllocFits(n)
<1> DEFINE nbytes == Rounded(n)
           k      == Chosen(nbytes)
           e      == IF k = 0 THEN Guard ELSE free_list_[k]
           h      == IF e.size < nbytes THEN Freed(heap, {e.data}) ELSE heap
           fits   == {x \in Entries(free_list_) : x.size >= n}
<1>1. /\ alive
      /\ \/ /\ e.size >= nbytes
            /\ allocated_' = Append(allocated_, e) /\ heap' = heap
         \/ /\ e.size < nbytes
            /\ \E a \in Addresses \ DOMAIN h :
                 allocated_' = Append(allocated_, Entry(a, nbytes))
         \/ /\ e.size < nbytes
            /\ allocated_' = allocated_
  BY DEF Alloc
<1>2. /\ n \in Nat /\ nbytes \in Nat \ {0} /\ nbytes >= n
      /\ \A s \in Nat \ {0} : s >= n /\ s % kWorkspacePageSize = 0 => s >= nbytes
  BY PoolAssumption, RoundedLemma
<1> HIDE DEF nbytes, h
<1>3. IsList(free_list_) /\ Sorted(free_list_) /\ IsList(allocated_)
  BY <1>1 DEF IInv
<1>4. \/ k = 0 /\ Len(free_list_) = 1
      \/ /\ k \in 2 .. Len(free_list_)
         /\ free_list_[k].size < nbytes =>
              \A i \in 2 .. Len(free_list_) : free_list_[i].size < nbytes
         /\ \A i \in 2 .. Len(free_list_) :
              free_list_[i].size >= nbytes => free_list_[k].size <= free_list_[i].size
  BY ZenonT(60), <1>2, <1>3, ChosenLemma
<1> HIDE DEF k
<1>5. \A i \in 2 .. Len(free_list_) : /\ free_list_[i] \in Blocks /\ free_list_[i].size \in Nat
                                      /\ free_list_[i].size > 0
                                      /\ free_list_[i].size % kWorkspacePageSize = 0
  <2>1. \A i \in 1 .. Len(free_list_) : free_list_[i] \in Blocks
    BY <1>3, LenProperties, ElementOfSeq DEF IsList
  <2> QED BY SMTT(30), <1>3, <2>1 DEF IsList, Blocks
<1>6. e \in Blocks /\ e.size \in Nat
  BY <1>4, <1>5 DEF Guard, Entry, Blocks
<1>7. \A x \in Blocks : Last(Append(allocated_, x)) = x
  <2>1. allocated_ \in Seq(Blocks)
    BY <1>3 DEF IsList
  <2> QED BY SMTT(30), <2>1, AppendProperties, LenProperties DEF Last
<1>8. Len(allocated_') > Len(allocated_) => Last(allocated_').size >= n
  <2>1. CASE e.size >= nbytes /\ allocated_' = Append(allocated_, e)
    BY SMTT(30), <1>2, <1>6, <1>7, <2>1
  <2>2. ASSUME NEW a \in Addresses, allocated_' = Append(allocated_, Entry(a, nbytes))
        PROVE  Last(allocated_').size >= n
    <3>1. Entry(a, nbytes) \in Blocks /\ Entry(a, nbytes).size = nbytes
      BY <1>2 DEF Entry, Blocks
    <3> QED BY ZenonT(60), <1>2, <1>7, <2>2, <3>1
  <2>3. CASE allocated_' = allocated_
    <3>1. Len(allocated_) \in Nat
      BY <1>3, LenProperties DEF IsList
    <3> QED BY SMTT(30), <2>3, <3>1
  <2> QED BY <1>1, <2>1, <2>2, <2>3
<1>9. ASSUME fits # {}
      PROVE  /\ heap' = heap /\ Last(allocated_') \in fits
             /\ \A x \in fits : Last(allocated_').size <= x.size
  <2>1. ASSUME NEW x \in fits
        PROVE  \E i \in 2 .. Len(free_list_) : x = free_list_[i] /\ free_list_[i].size >= nbytes
    <3>1. PICK i \in 2 .. Len(free_list_) : x = free_list_[i] /\ free_list_[i].size >= n
      BY DEF Entries
    <3>2. free_list_[i].size >= nbytes
      BY SMTT(30), <1>2, <1>5, <3>1
    <3> QED BY <3>1, <3>2
  <2>2. PICK i \in 2 .. Len(free_list_) : free_list_[i].size >= nbytes
    BY <1>9, <2>1
  <2>3. k \in 2 .. Len(free_list_) /\ e = free_list_[k]
    BY SMTT(30), <1>4, <2>2
  <2>4. e.size >= nbytes /\ ~(e.size < nbytes)
    BY SMTT(30), <1>2, <1>4, <1>5, <2>2, <2>3
  <2>5. allocated_' = Append(allocated_, e) /\ heap' = heap
    BY <1>1, <2>4
  <2>6. Last(allocated_') = e
    BY <1>6, <1>7, <2>5
  <2>7. e.size >= n
    BY SMTT(30), <1>2, <1>6, <2>4
  <2>8. e \in fits
    BY <2>3, <2>7 DEF Entries
  <2>9. ASSUME NEW x \in fits PROVE e.size <= x.size
    BY SMTT(30), <1>4, <2>1, <2>3
  <2> QED BY ZenonT(60), <2>5, <2>6, <2>8, <2>9
<1> QED BY <1>8, <1>9 DEF AllocFits

\* Every AllocWorkspace that a free buffer can serve is served by the smallest one that
\* can, and leaves the device alone; the others get a buffer that is large enough.
THEOREM AllocIsTightHolds == Spec => AllocIsTight
<1>1. IInv /\ [Next]_vars => [\A n \in Requests : Alloc(n) => AllocFits(n)]_vars
  BY AllocTight
<1> QED BY <1>1, Invariant, PTL DEF Spec, AllocIsTight
=============================================================================
