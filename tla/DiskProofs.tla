----------------------------- MODULE DiskProofs -----------------------------
(***************************************************************************)
(* Theorems of module Disk for a disk of any size and texts of any length. *)
(*                                                                         *)
(* The first part is on the table: get_free, set_free and the table        *)
(* do_format leaves; what the chains of a table are; and how the changes   *)
(* do_create, do_write and set_free make to a table keep it linked.  The   *)
(* second is on Spec: the table stays a partition into chains, link by     *)
(* link, across every command, and what a finished save leaves in ./fsfile *)
(* is such a table.                                                        *)
(***************************************************************************)
EXTENDS Disk, WellFoundedInduction, FiniteSetTheorems, TLAPS

USE DEF FREE, END

LEMMA DiskSize == NumBlocks \in Nat /\ NumBlocks >= 8 /\ NumBlocks <= END
BY NumBlocksAssumption

LEMMA BlocksEnd == ASSUME NEW c \in Block PROVE c \in Nat /\ c < NumBlocks /\ c < END
BY DiskSize DEF Block

(* A set of natural numbers that is not empty has a least element. *)
LEMMA LeastElement ==
  ASSUME NEW S, S \subseteq Nat, S # {}
  PROVE  \E m \in S : \A k \in S : m <= k
<1>1. IsWellFoundedOn(OpToRel(<, Nat), Nat)
  BY NatLessThanWellFounded
<1>2. OpToRel(<, Nat) = {ss \in Nat \X Nat : ss[1] < ss[2]}
  BY DEF OpToRel
<1>3. PICK m \in S : \A k \in S : ~ (<<k, m>> \in OpToRel(<, Nat))
  BY <1>1, WFMin
<1>4. ASSUME NEW k \in S PROVE m <= k
  <2>1. <<k, m>> \notin {ss \in Nat \X Nat : ss[1] < ss[2]}
    BY <1>2, <1>3
  <2>2. m \in Nat /\ k \in Nat
    OBVIOUS
  <2> QED BY <2>1, <2>2
<1> QED BY <1>4

(* get_free returns -1 or a block of the disk that is free; never the last *)
(* block.                                                                  *)
LEMMA GetFreeFindsFree ==
  ASSUME NEW fat \in FatType, get_free(fat, 1) # -1
  PROVE  /\ get_free(fat, 1) \in Block \ {NumBlocks - 1}
         /\ fat[get_free(fat, 1)] = FREE
<1> DEFINE runs == FreeRuns(fat, 1)
<1>1. \A i \in runs : i \in 0..(NumBlocks - 2) /\ fat[i] = FREE
  BY DiskSize DEF FreeRuns
<1>2. runs # {}
  BY DEF get_free
<1>3. runs \subseteq Nat
  BY <1>1
<1>4. \E m \in runs : \A k \in runs : m <= k
  BY <1>2, <1>3, LeastElement
<1>5. get_free(fat, 1) \in runs
  <2> HIDE DEF runs
  <2>1. get_free(fat, 1) = CHOOSE i \in runs : \A k \in runs : i <= k
    BY <1>2 DEF get_free, runs
  <2> QED BY <2>1, <1>4
<1> QED BY <1>1, <1>5, DiskSize DEF Block

(* Allocating a run of one block makes it a chain of its own. *)
LEMMA AllocateOne ==
  ASSUME NEW fat \in FatType, NEW b \in Block
  PROVE  /\ set_free_allocate(fat, b, 1) \in FatType
         /\ \A c \in Block :
              set_free_allocate(fat, b, 1)[c] = IF c = b THEN END ELSE fat[c]
<1>1. b \in Int /\ b + 1 - 1 = b /\ \A c \in Int : c \notin b..(b + 1 - 2)
  BY DiskSize DEF Block
<1>2. \A c \in Block : c \in Int
  BY DiskSize DEF Block
<1>3. \A c \in Block :
         set_free_allocate(fat, b, 1)[c] = IF c = b THEN END ELSE fat[c]
  BY <1>1, <1>2 DEF set_free_allocate
<1>4. set_free_allocate(fat, b, 1) = [c \in Block |-> set_free_allocate(fat, b, 1)[c]]
  BY DEF set_free_allocate
<1>5. \A c \in Block : set_free_allocate(fat, b, 1)[c] \in Block \cup {END}
  BY <1>3 DEF FatType
<1> QED BY <1>3, <1>4, <1>5 DEF FatType

(* get_free returns the first run that is free where all before it is in   *)
(* use, as while the disk is formatted.                                    *)
LEMMA GetFreeAfterTaken ==
  ASSUME NEW fat \in FatType, NEW count \in {1, 2},
         NEW r \in 0..(NumBlocks - count - 1),
         \A j \in r..(r + count - 1) : fat[j] = FREE,
         \A j \in 0..(r - 1) : fat[j] # FREE
  PROVE  get_free(fat, count) = r
<1> DEFINE runs == FreeRuns(fat, count)
<1>1. r \in runs
  BY DEF FreeRuns
<1>2. \A k \in runs : k \in Int /\ k \in k..(k + count - 1) /\ fat[k] = FREE /\ k >= 0
  BY DiskSize DEF FreeRuns
<1>3. \A k \in runs : r <= k
  BY <1>2, DiskSize
<1>4. \A m \in runs : (\A k \in runs : m <= k) => m = r
  BY <1>1, <1>2, <1>3, DiskSize
<1> HIDE DEF runs
<1>5. get_free(fat, count) = CHOOSE i \in runs : \A k \in runs : i <= k
  BY <1>1 DEF get_free, runs
<1> QED BY <1>1, <1>3, <1>4, <1>5

(* The first r entries of the table are taken and the others free. *)
FilledTo(fat, r) ==
  /\ fat \in FatType
  /\ \A j \in 0..(r - 1) : fat[j] # FREE
  /\ \A j \in Block : j >= r => fat[j] = FREE

(* Entries r .. r + count - 1 of the new table chain a run of the disk,   *)
(* its other entries are the old ones.                                     *)
AddsRun(old, new, count, r) ==
  /\ new \in FatType
  /\ \A j \in Block : j < r \/ j >= r + count => new[j] = old[j]
  /\ new[r + count - 1] = END
  /\ count = 2 => new[r] = r + 1

(* What one allocation of do_format does to such a table. *)
LEMMA FormatStep ==
  ASSUME NEW fat, NEW count \in {1, 2}, NEW r \in 0..(NumBlocks - count - 1),
         FilledTo(fat, r)
  PROVE  AddsRun(fat, AllocateRun(fat, count), count, r)
<1>0. /\ fat \in FatType
      /\ \A j \in 0..(r - 1) : fat[j] # FREE
      /\ \A j \in Block : j >= r => fat[j] = FREE
  BY DEF FilledTo
<1>1. get_free(fat, count) = r
  <2>1. \A j \in r..(r + count - 1) : fat[j] = FREE
    BY <1>0, DiskSize DEF Block
  <2> QED BY <1>0, <2>1, GetFreeAfterTaken
<1>2. AllocateRun(fat, count) = set_free_allocate(fat, r, count)
  BY <1>1 DEF AllocateRun
<1>3. \A j \in Block :
         AllocateRun(fat, count)[j] =
           IF j = r + count - 1 THEN END
           ELSE IF j = r /\ count = 2 THEN r + 1 ELSE fat[j]
  <2>1. \A j \in Int : j \in r..(r + count - 2) <=> j = r /\ count = 2
    BY DiskSize
  <2>2. \A j \in Block : j \in Int
    BY DiskSize DEF Block
  <2> QED BY <1>2, <2>1, <2>2 DEF set_free_allocate
<1>4. r + 1 \in Block /\ r \in Block /\ r + count - 1 \in Block
  BY DiskSize DEF Block
<1>5. AllocateRun(fat, count) = [j \in Block |-> AllocateRun(fat, count)[j]]
  BY <1>2 DEF set_free_allocate
<1>6. \A j \in Block : AllocateRun(fat, count)[j] \in Block \cup {END}
  BY <1>0, <1>3, <1>4 DEF FatType
<1>7. AllocateRun(fat, count) \in FatType
  BY <1>5, <1>6 DEF FatType
<1>8. \A j \in Block : j < r \/ j >= r + count => AllocateRun(fat, count)[j] = fat[j]
  <2>1. \A j \in Block : j \in Int
    BY DiskSize DEF Block
  <2>2. r \in Int
    OBVIOUS
  <2> QED BY <1>3, <2>1, <2>2
<1>9. count = 2 => r # r + count - 1
  BY DiskSize
<1> QED BY <1>3, <1>4, <1>7, <1>8, <1>9 DEF AddsRun

(* do_format gives block0, the tables and the root directory the blocks    *)
(* start_sys, find_fcb and set_free expect, and leaves the rest free.      *)
LEMMA FormattedLayout ==
  /\ FormattedFat \in FatType
  /\ FormattedFat[0] = END
  /\ FormattedFat[1] = 2 /\ FormattedFat[2] = END
  /\ FormattedFat[3] = 4 /\ FormattedFat[4] = END
  /\ FormattedFat[5] = 6 /\ FormattedFat[6] = END
  /\ \A j \in Block : j >= 7 => FormattedFat[j] = FREE
<1> DEFINE f0 == set_free_format
           f1 == AllocateRun(f0, 1)
           f2 == AllocateRun(f1, 2)
           f3 == AllocateRun(f2, 2)
           f4 == AllocateRun(f3, 2)
<1>0. f0 \in FatType /\ \A j \in Block : j >= 0 => f0[j] = FREE
  BY DiskSize DEF set_free_format, FatType, Block
<1> HIDE DEF f0
<1>1. /\ f1 \in FatType /\ f1[0] = END
      /\ \A j \in Block : j >= 1 => f1[j] = FREE
  <2>1. 0 \in 0..(NumBlocks - 1 - 1)
    BY DiskSize
  <2>2. FilledTo(f0, 0)
    BY <1>0 DEF FilledTo
  <2>3. AddsRun(f0, AllocateRun(f0, 1), 1, 0)
    BY <2>1, <2>2, FormatStep, Zenon
  <2>4. \A j \in Block : j \in Int
    BY DiskSize DEF Block
  <2>5. \A j \in 0..7 : j \in Block
    BY DiskSize DEF Block
  <2> QED BY <1>0, <2>3, <2>4, <2>5 DEF AddsRun
<1> HIDE DEF f1
<1>2. /\ f2 \in FatType /\ f2[0] = END /\ f2[1] = 2 /\ f2[2] = END
      /\ \A j \in Block : j >= 3 => f2[j] = FREE
  <2>1. 1 \in 0..(NumBlocks - 2 - 1)
    BY DiskSize
  <2>2. FilledTo(f1, 1)
    BY <1>1 DEF FilledTo
  <2>3. AddsRun(f1, AllocateRun(f1, 2), 2, 1)
    BY <2>1, <2>2, FormatStep, Zenon
  <2>4. \A j \in Block : j \in Int
    BY DiskSize DEF Block
  <2>5. \A j \in 0..7 : j \in Block
    BY DiskSize DEF Block
  <2> QED BY <1>1, <2>3, <2>4, <2>5 DEF AddsRun
<1> HIDE DEF f2
<1>3. /\ f3 \in FatType /\ f3[0] = END /\ f3[1] = 2 /\ f3[2] = END
      /\ f3[3] = 4 /\ f3[4] = END
      /\ \A j \in Block : j >= 5 => f3[j] = FREE
  <2>1. 3 \in 0..(NumBlocks - 2 - 1)
    BY DiskSize
  <2>2. FilledTo(f2, 3)
    BY <1>2 DEF FilledTo
  <2>3. AddsRun(f2, AllocateRun(f2, 2), 2, 3)
    BY <2>1, <2>2, FormatStep, Zenon
  <2>4. \A j \in Block : j \in Int
    BY DiskSize DEF Block
  <2>5. \A j \in 0..7 : j \in Block
    BY DiskSize DEF Block
  <2> QED BY <1>2, <2>3, <2>4, <2>5 DEF AddsRun
<1> HIDE DEF f3
<1>4. /\ f4 \in FatType /\ f4[0] = END /\ f4[1] = 2 /\ f4[2] = END
      /\ f4[3] = 4 /\ f4[4] = END /\ f4[5] = 6 /\ f4[6] = END
      /\ \A j \in Block : j >= 7 => f4[j] = FREE
  <2>1. 5 \in 0..(NumBlocks - 2 - 1)
    BY DiskSize
  <2>2. FilledTo(f3, 5)
    BY <1>3 DEF FilledTo
  <2>3. AddsRun(f3, AllocateRun(f3, 2), 2, 5)
    BY <2>1, <2>2, FormatStep, Zenon
  <2>4. \A j \in Block : j \in Int
    BY DiskSize DEF Block
  <2>5. \A j \in 0..7 : j \in Block
    BY DiskSize DEF Block
  <2> QED BY <1>3, <2>3, <2>4, <2>5 DEF AddsRun
<1>5. FormattedFat = f4
  BY DEF FormattedFat, f0, f1, f2, f3
<1> HIDE DEF f4
<1> QED BY <1>4, <1>5
-----------------------------------------------------------------------------
(* Chains *)

HIDE DEF FREE, END

(* A set that has 0, and the successor of each number it has, has them all. *)
LEMMA Induction ==
  ASSUME NEW S, 0 \in S, \A n \in Nat : n \in S => n + 1 \in S
  PROVE  \A n \in Nat : n \in S
<1> DEFINE T == Nat \ S
<1>1. SUFFICES ASSUME T # {} PROVE FALSE
  OBVIOUS
<1>2. PICK n \in T : \A m \in T : n <= m
  BY <1>1, LeastElement
<1>3. n \in Nat /\ n - 1 \in Nat /\ n - 1 \notin T
  BY <1>2
<1> QED BY <1>2, <1>3

(* Whether w is a walk of n numbered steps of F from a that stays in D. *)
Walks(w, n, F, a, D) ==
  w \in [0..n -> D] /\ w[0] = a /\ \A i \in 1..n : w[i] = F[<<i, w[i - 1]>>]

(* From any element of a set that F's steps do not leave there is such a   *)
(* walk: what gives a recursive function on numbers its values.            *)
LEMMA WalkExists ==
  ASSUME NEW D, NEW F, NEW a, F \in [Nat \X D -> D], a \in D
  PROVE  \A n \in Nat : \E w : Walks(w, n, F, a, D)
<1> DEFINE S == {n \in Nat : \E w : Walks(w, n, F, a, D)}
<1>1. 0 \in S
  <2>1. Walks([i \in 0..0 |-> a], 0, F, a, D)
    BY DEF Walks
  <2> QED BY <2>1
<1>2. ASSUME NEW n \in Nat, n \in S PROVE n + 1 \in S
  <2>1. PICK w : Walks(w, n, F, a, D)
    BY <1>2
  <2> DEFINE v == [i \in 0..(n + 1) |-> IF i = n + 1 THEN F[<<i, w[n]>>] ELSE w[i]]
  <2>2. n \in 0..n /\ w[n] \in D
    BY <2>1 DEF Walks
  <2>3. v \in [0..(n + 1) -> D] /\ v[0] = a
    BY <2>1, <2>2 DEF Walks
  <2>4. ASSUME NEW i \in 1..(n + 1) PROVE v[i] = F[<<i, v[i - 1]>>]
    <3>1. CASE i = n + 1
      BY <3>1
    <3>2. CASE i # n + 1
      <4>1. /\ i \in 1..n /\ i - 1 \in 0..n
            /\ i \in 0..(n + 1) /\ i - 1 \in 0..(n + 1) /\ i - 1 # n + 1
        BY <3>2
      <4>2. v[i] = w[i] /\ v[i - 1] = w[i - 1]
        BY <3>2, <4>1
      <4> QED BY <2>1, <4>1, <4>2 DEF Walks
    <3> QED BY <3>1, <3>2
  <2>5. Walks(v, n + 1, F, a, D)
    BY <2>3, <2>4 DEF Walks
  <2> HIDE DEF v
  <2> QED BY <2>5
<1> HIDE DEF S
<1>3. \A n \in Nat : n \in S
  BY <1>1, <1>2, Induction
<1> QED BY <1>3 DEF S

(* What Chain's walk adds to the blocks it has seen. *)
Beyond(fat, seen) == seen \cup ({fat[b] : b \in seen} \ {FREE, END})

(* The walk of Chain exists: its equation holds at each step. *)
LEMMA ChainWalk ==
  ASSUME NEW fat \in FatType, NEW h \in Block
  PROVE  \E w \in [0..NumBlocks -> SUBSET Block] :
           /\ w[0] = {h}
           /\ \A i \in 1..NumBlocks : w[i] = Beyond(fat, w[i - 1])
           /\ Chain(fat, h) = w[NumBlocks]
<1> DEFINE walk[n \in 0..NumBlocks] ==
             IF n = 0 THEN {h}
             ELSE LET seen == walk[n - 1]
                  IN  seen \cup ({fat[b] : b \in seen} \ {FREE, END})
           F == [s \in Nat \X SUBSET Block |-> Beyond(fat, s[2])]
<1>1. F \in [Nat \X SUBSET Block -> SUBSET Block]
  BY DEF Beyond, FatType
<1>2. PICK w \in [0..NumBlocks -> SUBSET Block] :
        w[0] = {h} /\ \A i \in 1..NumBlocks : w[i] = F[<<i, w[i - 1]>>]
  <2>1. {h} \in SUBSET Block /\ NumBlocks \in Nat
    BY DiskSize
  <2> HIDE DEF F, walk
  <2>2. \E w : Walks(w, NumBlocks, F, {h}, SUBSET Block)
    BY <1>1, <2>1, WalkExists
  <2> QED BY <2>2 DEF Walks
<1>3. \A i \in 1..NumBlocks : i - 1 \in 0..NumBlocks /\ i \in 0..NumBlocks /\ i # 0
  BY DiskSize
<1>4. ASSUME NEW i \in 1..NumBlocks PROVE w[i] = Beyond(fat, w[i - 1])
  <2> HIDE DEF F
  <2>1. i \in Nat /\ i - 1 \in 0..NumBlocks
    BY <1>3
  <2>2. w[i - 1] \in SUBSET Block
    BY <2>1
  <2>3. w[i] = F[<<i, w[i - 1]>>]
    BY <1>2
  <2>4. F[<<i, w[i - 1]>>] = Beyond(fat, w[i - 1])
    BY <2>1, <2>2 DEF F
  <2> QED BY <2>3, <2>4
<1>5. w = [n \in 0..NumBlocks |->
             IF n = 0 THEN {h}
             ELSE w[n - 1] \cup ({fat[b] : b \in w[n - 1]} \ {FREE, END})]
  <2>1. w = [n \in 0..NumBlocks |-> w[n]]
    BY <1>2
  <2>2. \A n \in 0..NumBlocks : n = 0 \/ n \in 1..NumBlocks
    BY DiskSize
  <2>3. \A n \in 0..NumBlocks :
          w[n] = IF n = 0 THEN {h}
                 ELSE w[n - 1] \cup ({fat[b] : b \in w[n - 1]} \ {FREE, END})
    BY <1>2, <1>4, <2>2 DEF Beyond
  <2> QED BY <2>1, <2>3
<1>6. walk = CHOOSE f : f = [n \in 0..NumBlocks |->
             IF n = 0 THEN {h}
             ELSE f[n - 1] \cup ({fat[b] : b \in f[n - 1]} \ {FREE, END})]
  OBVIOUS
<1>7. Chain(fat, h) = walk[NumBlocks]
  BY DEF Chain
<1> HIDE DEF walk
<1>8. walk = [n \in 0..NumBlocks |->
             IF n = 0 THEN {h}
             ELSE walk[n - 1] \cup ({fat[b] : b \in walk[n - 1]} \ {FREE, END})]
  BY <1>5, <1>6
<1>9. ASSUME NEW i \in 0..NumBlocks PROVE walk[i] \in SUBSET Block /\ walk[i] = w[i]
  <2> DEFINE S == {n \in Nat : n <= NumBlocks => walk[n] = w[n]}
  <2>1. 0 \in S
    BY <1>2, <1>8, DiskSize
  <2>2. ASSUME NEW n \in Nat, n \in S PROVE n + 1 \in S
    <3>1. SUFFICES ASSUME n + 1 <= NumBlocks PROVE walk[n + 1] = w[n + 1]
      OBVIOUS
    <3>2. /\ n + 1 \in 1..NumBlocks /\ n + 1 \in 0..NumBlocks
          /\ (n + 1) - 1 = n /\ n + 1 # 0 /\ walk[n] = w[n]
      BY <2>2, <3>1, DiskSize
    <3>3. walk[n + 1] = Beyond(fat, walk[n])
      BY <1>8, <3>2 DEF Beyond
    <3>4. w[n + 1] = Beyond(fat, w[n])
      BY <1>4, <3>2
    <3> QED BY <3>2, <3>3, <3>4
  <2> HIDE DEF S
  <2>3. \A n \in Nat : n \in S
    BY <2>1, <2>2, Induction
  <2>4. i \in Nat /\ i <= NumBlocks
    BY DiskSize
  <2> QED BY <1>2, <2>3, <2>4 DEF S
<1>10. NumBlocks \in 0..NumBlocks
  BY DiskSize
<1> QED BY <1>2, <1>4, <1>7, <1>9, <1>10
-----------------------------------------------------------------------------
(* Whether the links of a table lead from blocks of X to blocks of X only. *)
ClosedUnder(fat, X) == \A b \in X : fat[b] \notin {FREE, END} => fat[b] \in X

(* A chain is the least set that has its first block and is closed.  That  *)
(* it is closed takes as many steps as the disk has blocks: each step that *)
(* is not the last adds one.                                               *)
LEMMA ChainLeast ==
  ASSUME NEW fat \in FatType, NEW h \in Block, NEW X, h \in X, ClosedUnder(fat, X)
  PROVE  Chain(fat, h) \subseteq X
<1>1. PICK w \in [0..NumBlocks -> SUBSET Block] :
        /\ w[0] = {h}
        /\ \A i \in 1..NumBlocks : w[i] = Beyond(fat, w[i - 1])
        /\ Chain(fat, h) = w[NumBlocks]
  BY ChainWalk
<1> DEFINE S == {n \in Nat : n <= NumBlocks => w[n] \subseteq X}
<1>2. 0 \in S
  BY <1>1
<1>3. ASSUME NEW n \in Nat, n \in S PROVE n + 1 \in S
  <2>1. SUFFICES ASSUME n + 1 <= NumBlocks PROVE w[n + 1] \subseteq X
    OBVIOUS
  <2>2. n + 1 \in 1..NumBlocks /\ (n + 1) - 1 = n /\ w[n] \subseteq X
    BY <1>3, <2>1, DiskSize
  <2>3. w[n + 1] = Beyond(fat, w[n])
    BY <1>1, <2>2
  <2> QED BY <2>2, <2>3 DEF Beyond, ClosedUnder
<1> HIDE DEF S
<1>4. \A n \in Nat : n \in S
  BY <1>2, <1>3, Induction
<1>5. NumBlocks \in S /\ NumBlocks \in Nat
  BY <1>4, DiskSize
<1> QED BY <1>1, <1>5 DEF S

LEMMA BlocksFinite == IsFiniteSet(Block) /\ Cardinality(Block) = NumBlocks
<1>1. IsFiniteSet(0..(NumBlocks - 1)) /\ Cardinality(0..(NumBlocks - 1)) = NumBlocks
  BY FS_Interval, DiskSize
<1> QED BY <1>1 DEF Block

LEMMA SizeOf ==
  ASSUME NEW X, X \subseteq Block
  PROVE  IsFiniteSet(X) /\ Cardinality(X) \in Nat /\ Cardinality(X) <= NumBlocks
BY BlocksFinite, FS_Subset, FS_CardinalityType

(* A growing walk over sets of blocks ends where it grows no more: each    *)
(* step before that adds a block.                                          *)
LEMMA GrowthStops ==
  ASSUME NEW w \in [0..NumBlocks -> SUBSET Block], w[0] # {}, NEW G,
         \A i \in 1..NumBlocks : w[i] = G[w[i - 1]] /\ w[i - 1] \subseteq w[i]
  PROVE  G[w[NumBlocks]] = w[NumBlocks] /\ w[0] \subseteq w[NumBlocks]
<1> DEFINE S == {n \in Nat : n <= NumBlocks =>
                   w[0] \subseteq w[n] /\ (G[w[n]] = w[n] \/ Cardinality(w[n]) > n)}
<1>0. \A X \in SUBSET Block : IsFiniteSet(X) /\ Cardinality(X) \in Nat /\ Cardinality(X) <= NumBlocks
  BY SizeOf
<1>1. 0 \in S
  <2>1. IsFiniteSet(w[0]) /\ Cardinality(w[0]) \in Nat
    BY <1>0, DiskSize
  <2>2. Cardinality(w[0]) # 0
    BY <2>1, FS_EmptySet
  <2> QED BY <2>1, <2>2
<1>2. ASSUME NEW n \in Nat, n \in S PROVE n + 1 \in S
  <2>1. SUFFICES ASSUME n + 1 <= NumBlocks
                 PROVE  /\ w[0] \subseteq w[n + 1]
                        /\ G[w[n + 1]] = w[n + 1] \/ Cardinality(w[n + 1]) > n + 1
    OBVIOUS
  <2>2. /\ n + 1 \in 1..NumBlocks /\ (n + 1) - 1 = n /\ n \in 0..NumBlocks
        /\ n + 1 \in 0..NumBlocks /\ w[0] \subseteq w[n]
        /\ G[w[n]] = w[n] \/ Cardinality(w[n]) > n
    BY <1>2, <2>1, DiskSize
  <2>3. w[n + 1] = G[w[n]] /\ w[n] \subseteq w[n + 1]
    BY <2>2
  <2>4. CASE G[w[n]] = w[n]
    BY <2>2, <2>3, <2>4
  <2>5. CASE G[w[n]] # w[n]
    <3>1. w[n + 1] \in SUBSET Block /\ w[n] \in SUBSET Block /\ w[n] # w[n + 1]
      BY <2>2, <2>3, <2>5
    <3>2. IsFiniteSet(w[n + 1]) /\ Cardinality(w[n + 1]) \in Nat /\ Cardinality(w[n]) \in Nat
      BY <1>0, <3>1
    <3>3. Cardinality(w[n]) <= Cardinality(w[n + 1]) /\ Cardinality(w[n]) # Cardinality(w[n + 1])
      BY <2>3, <3>1, <3>2, FS_Subset
    <3> QED BY <2>2, <2>3, <2>5, <3>2, <3>3
  <2> QED BY <2>4, <2>5
<1> HIDE DEF S
<1>3. \A n \in Nat : n \in S
  BY <1>1, <1>2, Induction
<1>4. NumBlocks \in S /\ NumBlocks \in Nat /\ NumBlocks \in 0..NumBlocks
  BY <1>3, DiskSize
<1>5. w[NumBlocks] \in SUBSET Block
  BY <1>4
<1>6. Cardinality(w[NumBlocks]) <= NumBlocks /\ Cardinality(w[NumBlocks]) \in Nat
  BY <1>0, <1>5
<1> QED BY <1>4, <1>6 DEF S

(* Chain's recursion goes far enough: it contains the block it starts from *)
(* and every block that one of its own links to.                          *)
LEMMA ChainClosed ==
  ASSUME NEW fat \in FatType, NEW h \in Block
  PROVE  h \in Chain(fat, h) /\ Chain(fat, h) \subseteq Block /\ ClosedUnder(fat, Chain(fat, h))
<1>1. PICK w \in [0..NumBlocks -> SUBSET Block] :
        /\ w[0] = {h}
        /\ \A i \in 1..NumBlocks : w[i] = Beyond(fat, w[i - 1])
        /\ Chain(fat, h) = w[NumBlocks]
  BY ChainWalk
<1> DEFINE G == [seen \in SUBSET Block |-> Beyond(fat, seen)]
<1>2. ASSUME NEW i \in 1..NumBlocks PROVE w[i] = G[w[i - 1]] /\ w[i - 1] \subseteq w[i]
  <2>1. i - 1 \in 0..NumBlocks
    BY DiskSize
  <2>2. w[i - 1] \in SUBSET Block /\ w[i] = Beyond(fat, w[i - 1])
    BY <1>1, <2>1
  <2> QED BY <2>2 DEF Beyond
<1>3. NumBlocks \in 0..NumBlocks
  BY DiskSize
<1>4. w[NumBlocks] \in SUBSET Block /\ G[w[NumBlocks]] = Beyond(fat, w[NumBlocks])
  BY <1>3
<1> HIDE DEF G
<1>5. G[w[NumBlocks]] = w[NumBlocks] /\ {h} \subseteq w[NumBlocks]
  BY <1>1, <1>2, GrowthStops
<1> QED BY <1>1, <1>4, <1>5 DEF Beyond, ClosedUnder

LEMMA ChainOf ==
  ASSUME NEW fat \in FatType, NEW h \in Block, NEW b \in Chain(fat, h)
  PROVE  b \in Block /\ Chain(fat, b) \subseteq Chain(fat, h)
<1>1. b \in Block
  BY ChainClosed
<1>2. ClosedUnder(fat, Chain(fat, h))
  BY ChainClosed
<1> QED BY <1>1, <1>2, ChainLeast

(* A block of a chain is its first or the successor of one of the chain.   *)
LEMMA ChainPredecessor ==
  ASSUME NEW fat \in FatType, NEW h \in Block, NEW b \in Chain(fat, h), b # h
  PROVE  \E c \in Chain(fat, h) : fat[c] = b /\ fat[c] \notin {FREE, END}
<1> DEFINE C == Chain(fat, h)
           X == {h} \cup {x \in C : \E c \in C : fat[c] = x /\ fat[c] \notin {FREE, END}}
<1>1. h \in C /\ C \subseteq Block /\ ClosedUnder(fat, C)
  BY ChainClosed
<1> HIDE DEF C
<1>2. ClosedUnder(fat, X)
  BY <1>1 DEF ClosedUnder
<1>3. h \in X
  OBVIOUS
<1> HIDE DEF X
<1>4. C \subseteq X
  BY <1>2, <1>3, ChainLeast DEF C
<1> QED BY <1>4 DEF X, C

(* A chain whose first block links to no other is that block.              *)
LEMMA ChainOfOne ==
  ASSUME NEW fat \in FatType, NEW h \in Block, fat[h] \in {FREE, END}
  PROVE  Chain(fat, h) = {h}
<1>1. ClosedUnder(fat, {h})
  BY DEF ClosedUnder
<1>2. h \in {h}
  OBVIOUS
<1>3. Chain(fat, h) \subseteq {h}
  BY <1>1, <1>2, ChainLeast
<1> QED BY <1>3, ChainClosed

(* Tables that agree on a chain have the same chain. *)
LEMMA ChainSame ==
  ASSUME NEW fat \in FatType, NEW g \in FatType, NEW h \in Block,
         \A b \in Chain(fat, h) : g[b] = fat[b]
  PROVE  Chain(g, h) = Chain(fat, h)
<1>1. h \in Chain(fat, h) /\ ClosedUnder(fat, Chain(fat, h))
  BY ChainClosed
<1>2. ClosedUnder(g, Chain(fat, h))
  BY <1>1 DEF ClosedUnder
<1>3. Chain(g, h) \subseteq Chain(fat, h)
  BY <1>1, <1>2, ChainLeast
<1>4. h \in Chain(g, h) /\ ClosedUnder(g, Chain(g, h))
  BY ChainClosed
<1>5. ClosedUnder(fat, Chain(g, h))
  BY <1>3, <1>4 DEF ClosedUnder
<1> QED BY <1>3, <1>4, <1>5, ChainLeast
-----------------------------------------------------------------------------
(* Linked *)

(* What Linked says of one table, to be cited in parts. *)
LEMMA LinkedParts ==
  ASSUME NEW fat, NEW roots, Linked(fat, roots)
  PROVE  /\ \A r \in roots : fat[r] # FREE
         /\ \A b \in Block : fat[b] \notin {FREE, END} => fat[b] \notin roots
         /\ \A b \in Block : fat[b] \notin {FREE, END} => fat[fat[b]] # FREE
         /\ \A b, c \in Block : fat[b] \notin {FREE, END} /\ fat[c] = fat[b] => c = b
BY DEF Linked

LEMMA Targets ==
  ASSUME NEW fat \in FatType, NEW b \in Block, fat[b] \notin {FREE, END}
  PROVE  fat[b] \in Block
BY DEF FatType

(* Every closed set that has the roots has every allocated block. *)
Reaches(fat, roots) ==
  \A X \in SUBSET Block : roots \subseteq X /\ ClosedUnder(fat, X) =>
    \A b \in Block : fat[b] # FREE => b \in X

(* The last part of Linked, without chains. *)
LEMMA ReachesChains ==
  ASSUME NEW fat \in FatType, NEW roots, roots \subseteq Block
  PROVE  {b \in Block : fat[b] # FREE} \subseteq UNION {Chain(fat, r) : r \in roots}
           <=> Reaches(fat, roots)
<1> DEFINE U == UNION {Chain(fat, r) : r \in roots}
<1>1. \A r \in roots : r \in Chain(fat, r) /\ Chain(fat, r) \subseteq Block
                     /\ ClosedUnder(fat, Chain(fat, r))
  BY ChainClosed
<1>2. ASSUME Reaches(fat, roots) PROVE {b \in Block : fat[b] # FREE} \subseteq U
  <2>1. U \in SUBSET Block /\ roots \subseteq U
    BY <1>1
  <2>2. ClosedUnder(fat, U)
    BY <1>1 DEF ClosedUnder
  <2> HIDE DEF U
  <2> QED BY <1>2, <2>1, <2>2 DEF Reaches
<1>3. ASSUME {b \in Block : fat[b] # FREE} \subseteq U,
             NEW X \in SUBSET Block, roots \subseteq X, ClosedUnder(fat, X),
             NEW b \in Block, fat[b] # FREE
      PROVE  b \in X
  <2>1. PICK r \in roots : b \in Chain(fat, r)
    BY <1>3
  <2>2. r \in Block /\ r \in X
    BY <1>3
  <2> QED BY <1>3, <2>1, <2>2, ChainLeast
<1> QED BY <1>2, <1>3 DEF Reaches

LEMMA LinkedReaches ==
  ASSUME NEW fat \in FatType, NEW roots, roots \subseteq Block, Linked(fat, roots)
  PROVE  Reaches(fat, roots)
BY ReachesChains DEF Linked

LEMMA LinkedIntro ==
  ASSUME NEW fat \in FatType, NEW roots, roots \subseteq Block,
         \A r \in roots : fat[r] # FREE,
         \A b \in Block : fat[b] \notin {FREE, END} =>
           /\ fat[b] \notin roots
           /\ fat[fat[b]] # FREE
           /\ \A c \in Block : fat[c] = fat[b] => c = b,
         Reaches(fat, roots)
  PROVE  Linked(fat, roots)
BY ReachesChains DEF Linked

(* Every block of an allocated block's chain is allocated. *)
LEMMA ChainAllocated ==
  ASSUME NEW fat \in FatType, NEW roots, Linked(fat, roots),
         NEW h \in Block, fat[h] # FREE, NEW b \in Chain(fat, h)
  PROVE  fat[b] # FREE
<1> DEFINE X == {c \in Block : fat[c] # FREE}
<1>1. ClosedUnder(fat, X)
  <2>1. ASSUME NEW c \in X, fat[c] \notin {FREE, END} PROVE fat[c] \in X
    BY <2>1, LinkedParts, Targets
  <2> QED BY <2>1 DEF ClosedUnder
<1>2. h \in X
  OBVIOUS
<1> HIDE DEF X
<1>3. Chain(fat, h) \subseteq X
  BY <1>1, <1>2, ChainLeast
<1> QED BY <1>3 DEF X

(* Links are one-to-one: without the chain of q a closed set stays closed  *)
(* if no link leads from it to q.                                          *)
LEMMA ChainMinus ==
  ASSUME NEW fat \in FatType, NEW roots, Linked(fat, roots),
         NEW h \in Block, NEW q \in Block,
         NEW X, ClosedUnder(fat, X), X \subseteq Block,
         \A b \in X \ Chain(fat, q) : fat[b] = q => fat[b] \in {FREE, END}
  PROVE  ClosedUnder(fat, X \ Chain(fat, q))
<1> SUFFICES ASSUME NEW b \in X \ Chain(fat, q), fat[b] \notin {FREE, END},
                    fat[b] \in Chain(fat, q)
             PROVE  FALSE
  BY DEF ClosedUnder
<1>1. fat[b] # q
  OBVIOUS
<1>2. PICK c \in Chain(fat, q) : fat[c] = fat[b]
  BY <1>1, ChainPredecessor
<1>3. c \in Block /\ b \in Block
  BY ChainOf
<1> QED BY <1>2, <1>3, LinkedParts

(* A root is in no other chain. *)
LEMMA RootAlone ==
  ASSUME NEW fat \in FatType, NEW roots, Linked(fat, roots),
         NEW r \in roots, NEW q \in Block, q # r
  PROVE  r \notin Chain(fat, q)
<1> SUFFICES ASSUME r \in Chain(fat, q) PROVE FALSE
  OBVIOUS
<1>1. PICK c \in Chain(fat, q) : fat[c] = r /\ fat[c] \notin {FREE, END}
  BY ChainPredecessor
<1>2. c \in Block
  BY ChainOf
<1> QED BY <1>1, <1>2, LinkedParts

LEMMA ChainsDisjoint ==
  ASSUME NEW fat \in FatType, NEW roots, roots \subseteq Block, Linked(fat, roots),
         NEW r \in roots, NEW q \in roots, r # q
  PROVE  Chain(fat, r) \cap Chain(fat, q) = {}
<1>1. r \in Block /\ q \in Block
  OBVIOUS
<1> DEFINE X == Chain(fat, r)
<1>2. r \in X /\ X \subseteq Block /\ ClosedUnder(fat, X)
  BY <1>1, ChainClosed
<1>3. \A b \in X \ Chain(fat, q) : fat[b] = q => fat[b] \in {FREE, END}
  BY <1>2, LinkedParts
<1> HIDE DEF X
<1>4. ClosedUnder(fat, X \ Chain(fat, q))
  BY <1>1, <1>2, <1>3, ChainMinus
<1>5. r \in X \ Chain(fat, q)
  BY <1>1, <1>2, RootAlone
<1>6. X \subseteq X \ Chain(fat, q)
  BY <1>1, <1>4, <1>5, ChainLeast DEF X
<1> QED BY <1>6 DEF X

(* The chain of a root ends: its links are one-to-one and miss the root.   *)
LEMMA ChainEnds ==
  ASSUME NEW fat \in FatType, NEW roots, roots \subseteq Block, Linked(fat, roots),
         NEW r \in roots
  PROVE  \E b \in Chain(fat, r) : fat[b] = END
<1> SUFFICES ASSUME \A b \in Chain(fat, r) : fat[b] # END PROVE FALSE
  OBVIOUS
<1> DEFINE C == Chain(fat, r)
           D == C \ {r}
           f == [b \in C |-> fat[b]]
<1>1. r \in C /\ C \subseteq Block /\ ClosedUnder(fat, C) /\ r \in Block
  BY ChainClosed
<1>2. \A b \in C : fat[b] \notin {FREE, END}
  BY <1>1, LinkedParts, ChainAllocated
<1> HIDE DEF C
<1>3. f \in [C -> D]
  <2>1. \A b \in C : fat[b] \in C /\ fat[b] # r
    BY <1>1, <1>2, LinkedParts DEF ClosedUnder
  <2> QED BY <2>1
<1>4. IsFiniteSet(C) /\ Cardinality(C) \in Nat
  BY <1>1, SizeOf
<1>5. IsFiniteSet(D) /\ Cardinality(D) < Cardinality(C)
  <2>1. IsFiniteSet(C \ {r}) /\ Cardinality(C \ {r}) = Cardinality(C) - 1
    BY <1>1, <1>4, FS_RemoveElement
  <2> QED BY <1>4, <2>1
<1> HIDE DEF D, f
<1>6. \E x, y \in C : x # y /\ f[x] = f[y]
  BY <1>3, <1>4, <1>5, FS_PigeonHole
<1>7. PICK x, y \in C : x # y /\ fat[x] = fat[y]
  BY <1>6 DEF f
<1> QED BY <1>1, <1>2, <1>7, LinkedParts

(* A linked table is partitioned. *)
LEMMA LinkedPartitioned ==
  ASSUME NEW fat \in FatType, NEW roots, roots \subseteq Block, Linked(fat, roots)
  PROVE  Partitioned(fat, roots)
<1> DEFINE area == [r \in roots |-> Chain(fat, r)]
<1>1. \A r \in roots : \E b \in area[r] : fat[b] = END
  BY ChainEnds
<1>2. \A r, q \in roots : r # q => area[r] \cap area[q] = {}
  BY ChainsDisjoint
<1>3. UNION {area[r] : r \in roots} = UNION {Chain(fat, r) : r \in roots}
  OBVIOUS
<1>4. {b \in Block : fat[b] # FREE} \subseteq UNION {Chain(fat, r) : r \in roots}
  BY DEF Linked
<1>5. \A r \in roots : \A b \in Chain(fat, r) : b \in Block /\ fat[b] # FREE
  BY ChainAllocated, ChainOf, LinkedParts
<1>6. {b \in Block : fat[b] # FREE} = UNION {area[r] : r \in roots}
  BY <1>3, <1>4, <1>5
<1> HIDE DEF area
<1> QED BY <1>1, <1>2, <1>6 DEF Partitioned, area
-----------------------------------------------------------------------------
(* Changes *)

(* Whether g is fat with the entry of b replaced by e. *)
Sets(g, fat, b, e) == \A c \in Block : g[c] = IF c = b THEN e ELSE fat[c]

(* A free block becomes a chain of its own: do_create, do_mkdir. *)
LEMMA LinkedAdd ==
  ASSUME NEW fat \in FatType, NEW roots, Linked(fat, roots),
         NEW b \in Block, fat[b] = FREE,
         NEW g \in FatType, Sets(g, fat, b, END), roots \subseteq Block
  PROVE  Linked(g, roots \cup {b})
<1>1. END # FREE
  BY DEF END, FREE
<1>2. \A c \in Block : fat[c] \notin {FREE, END} => fat[c] # b /\ fat[c] \in Block
  BY LinkedParts, Targets
<1>3. \A c \in Block : g[c] = IF c = b THEN END ELSE fat[c]
  BY DEF Sets
<1>4. \A r \in roots \cup {b} : g[r] # FREE
  BY <1>1, <1>3, LinkedParts
<1>5. \A c \in Block : g[c] \notin {FREE, END} =>
         /\ g[c] \notin roots \cup {b}
         /\ g[g[c]] # FREE
         /\ \A d \in Block : g[d] = g[c] => d = c
  <2> TAKE c \in Block
  <2> HAVE g[c] \notin {FREE, END}
  <2>1. c # b /\ g[c] = fat[c] /\ fat[c] \notin {FREE, END}
    BY <1>3
  <2>2. fat[c] \notin roots /\ fat[fat[c]] # FREE /\ fat[c] # b /\ fat[c] \in Block
    BY <1>2, <2>1, LinkedParts
  <2>3. ASSUME NEW d \in Block, g[d] = g[c] PROVE d = c
    <3>1. d # b /\ fat[d] = fat[c]
      BY <1>3, <2>1, <2>3
    <3> QED BY <3>1, <2>1, LinkedParts
  <2> QED BY <1>3, <2>1, <2>2, <2>3
<1>6. Reaches(g, roots \cup {b})
  <2> SUFFICES ASSUME NEW X \in SUBSET Block, roots \cup {b} \subseteq X, ClosedUnder(g, X),
                      NEW c \in Block, g[c] # FREE
               PROVE  c \in X
    BY DEF Reaches
  <2>1. ClosedUnder(fat, X)
    BY <1>3 DEF ClosedUnder
  <2> QED BY <1>3, <2>1, LinkedReaches DEF Reaches
<1> QED BY <1>4, <1>5, <1>6, LinkedIntro

(* Whether g is fat with n appended after b. *)
Appends(g, fat, b, n) ==
  \A c \in Block : g[c] = IF c = n THEN END ELSE IF c = b THEN n ELSE fat[c]

(* A free block is appended to a chain: write_extend. *)
LEMMA LinkedExtend ==
  ASSUME NEW fat \in FatType, NEW roots, Linked(fat, roots), roots \subseteq Block,
         NEW b \in Block, fat[b] = END,
         NEW n \in Block, fat[n] = FREE, n # FREE,
         NEW g \in FatType, Appends(g, fat, b, n)
  PROVE  Linked(g, roots)
<1>1. END # FREE /\ b # n /\ n # END
  BY DiskSize DEF END, FREE, Block
<1>2. \A c \in Block : fat[c] \notin {FREE, END} => fat[c] # n /\ fat[c] \in Block
  BY LinkedParts, Targets
<1>3. n \notin roots
  BY LinkedParts
<1> USE DEF Appends
<1>4. \A r \in roots : g[r] # FREE
  BY <1>1, LinkedParts
<1>5. \A c \in Block : g[c] \notin {FREE, END} =>
         /\ g[c] \notin roots
         /\ g[g[c]] # FREE
         /\ \A d \in Block : g[d] = g[c] => d = c
  <2> TAKE c \in Block
  <2> HAVE g[c] \notin {FREE, END}
  <2>1. c # n
    OBVIOUS
  <2>2. CASE c = b
    <3>1. g[c] = n /\ g[n] = END
      BY <2>1, <2>2
    <3>2. \A d \in Block : g[d] = n => d = b
      BY <1>1, <1>2
    <3> QED BY <1>1, <1>3, <2>2, <3>1, <3>2
  <2>3. CASE c # b
    <3>1. g[c] = fat[c] /\ fat[c] \notin {FREE, END}
      BY <2>1, <2>3
    <3>2. fat[c] \notin roots /\ fat[fat[c]] # FREE /\ fat[c] # n /\ fat[c] \in Block
      BY <1>2, <3>1, LinkedParts
    <3>3. ASSUME NEW d \in Block, g[d] = g[c] PROVE d = c
      <4>1. d # n /\ d # b
        BY <3>1, <3>2, <3>3
      <4>2. fat[d] = fat[c]
        BY <3>1, <3>3, <4>1
      <4> QED BY <3>1, <4>2, LinkedParts
    <3>4. g[fat[c]] # FREE
      BY <1>1, <3>2
    <3> QED BY <3>1, <3>2, <3>3, <3>4
  <2> QED BY <2>2, <2>3
<1>6. Reaches(g, roots)
  <2> SUFFICES ASSUME NEW X \in SUBSET Block, roots \subseteq X, ClosedUnder(g, X),
                      NEW c \in Block, g[c] # FREE
               PROVE  c \in X
    BY DEF Reaches
  <2>1. ClosedUnder(fat, X)
    <3>1. ASSUME NEW d \in X, fat[d] \notin {FREE, END} PROVE fat[d] \in X
      <4>1. g[d] = fat[d]
        BY <3>1
      <4> QED BY <3>1, <4>1 DEF ClosedUnder
    <3> QED BY <3>1 DEF ClosedUnder
  <2>2. b \in X
    BY <1>1, <2>1, LinkedReaches DEF Reaches
  <2>3. n \in X
    <3>1. g[b] = n
      BY <1>1
    <3> QED BY <1>1, <2>2, <3>1 DEF ClosedUnder
  <2>4. c # n => fat[c] # FREE
    BY <1>1
  <2> QED BY <2>1, <2>3, <2>4, LinkedReaches DEF Reaches
<1> QED BY <1>4, <1>5, <1>6, LinkedIntro

(* The rest of a chain is cut off and becomes one of its own: write_last. *)
LEMMA LinkedCut ==
  ASSUME NEW fat \in FatType, NEW roots, Linked(fat, roots), roots \subseteq Block,
         NEW b \in Block, fat[b] \notin {FREE, END},
         NEW g \in FatType, Sets(g, fat, b, END)
  PROVE  Linked(g, roots \cup {fat[b]}) /\ fat[b] \notin roots
<1> DEFINE n == fat[b]
<1>1. END # FREE
  BY DEF END, FREE
<1>2. n \in Block /\ n \notin roots /\ fat[n] # FREE
  BY LinkedParts, Targets
<1>3. \A c \in Block : g[c] = IF c = b THEN END ELSE fat[c]
  BY DEF Sets
<1> HIDE DEF n
<1>4. \A r \in roots \cup {n} : g[r] # FREE
  BY <1>1, <1>2, <1>3, LinkedParts
<1>5. \A c \in Block : g[c] \notin {FREE, END} =>
         /\ g[c] \notin roots \cup {n}
         /\ g[g[c]] # FREE
         /\ \A d \in Block : g[d] = g[c] => d = c
  <2> TAKE c \in Block
  <2> HAVE g[c] \notin {FREE, END}
  <2>1. c # b /\ g[c] = fat[c] /\ fat[c] \notin {FREE, END}
    BY <1>3
  <2>2. fat[c] \notin roots /\ fat[fat[c]] # FREE /\ fat[c] \in Block
    BY <2>1, LinkedParts, Targets
  <2>3. fat[c] # n
    BY <2>1, LinkedParts DEF n
  <2>4. ASSUME NEW d \in Block, g[d] = g[c] PROVE d = c
    <3>1. d # b /\ fat[d] = fat[c]
      BY <1>3, <2>1, <2>4
    <3> QED BY <3>1, <2>1, LinkedParts
  <2>5. g[fat[c]] # FREE
    BY <1>1, <1>3, <2>2
  <2> QED BY <2>1, <2>2, <2>3, <2>4, <2>5
<1>6. Reaches(g, roots \cup {n})
  <2> SUFFICES ASSUME NEW X \in SUBSET Block, roots \cup {n} \subseteq X, ClosedUnder(g, X),
                      NEW c \in Block, g[c] # FREE
               PROVE  c \in X
    BY DEF Reaches
  <2>1. ClosedUnder(fat, X)
    <3>1. ASSUME NEW d \in X, fat[d] \notin {FREE, END} PROVE fat[d] \in X
      BY <1>3, <3>1 DEF ClosedUnder, n
    <3> QED BY <3>1 DEF ClosedUnder
  <2>2. fat[c] # FREE
    BY <1>3
  <2> QED BY <2>1, <2>2, LinkedReaches DEF Reaches
<1>7. Linked(g, roots \cup {n})
  BY <1>2, <1>4, <1>5, <1>6, LinkedIntro
<1> QED BY <1>2, <1>7 DEF n

(* The first block of a chain is freed, and the next one, if there is one, *)
(* becomes the first: trim_step and the only iteration of reclaim_step.    *)
LEMMA LinkedFreeFirst ==
  ASSUME NEW fat \in FatType, NEW roots, roots \subseteq Block,
         NEW r \in Block, r \notin roots, Linked(fat, roots \cup {r}),
         NEW g \in FatType, Sets(g, fat, r, FREE)
  PROVE  /\ fat[r] = END => Linked(g, roots)
         /\ fat[r] # END => /\ fat[r] \in Block /\ fat[r] \notin roots \cup {r}
                            /\ Linked(g, roots \cup {fat[r]})
<1> DEFINE n == fat[r]
           rest == IF n = END THEN roots ELSE roots \cup {n}
<1>1. END # FREE
  BY DEF END, FREE
<1>2. n # FREE /\ (n # END => n \in Block /\ n \notin roots \cup {r} /\ fat[n] # FREE)
  BY LinkedParts, Targets
<1>3. \A c \in Block : g[c] = IF c = r THEN FREE ELSE fat[c]
  BY DEF Sets
<1> HIDE DEF n
<1>4. \A q \in rest : g[q] # FREE
  <2>1. \A q \in roots : fat[q] # FREE /\ q # r
    BY LinkedParts
  <2> QED BY <2>1, <1>2, <1>3
<1>5. \A c \in Block : g[c] \notin {FREE, END} =>
         /\ g[c] \notin rest
         /\ g[g[c]] # FREE
         /\ \A d \in Block : g[d] = g[c] => d = c
  <2> TAKE c \in Block
  <2> HAVE g[c] \notin {FREE, END}
  <2>1. c # r /\ g[c] = fat[c] /\ fat[c] \notin {FREE, END}
    BY <1>3
  <2>2. fat[c] \notin roots /\ fat[c] # r /\ fat[fat[c]] # FREE /\ fat[c] \in Block
    BY <2>1, LinkedParts, Targets
  <2>3. fat[c] # n
    BY <2>1, LinkedParts DEF n
  <2>4. ASSUME NEW d \in Block, g[d] = g[c] PROVE d = c
    <3>1. d # r /\ fat[d] = fat[c]
      BY <1>3, <2>1, <2>4
    <3> QED BY <3>1, <2>1, LinkedParts
  <2>5. g[fat[c]] # FREE
    BY <1>3, <2>2
  <2> QED BY <2>1, <2>2, <2>3, <2>4, <2>5
<1>6. Reaches(g, rest)
  <2> SUFFICES ASSUME NEW X \in SUBSET Block, rest \subseteq X, ClosedUnder(g, X),
                      NEW c \in Block, g[c] # FREE
               PROVE  c \in X
    BY DEF Reaches
  <2>1. ClosedUnder(fat, X \cup {r})
    <3>1. ASSUME NEW d \in X \cup {r}, fat[d] \notin {FREE, END}
          PROVE  fat[d] \in X \cup {r}
      <4>1. CASE d = r
        BY <3>1, <4>1 DEF n
      <4>2. CASE d # r
        BY <1>3, <3>1, <4>2 DEF ClosedUnder
      <4> QED BY <4>1, <4>2
    <3> QED BY <3>1 DEF ClosedUnder
  <2>2. X \cup {r} \in SUBSET Block /\ roots \cup {r} \subseteq X \cup {r}
    OBVIOUS
  <2>3. fat[c] # FREE /\ c # r
    BY <1>3
  <2>4. Reaches(fat, roots \cup {r})
    BY LinkedReaches
  <2> QED BY <2>1, <2>2, <2>3, <2>4 DEF Reaches
<1>7. Linked(g, rest)
  <2>1. rest \subseteq Block
    BY <1>2
  <2> HIDE DEF rest
  <2> QED BY <2>1, <1>4, <1>5, <1>6, LinkedIntro
<1>8. CASE n = END
  BY <1>1, <1>7, <1>8 DEF n
<1>9. CASE n # END
  BY <1>2, <1>7, <1>9 DEF n
<1> QED BY <1>8, <1>9
-----------------------------------------------------------------------------
(* Going along a chain, as do_write does *)

(* After its first block a chain goes on with the chain of the next, which *)
(* does not come back to it.                                               *)
LEMMA ChainRest ==
  ASSUME NEW fat \in FatType, NEW roots, roots \subseteq Block, Linked(fat, roots),
         NEW r \in roots, NEW b \in Chain(fat, r), fat[b] \notin {FREE, END}
  PROVE  /\ fat[b] \in Chain(fat, r) /\ fat[b] \in Block
         /\ Chain(fat, b) = {b} \cup Chain(fat, fat[b])
         /\ b \notin Chain(fat, fat[b])
         /\ r \notin Chain(fat, fat[b])
         /\ Chain(fat, fat[b]) \subseteq Chain(fat, r)
<1> DEFINE n == fat[b]
           C == Chain(fat, r)
           T == Chain(fat, n)
<1>1. r \in C /\ C \subseteq Block /\ ClosedUnder(fat, C) /\ r \in Block /\ b \in Block
  BY ChainClosed
<1>2. n \in C /\ n \in Block
  BY <1>1 DEF ClosedUnder
<1>3. n \in T /\ T \subseteq Block /\ ClosedUnder(fat, T) /\ T \subseteq C
  BY <1>2, ChainClosed, ChainOf
<1>4. r # n
  BY <1>1, LinkedParts
<1> HIDE DEF n
<1>5. r \notin T
  BY <1>2, <1>4, RootAlone
<1>6. b \notin T
  <2> SUFFICES ASSUME b \in T PROVE FALSE
    OBVIOUS
  <2>1. \A c \in C \ T : fat[c] = n => fat[c] \in {FREE, END}
    <3>1. \A c \in C \ T : c \in Block /\ c # b
      BY <1>1
    <3> QED BY <1>1, <3>1, LinkedParts DEF n
  <2>2. ClosedUnder(fat, C \ T)
    <3> HIDE DEF C
    <3> QED BY <1>1, <1>2, <2>1, ChainMinus
  <2>3. C \subseteq C \ T
    <3>1. r \in C \ T
      BY <1>1, <1>5
    <3> HIDE DEF T
    <3> QED BY <1>1, <2>2, <3>1, ChainLeast
  <2> QED BY <2>3
<1>7. Chain(fat, b) \subseteq {b} \cup T
  <2>1. ClosedUnder(fat, {b} \cup T)
    BY <1>3 DEF ClosedUnder, n
  <2>2. b \in {b} \cup T
    OBVIOUS
  <2> HIDE DEF T
  <2> QED BY <1>1, <2>1, <2>2, ChainLeast
<1>8. b \in Chain(fat, b) /\ ClosedUnder(fat, Chain(fat, b))
  BY <1>1, ChainClosed
<1>9. n \in Chain(fat, b)
  BY <1>8 DEF ClosedUnder, n
<1>10. T \subseteq Chain(fat, b)
  BY <1>1, <1>9, ChainOf
<1> QED BY <1>2, <1>3, <1>5, <1>6, <1>7, <1>8, <1>10 DEF n

(* Appending a free block to a chain adds it to the chain: write_extend.   *)
LEMMA ChainExtended ==
  ASSUME NEW fat \in FatType, NEW g \in FatType, NEW h \in Block,
         NEW b \in Chain(fat, h), fat[b] = END,
         NEW n \in Block, n # FREE, fat[n] = FREE, n \notin Chain(fat, h),
         Appends(g, fat, b, n)
  PROVE  Chain(g, h) = Chain(fat, h) \cup {n} /\ Chain(g, n) = {n}
<1> DEFINE C == Chain(fat, h)
           D == Chain(g, h)
<1>1. h \in C /\ C \subseteq Block /\ ClosedUnder(fat, C) /\ b \in Block
  BY ChainClosed
<1>2. h \in D /\ D \subseteq Block /\ ClosedUnder(g, D)
  BY ChainClosed
<1>3. g[n] = END /\ (n # b => g[b] = n) /\ n # b /\ n # END
  BY <1>1, BlocksEnd DEF Appends, END
<1>4. \A c \in Block : c # n /\ c # b => g[c] = fat[c]
  BY DEF Appends
<1>5. Chain(g, n) = {n}
  BY <1>3, ChainOfOne
<1> HIDE DEF C, D
<1>6. ClosedUnder(g, C \cup {n})
  BY <1>1, <1>3, <1>4 DEF ClosedUnder
<1>7. D \subseteq C \cup {n}
  <2>1. h \in C \cup {n}
    BY <1>1
  <2> QED BY <1>6, <2>1, ChainLeast DEF D
<1>8. ClosedUnder(fat, D)
  <2>1. ASSUME NEW c \in D, fat[c] \notin {FREE, END} PROVE fat[c] \in D
    <3>1. c # b /\ c # n /\ c \in Block
      BY <1>2, <2>1
    <3> QED BY <1>2, <1>4, <2>1, <3>1 DEF ClosedUnder
  <2> QED BY <2>1 DEF ClosedUnder
<1>9. C \subseteq D
  BY <1>2, <1>8, ChainLeast DEF C
<1>10. n \in D
  BY <1>2, <1>3, <1>9 DEF ClosedUnder, C
<1> QED BY <1>5, <1>7, <1>9, <1>10 DEF C, D

(* Cutting a chain after one of its blocks leaves what was not after it:   *)
(* write_last.                                                             *)
LEMMA ChainCut ==
  ASSUME NEW fat \in FatType, NEW g \in FatType,
         NEW roots, roots \subseteq Block, Linked(fat, roots),
         NEW r \in roots, NEW b \in Chain(fat, r), fat[b] \notin {FREE, END},
         Sets(g, fat, b, END)
  PROVE  Chain(g, r) = Chain(fat, r) \ Chain(fat, fat[b])
<1> DEFINE n == fat[b]
           C == Chain(fat, r)
           T == Chain(fat, n)
           D == Chain(g, r)
<1>1. r \in C /\ C \subseteq Block /\ ClosedUnder(fat, C) /\ r \in Block /\ b \in Block
  BY ChainClosed
<1>2. n \in C /\ n \in Block /\ r \notin T /\ b \notin T
  BY ChainRest
<1>3. n \in T /\ T \subseteq Block /\ ClosedUnder(fat, T)
  BY <1>2, ChainClosed
<1>4. r \in D /\ D \subseteq Block /\ ClosedUnder(g, D)
  BY <1>1, ChainClosed
<1>5. g[b] = END /\ \A c \in Block : c # b => g[c] = fat[c]
  BY <1>1 DEF Sets
<1>6. ClosedUnder(g, C \ T)
  <2>1. ASSUME NEW c \in C \ T, c # b, fat[c] \notin {FREE, END} PROVE fat[c] \in C \ T
    <3>1. c \in Block /\ fat[c] \in C
      BY <1>1, <2>1 DEF ClosedUnder
    <3>2. fat[c] # n
      BY <1>1, <2>1, <3>1, LinkedParts
    <3>3. ASSUME fat[c] \in T PROVE FALSE
      <4>1. PICK d \in T : fat[d] = fat[c]
        BY <1>2, <3>2, <3>3, ChainPredecessor
      <4>2. d = c
        BY <1>3, <2>1, <3>1, <4>1, LinkedParts
      <4> QED BY <2>1, <4>2
    <3> QED BY <3>1, <3>3
  <2>2. ASSUME NEW c \in C \ T, g[c] \notin {FREE, END} PROVE g[c] \in C \ T
    <3>1. c # b /\ c \in Block
      BY <1>1, <1>5, <2>2
    <3> QED BY <1>5, <2>1, <2>2, <3>1
  <2> QED BY <2>2 DEF ClosedUnder
<1>7. ClosedUnder(fat, D \cup T)
  <2>1. ASSUME NEW c \in D \cup T, fat[c] \notin {FREE, END} PROVE fat[c] \in D \cup T
    <3>1. CASE c \in T
      BY <1>3, <2>1, <3>1 DEF ClosedUnder
    <3>2. CASE c = b
      BY <1>3, <3>2
    <3>3. CASE c \in D /\ c # b
      <4>1. g[c] = fat[c]
        BY <1>4, <1>5, <3>3
      <4> QED BY <1>4, <2>1, <3>3, <4>1 DEF ClosedUnder
    <3> QED BY <2>1, <3>1, <3>2, <3>3
  <2> QED BY <2>1 DEF ClosedUnder
<1> HIDE DEF n, T
<1>8. D \subseteq C \ T
  <2>1. r \in C \ T
    BY <1>1, <1>2
  <2> HIDE DEF C
  <2> QED BY <1>1, <1>6, <2>1, ChainLeast
<1>9. C \subseteq D \cup T
  <2>1. r \in D \cup T
    BY <1>4
  <2> HIDE DEF D
  <2> QED BY <1>1, <1>7, <2>1, ChainLeast
<1>10. D = C \ T
  BY <1>8, <1>9
<1> QED BY <1>10 DEF n, T

(* What is before a block of a chain grows by the block at the next one,   *)
(* and with the last block is the whole chain.                             *)
LEMMA BeforeGrows ==
  ASSUME NEW fat \in FatType, NEW roots, roots \subseteq Block, Linked(fat, roots),
         NEW r \in roots, NEW b \in Chain(fat, r)
  PROVE  /\ Cardinality(Before(fat, r, b)) \in Nat
         /\ fat[b] = END => Cardinality(Chain(fat, r)) = Cardinality(Before(fat, r, b)) + 1
         /\ fat[b] \notin {FREE, END} =>
              Cardinality(Before(fat, r, fat[b])) = Cardinality(Before(fat, r, b)) + 1
<1> DEFINE C == Chain(fat, r)
           P == Before(fat, r, b)
<1>1. C \subseteq Block /\ b \in Block /\ b \in Chain(fat, b)
  BY ChainClosed
<1>2. P \subseteq Block /\ b \notin P
  BY <1>1 DEF Before
<1> HIDE DEF P
<1>3. IsFiniteSet(P) /\ Cardinality(P) \in Nat
  BY <1>2, SizeOf
<1>4. Cardinality(P \cup {b}) = Cardinality(P) + 1
  BY <1>2, <1>3, FS_AddElement
<1>5. ASSUME fat[b] = END PROVE C = P \cup {b}
  <2>1. Chain(fat, b) = {b}
    BY <1>1, <1>5, ChainOfOne
  <2> QED BY <2>1 DEF P, Before
<1>6. ASSUME fat[b] \notin {FREE, END} PROVE Before(fat, r, fat[b]) = P \cup {b}
  <2> DEFINE T == Chain(fat, fat[b])
  <2>1. Chain(fat, b) = {b} \cup T /\ b \notin T
    BY <1>6, ChainRest
  <2> HIDE DEF T
  <2>2. C \ T = (C \ ({b} \cup T)) \cup {b}
    BY <2>1
  <2> QED BY <2>1, <2>2 DEF P, Before, T
<1> QED BY <1>3, <1>4, <1>5, <1>6 DEF P
-----------------------------------------------------------------------------
(* The system area *)

LEMMA SystemBlocks ==
  /\ SystemBlock = {0, 1, 2, 3, 4, 5, 6} /\ SystemBlock \subseteq Block
  /\ FREE = 0 /\ END = 65535 /\ END \notin Block
  /\ SystemHeads = {0, 1, 3, 5}
BY DiskSize DEF SystemBlock, Block, FREE, END, SystemHeads

(* In a linked table with the system's areas in place, other areas do not  *)
(* start in the system area and their links do not lead there.             *)
LEMMA OutsideSystem ==
  ASSUME NEW fat \in FatType, NEW roots, Linked(fat, roots),
         SystemLayout(fat), SystemHeads \subseteq roots
  PROVE  /\ \A r \in roots \ SystemHeads : r \notin SystemBlock
         /\ \A b \in Block \ SystemBlock :
              fat[b] \notin {FREE, END} => fat[b] \notin SystemBlock
         /\ \A b \in Block : fat[b] = FREE => b \notin SystemBlock
<1>1. /\ fat[0] = END /\ fat[1] = 2 /\ fat[2] = END /\ fat[3] = 4
      /\ fat[4] = END /\ fat[5] = 6 /\ fat[6] = END
  BY DEF SystemLayout
<1>2. 1 \in Block /\ 3 \in Block /\ 5 \in Block
  BY SystemBlocks
<1>3. 2 \notin {FREE, END} /\ 4 \notin {FREE, END} /\ 6 \notin {FREE, END}
  BY SystemBlocks
<1>4. 2 \notin roots /\ 4 \notin roots /\ 6 \notin roots
  BY <1>1, <1>2, <1>3, LinkedParts
<1>5. \A r \in roots \ SystemHeads : r \notin SystemBlock
  BY <1>4, SystemBlocks
<1>6. ASSUME NEW b \in Block \ SystemBlock, fat[b] \notin {FREE, END}
      PROVE  fat[b] \notin SystemBlock
  <2>1. fat[b] \notin roots
    BY <1>6, LinkedParts
  <2>2. fat[b] # fat[1] /\ fat[b] # fat[3] /\ fat[b] # fat[5]
    <3>1. b # 1 /\ b # 3 /\ b # 5
      BY SystemBlocks
    <3> QED BY <3>1, <1>2, <1>6, LinkedParts
  <2> QED BY <1>1, <2>1, <2>2, SystemBlocks
<1>7. \A b \in Block : fat[b] = FREE => b \notin SystemBlock
  BY <1>1, <1>3, SystemBlocks
<1> QED BY <1>5, <1>6, <1>7

LEMMA SystemKept ==
  ASSUME NEW fat, NEW g \in FatType, SystemLayout(fat), \A c \in SystemBlock : g[c] = fat[c]
  PROVE  SystemLayout(g)
<1>1. \A c \in {0, 1, 2, 3, 4, 5, 6} : g[c] = fat[c]
  BY SystemBlocks
<1> QED BY <1>1 DEF SystemLayout

(* The table do_format leaves: do_format's four allocations. *)
LEMMA LinkedFormat ==
  FormattedFat \in FatType /\ Linked(FormattedFat, SystemHeads) /\ SystemLayout(FormattedFat)
<1> DEFINE f == FormattedFat
<1>1. /\ f \in FatType
      /\ f[0] = END /\ f[1] = 2 /\ f[2] = END /\ f[3] = 4
      /\ f[4] = END /\ f[5] = 6 /\ f[6] = END
      /\ \A j \in Block : j >= 7 => f[j] = FREE
  BY FormattedLayout
<1> HIDE DEF f
<1>2. \A j \in Block : f[j] # FREE => j \in {0, 1, 2, 3, 4, 5, 6}
  <2>1. \A j \in Block : j \in Int /\ 0 <= j
    BY DiskSize DEF Block
  <2> QED BY <1>1, <2>1
<1>3. SystemLayout(f)
  BY <1>1 DEF SystemLayout
<1>4. \A r \in SystemHeads : f[r] # FREE
  BY <1>1, SystemBlocks
<1>5. ASSUME NEW b \in Block, f[b] \notin {FREE, END}
      PROVE  /\ f[b] \notin SystemHeads
             /\ f[f[b]] # FREE
             /\ \A c \in Block : f[c] = f[b] => c = b
  <2>1. b \in {1, 3, 5}
    BY <1>1, <1>2, <1>5
  <2>2. \A c \in Block : f[c] = f[b] => c \in {1, 3, 5}
    BY <1>1, <1>2, <1>5
  <2> QED BY <1>1, <2>1, <2>2, SystemBlocks
<1>6. Reaches(f, SystemHeads)
  <2> SUFFICES ASSUME NEW X \in SUBSET Block, SystemHeads \subseteq X, ClosedUnder(f, X),
                      NEW b \in Block, f[b] # FREE
               PROVE  b \in X
    BY DEF Reaches
  <2>1. 1 \in X /\ 3 \in X /\ 5 \in X /\ 0 \in X
    BY SystemBlocks
  <2>2. 2 \in X /\ 4 \in X /\ 6 \in X
    BY <1>1, <2>1, SystemBlocks DEF ClosedUnder
  <2> QED BY <1>2, <2>1, <2>2
<1>7. Linked(f, SystemHeads)
  BY <1>1, <1>4, <1>5, <1>6, SystemBlocks, LinkedIntro
<1> QED BY <1>1, <1>3, <1>7 DEF f
-----------------------------------------------------------------------------
(* The commands *)

LEMMA Constants ==
  /\ FREE \in Block /\ END \notin Block /\ FREE # END
  /\ 0 \in Block /\ SystemHeads \in SUBSET Block /\ {} \in SUBSET Block
  /\ \A b \in Block : b \in Int
  /\ 0 \in 0..MaxBlocks
<1>1. FREE \in Block /\ END \notin Block /\ FREE # END /\ 0 \in Block
  BY DiskSize DEF Block, FREE, END
<1>2. SystemHeads \in SUBSET Block /\ {} \in SUBSET Block
  BY DiskSize DEF Block, SystemHeads
<1>3. \A b \in Block : b \in Int
  BY DiskSize DEF Block
<1>4. 0 \in 0..MaxBlocks
  BY MaxBlocksAssumption
<1> QED BY <1>1, <1>2, <1>3, <1>4

LEMMA ZeroFatType == ZeroFat \in FatType
BY Constants DEF ZeroFat, set_free_format, FatType

LEMMA SnapshotFields ==
  ASSUME NEW i \in Snapshot
  PROVE  /\ i.exists \in BOOLEAN /\ i.fat1 \in FatType /\ i.fat2 \in FatType
         /\ i.heads \in SUBSET Block /\ i.intact \in BOOLEAN
BY DEF Snapshot

LEMMA PrefixType ==
  ASSUME NEW fat \in FatType, NEW at \in {1, 3}, NEW w \in 0..NumBlocks
  PROVE  /\ Prefix(fat, at, w) \in FatType
         /\ w >= at + 2 => Prefix(fat, at, w) = fat
<1>1. Prefix(fat, at, w) \in FatType
  BY Constants DEF Prefix, FatType
<1>2. ASSUME w >= at + 2 PROVE Prefix(fat, at, w) = fat
  <2>1. \A b \in Block : w > at + (IF 2 * b < NumBlocks THEN 0 ELSE 1)
    BY <1>2, Constants, DiskSize
  <2>2. Prefix(fat, at, w) = [b \in Block |-> fat[b]]
    BY <2>1 DEF Prefix
  <2> QED BY <2>2 DEF FatType
<1> QED BY <1>1, <1>2

LEMMA SavedType ==
  ASSUME TypeOK, NEW w \in 0..NumBlocks
  PROVE  Saved(w, TRUE) \in Snapshot /\ Saved(w, w >= 5) \in Snapshot
<1>1. Prefix(fat1, 1, w) \in FatType /\ Prefix(fat2, 3, w) \in FatType
  BY PrefixType DEF TypeOK
<1> QED BY <1>1 DEF Saved, Snapshot, TypeOK

LEMMA EmptiedType == Emptied \in Snapshot /\ NoFile \in Snapshot
BY ZeroFatType DEF Emptied, NoFile, Snapshot

LEMMA DeadType ==
  ASSUME TypeOK, Dead, image' \in Snapshot
  PROVE  TypeOK'
BY ZeroFatType, Constants, MaxBlocksAssumption DEF Dead, TypeOK, PC

-----------------------------------------------------------------------------
(* Type correctness *)

LEMMA InitTypeOK == Init => TypeOK
BY ZeroFatType, EmptiedType, Constants, MaxBlocksAssumption DEF Init, TypeOK, PC

LEMMA SaveSteps ==
  ASSUME TypeOK, start_sys \/ do_format \/ my_exit_sys \/ fwrite_done \/ kill
  PROVE  TypeOK'
<1>1. FormattedFat \in FatType
  BY FormattedLayout
<1>2. CASE start_sys
  BY <1>1, <1>2, SnapshotFields, EmptiedType, Constants, MaxBlocksAssumption
  DEF start_sys, FormatMemory, Idle, loopVars, TypeOK, PC
<1>3. CASE do_format
  BY <1>1, <1>3, EmptiedType, Constants DEF do_format, FormatMemory, loopVars, TypeOK, PC
<1>4. CASE my_exit_sys
  BY <1>4, EmptiedType DEF my_exit_sys, loopVars, TypeOK, PC
<1>5. CASE fwrite_done
  <2>1. Saved(NumBlocks, TRUE) \in Snapshot
    <3>1. NumBlocks \in 0..NumBlocks
      BY DiskSize
    <3> QED BY <3>1, SavedType
  <2>2. CASE pc = "formatting"
    BY <1>5, <2>1, <2>2, Constants, MaxBlocksAssumption DEF fwrite_done, Idle, TypeOK, PC
  <2>3. CASE pc = "exiting"
    BY <1>5, <2>1, <2>3, DeadType DEF fwrite_done
  <2> QED BY <1>5, <2>2, <2>3 DEF fwrite_done
<1>6. CASE kill
  <2>1. image' \in Snapshot
    <3>1. \A w \in 0..NumBlocks : Saved(w, w >= 5) \in Snapshot
      BY SavedType
    <3> QED BY <1>6, <3>1 DEF kill, interrupt, tear, TypeOK
  <2> QED BY <1>6, <2>1, DeadType DEF kill, interrupt, tear
<1> QED BY <1>2, <1>3, <1>4, <1>5, <1>6

LEMMA CommandSteps ==
  ASSUME TypeOK,
         \/ allocate
         \/ \E first \in Block, n \in 1..MaxBlocks : write_begin(first, n)
         \/ \E first \in Block : reclaim_begin(first)
  PROVE  TypeOK'
<1>1. CASE allocate
  <2> DEFINE b == get_free(fat1, 1)
  <2>1. b \in Block
    BY <1>1, GetFreeFindsFree DEF allocate, TypeOK
  <2> HIDE DEF b
  <2>2. fat1' \in FatType /\ fat2' \in FatType
    BY <1>1, <2>1, AllocateOne DEF allocate, TypeOK, b
  <2>3. heads' \in SUBSET Block
    BY <1>1, <2>1 DEF allocate, TypeOK, b
  <2> QED BY <1>1, <2>2, <2>3 DEF allocate, loopVars, TypeOK
<1>2. CASE \E first \in Block, n \in 1..MaxBlocks : write_begin(first, n)
  BY <1>2, MaxBlocksAssumption DEF write_begin, TypeOK, PC
<1>3. CASE \E first \in Block : reclaim_begin(first)
  BY <1>3 DEF reclaim_begin, TypeOK, PC
<1> QED BY <1>1, <1>2, <1>3

LEMMA WriteSteps ==
  ASSUME TypeOK,
         write_over_tables \/ write_next \/ write_extend \/ write_last \/ trim_step
  PROVE  TypeOK'
<1>1. CASE write_over_tables
  BY <1>1 DEF write_over_tables, loopVars, TypeOK, PC
<1>2. CASE write_next
  BY <1>2, MaxBlocksAssumption DEF write_next, TypeOK, FatType
<1>3. CASE write_extend
  <2> DEFINE next == get_free(fat1, 1)
  <2>1. CASE next = -1
    BY <1>3, <2>1, DeadType DEF write_extend, TypeOK
  <2>2. CASE next # -1
    <3>1. next \in Block
      BY <2>2, GetFreeFindsFree DEF TypeOK
    <3>2. /\ fat1' = [fat1 EXCEPT ![cur] = next, ![next] = END]
          /\ cur' = next /\ num' = num - 1 /\ num > 1
          /\ UNCHANGED <<fat2, pc, file, static_num, image, heads, intact>>
      BY <1>3, <2>2 DEF write_extend
    <3> HIDE DEF next
    <3>3. fat1' \in FatType
      BY <3>1, <3>2 DEF TypeOK, FatType
    <3> QED BY <3>1, <3>2, <3>3, MaxBlocksAssumption DEF TypeOK
  <2> QED BY <2>1, <2>2
<1>4. CASE write_last
  BY <1>4, Constants, MaxBlocksAssumption DEF write_last, Idle, TypeOK, FatType, PC
<1>5. CASE trim_step
  BY <1>5, Constants, MaxBlocksAssumption DEF trim_step, Idle, TypeOK, FatType, PC
<1> QED BY <1>1, <1>2, <1>3, <1>4, <1>5

LEMMA ReclaimStep ==
  ASSUME TypeOK, reclaim_step
  PROVE  TypeOK'
<1>1. fat1' \in FatType /\ fat2' \in FatType
  BY Constants DEF reclaim_step, TypeOK, FatType
<1>2. CASE fat1[cur] = END
  BY <1>1, <1>2, Constants, MaxBlocksAssumption DEF reclaim_step, Idle, TypeOK, PC
<1>3. CASE fat1[cur] # END
  <2>1. /\ cur' \in Block /\ pc' \in PC
        /\ UNCHANGED <<file, num, static_num, image, heads, intact>>
    BY <1>3, Constants DEF reclaim_step, PC
  <2> QED BY <1>1, <2>1 DEF TypeOK
<1> QED BY <1>2, <1>3

LEMMA NextActions ==
  ASSUME Next, heads \in SUBSET Block
  PROVE  \/ start_sys \/ do_format \/ my_exit_sys \/ fwrite_done \/ kill
         \/ allocate
         \/ \E first \in Block, n \in 1..MaxBlocks : write_begin(first, n)
         \/ \E first \in Block : reclaim_begin(first)
         \/ write_over_tables \/ write_next \/ write_extend \/ write_last \/ trim_step
         \/ reclaim_step
<1>1. Firsts \subseteq Block
  BY DEF Firsts
<1> QED BY <1>1 DEF Next, Command, Step

LEMMA NextTypeOK == TypeOK /\ [Next]_vars => TypeOK'
<1> SUFFICES ASSUME TypeOK, [Next]_vars PROVE TypeOK'
  OBVIOUS
<1>1. CASE Next
  <2>1. heads \in SUBSET Block
    BY DEF TypeOK
  <2> QED BY <1>1, <2>1, NextActions, SaveSteps, CommandSteps, WriteSteps, ReclaimStep
<1>2. CASE UNCHANGED vars
  BY <1>2 DEF vars, loopVars, TypeOK
<1> QED BY <1>1, <1>2

(* The tables stay functions from blocks to entries and the loops of       *)
(* do_write and set_free stay on the disk, whatever block they are given.  *)
THEOREM TypeCorrect == Spec => []TypeOK
BY InitTypeOK, NextTypeOK, PTL DEF Spec
-----------------------------------------------------------------------------
(* The inductive invariant *)

(* What memory that is not damaged gives a step to work with. *)
LEMMA MemoryFacts ==
  ASSUME TypeOK, DiskInv, intact
  PROVE  /\ fat1 \in FatType /\ fat2 \in FatType
         /\ cur \in Block /\ heads \subseteq Block /\ Roots \subseteq Block
         /\ SystemHeads \subseteq heads /\ SystemHeads \subseteq Roots
         /\ SystemLayout(fat1) /\ Linked(fat1, Roots)
         /\ pc \in Loops => cur \notin SystemBlock /\ fat1[cur] # FREE
         /\ pc \in {"trim", "reclaim"} => cur \notin heads /\ Roots = heads \cup {cur}
         /\ pc \notin {"trim", "reclaim"} => Roots = heads
         /\ pc \notin {"write", "trim"} => fat2 = fat1
         /\ pc = "reclaim" => fat1[cur] = END
         /\ Progress
<1>1. MemorySound
  BY DEF DiskInv
<1>2. fat1 \in FatType /\ fat2 \in FatType /\ cur \in Block /\ heads \subseteq Block
  BY DEF TypeOK
<1>3. Roots \subseteq Block /\ SystemHeads \subseteq Roots
  BY <1>1, <1>2 DEF MemorySound, Roots
<1>4. pc \in {"trim", "reclaim"} => cur \notin heads /\ Roots = heads \cup {cur}
  BY <1>1 DEF MemorySound, Roots
<1>5. pc \notin {"trim", "reclaim"} => Roots = heads
  BY DEF Roots
<1> QED BY <1>1, <1>2, <1>3, <1>4, <1>5 DEF MemorySound

LEMMA InitDiskInv == Init => DiskInv
BY DEF Init, DiskInv, NoFile, Emptied

(* Being at the prompt or in fwrite, with a linked table mirrored, is sound. *)
LEMMA RestingSound ==
  ASSUME pc' \in {"cmd", "formatting", "exiting"},
         SystemHeads \subseteq heads', SystemLayout(fat1'),
         Linked(fat1', heads'), fat2' = fat1'
  PROVE  MemorySound'
<1>1. Roots' = heads'
  BY DEF Roots
<1> QED BY <1>1 DEF MemorySound, Loops, Progress

LEMMA FormatSound ==
  ASSUME FormatMemory, pc' = "formatting", image' = Emptied
  PROVE  DiskInv'
<1>1. MemorySound'
  BY LinkedFormat, RestingSound DEF FormatMemory
<1>2. ~(image.intact)'
  BY DEF Emptied
<1> QED BY <1>1, <1>2 DEF DiskInv

LEMMA StartSound ==
  ASSUME TypeOK, DiskInv, start_sys
  PROVE  DiskInv'
<1>1. CASE image.exists
  <2>1. /\ fat1' = image.fat1 /\ fat2' = image.fat2 /\ heads' = image.heads
        /\ intact' = image.intact /\ pc' = "cmd" /\ image' = image
    BY <1>1 DEF start_sys, Idle
  <2>2. ASSUME image.intact PROVE MemorySound'
    <3>1. ImageSound
      BY <1>1, <2>2 DEF DiskInv
    <3> QED BY <2>1, <3>1, RestingSound DEF ImageSound
  <2>3. (image.exists /\ image.intact => ImageSound)'
    BY <2>1 DEF DiskInv, ImageSound
  <2> QED BY <2>1, <2>2, <2>3 DEF DiskInv
<1>2. CASE ~image.exists
  BY <1>2, FormatSound DEF start_sys
<1> QED BY <1>1, <1>2

LEMMA SavedSound ==
  ASSUME TypeOK, DiskInv, pc \in {"formatting", "exiting"},
         NEW w \in 0..NumBlocks, NEW whole, whole => w >= 5,
         image' = Saved(w, whole)
  PROVE  (image.exists /\ image.intact => ImageSound)'
<1> SUFFICES ASSUME image'.intact PROVE ImageSound'
  OBVIOUS
<1>1. intact /\ w >= 5
  BY DEF Saved
<1>2. /\ image'.fat1 = Prefix(fat1, 1, w) /\ image'.fat2 = Prefix(fat2, 3, w)
      /\ image'.heads = heads
  BY DEF Saved
<1>3. Prefix(fat1, 1, w) = fat1 /\ Prefix(fat2, 3, w) = fat2
  <2>1. fat1 \in FatType /\ fat2 \in FatType
    BY DEF TypeOK
  <2> QED BY <1>1, <2>1, PrefixType
<1>4. /\ SystemHeads \subseteq heads /\ SystemLayout(fat1)
      /\ Linked(fat1, heads) /\ fat2 = fat1
  BY <1>1, MemoryFacts
<1> QED BY <1>2, <1>3, <1>4 DEF ImageSound

LEMMA SaveSound ==
  ASSUME TypeOK, DiskInv, start_sys \/ do_format \/ my_exit_sys \/ fwrite_done \/ kill
  PROVE  DiskInv'
<1>1. CASE start_sys
  BY <1>1, StartSound
<1>2. CASE do_format
  BY <1>2, FormatSound DEF do_format
<1>3. CASE my_exit_sys
  <2>1. ~(image.intact)'
    BY <1>3 DEF my_exit_sys, Emptied
  <2>2. ASSUME intact' PROVE MemorySound'
    <3>1. intact /\ pc = "cmd"
      BY <1>3, <2>2 DEF my_exit_sys
    <3> QED BY <1>3, <3>1, MemoryFacts, RestingSound DEF my_exit_sys
  <2> QED BY <2>1, <2>2 DEF DiskInv
<1>4. CASE fwrite_done
  <2>1. (image.exists /\ image.intact => ImageSound)'
    <3>1. NumBlocks \in 0..NumBlocks /\ NumBlocks >= 5
      BY DiskSize
    <3>2. image' = Saved(NumBlocks, TRUE) /\ pc \in {"formatting", "exiting"}
      BY <1>4 DEF fwrite_done
    <3> QED BY <3>1, <3>2, SavedSound
  <2>2. ASSUME intact' PROVE MemorySound'
    <3>1. /\ intact /\ pc = "formatting" /\ pc' = "cmd"
          /\ UNCHANGED <<fat1, fat2, heads>>
      BY <1>4, <2>2 DEF fwrite_done, Dead, Idle
    <3> QED BY <3>1, MemoryFacts, RestingSound
  <2> QED BY <2>1, <2>2 DEF DiskInv
<1>5. CASE kill
  <2>1. intact' = FALSE
    BY <1>5 DEF kill, interrupt, tear, Dead
  <2>2. CASE pc \in {"formatting", "exiting"}
    <3>1. PICK w \in 0..NumBlocks : image' = Saved(w, w >= 5)
      BY <1>5, <2>2 DEF kill, interrupt, tear, Saving
    <3>2. (image.exists /\ image.intact => ImageSound)'
      BY <2>2, <3>1, SavedSound
    <3> QED BY <2>1, <3>2 DEF DiskInv
  <2>3. CASE pc \notin {"formatting", "exiting"}
    BY <1>5, <2>1, <2>3 DEF kill, interrupt, tear, Saving, DiskInv, ImageSound
  <2> QED BY <2>2, <2>3
<1> QED BY <1>1, <1>2, <1>3, <1>4, <1>5

LEMMA ImageKept ==
  ASSUME DiskInv, image' = image, intact' => MemorySound'
  PROVE  DiskInv'
BY DEF DiskInv, ImageSound

LEMMA CommandSound ==
  ASSUME TypeOK, TypeOK', DiskInv,
         \/ allocate
         \/ \E first \in Block, n \in 1..MaxBlocks : write_begin(first, n)
         \/ \E first \in Block : reclaim_begin(first)
  PROVE  DiskInv'
<1>1. CASE allocate
  <2> DEFINE b == get_free(fat1, 1)
  <2>1. /\ pc = "cmd" /\ b # -1 /\ pc' = pc /\ intact' = intact /\ image' = image
        /\ fat1' = set_free_allocate(fat1, b, 1)
        /\ fat2' = set_free_allocate(fat2, b, 1)
        /\ heads' = heads \cup {b}
    BY <1>1 DEF allocate
  <2>2. ASSUME intact PROVE MemorySound'
    <3>1. b \in Block /\ fat1[b] = FREE
      BY <2>1, GetFreeFindsFree DEF TypeOK
    <3> HIDE DEF b
    <3>2. /\ fat1 \in FatType /\ heads \subseteq Block /\ SystemHeads \subseteq heads
          /\ SystemLayout(fat1) /\ Linked(fat1, heads) /\ fat2 = fat1
      BY <2>1, <2>2, MemoryFacts
    <3>3. Sets(fat1', fat1, b, END) /\ fat1' \in FatType /\ fat2' = fat1'
      BY <2>1, <3>1, <3>2, AllocateOne DEF Sets
    <3>4. Linked(fat1', heads')
      <4>1. Linked(fat1', heads \cup {b})
        BY <3>1, <3>2, <3>3, LinkedAdd
      <4> QED BY <2>1, <4>1
    <3>5. b \notin SystemBlock
      BY <3>1, <3>2, OutsideSystem
    <3>6. SystemLayout(fat1')
      BY <3>2, <3>3, <3>5, SystemKept, SystemBlocks DEF Sets
    <3> QED BY <2>1, <3>2, <3>3, <3>4, <3>6, RestingSound
  <2> QED BY <2>1, <2>2, ImageKept
<1>2. ASSUME NEW first \in Block, NEW n \in 1..MaxBlocks, write_begin(first, n)
      PROVE  DiskInv'
  <2>1. ASSUME intact' PROVE MemorySound'
    <3>1. intact /\ first \in heads \ SystemHeads /\ pc = "cmd" /\ pc' = "write"
          /\ cur' = first /\ UNCHANGED <<fat1, fat2, heads>>
          /\ file' = first /\ num' = n /\ static_num' = n
      BY <1>2, <2>1 DEF write_begin
    <3>2. /\ fat1 \in FatType /\ SystemHeads \subseteq heads
          /\ SystemLayout(fat1) /\ Linked(fat1, heads)
      BY <3>1, MemoryFacts
    <3>3. first \notin SystemBlock /\ fat1[first] # FREE
      BY <3>1, <3>2, OutsideSystem, LinkedParts
    <3>4. Roots' = heads
      BY <3>1 DEF Roots
    <3>5. Progress'
      <4>1. first \in Chain(fat1, first)
        BY <3>2, ChainClosed
      <4>2. Before(fat1, first, first) = {} /\ n - n = 0
        BY DEF Before
      <4>3. Cardinality(Before(fat1, first, first)) = 0
        BY <4>2, FS_EmptySet
      <4> QED BY <3>1, <4>1, <4>2, <4>3 DEF Progress, Before
    <3> QED BY <3>1, <3>2, <3>3, <3>4, <3>5 DEF MemorySound, Loops
  <2> QED BY <1>2, <2>1, ImageKept DEF write_begin
<1>3. ASSUME NEW first \in Block, reclaim_begin(first)
      PROVE  DiskInv'
  <2>1. ASSUME intact' PROVE MemorySound'
    <3>1. /\ intact /\ first \in heads \ SystemHeads /\ fat1[first] = END
          /\ pc = "cmd" /\ pc' = "reclaim" /\ cur' = first
          /\ heads' = heads \ {first} /\ UNCHANGED <<fat1, fat2>>
      BY <1>3, <2>1 DEF reclaim_begin, Misled
    <3>2. /\ fat1 \in FatType /\ SystemHeads \subseteq heads
          /\ SystemLayout(fat1) /\ Linked(fat1, heads) /\ fat2 = fat1
      BY <3>1, MemoryFacts
    <3>3. first \notin SystemBlock /\ fat1[first] # FREE
      BY <3>1, <3>2, OutsideSystem, LinkedParts
    <3>4. Roots' = heads /\ SystemHeads \subseteq heads'
      BY <3>1, <3>2 DEF Roots
    <3> QED BY <3>1, <3>2, <3>3, <3>4 DEF MemorySound, Loops, Progress
  <2> QED BY <1>3, <2>1, ImageKept DEF reclaim_begin
<1> QED BY <1>1, <1>2, <1>3

(* Freeing a block at the head of one chain does not change another chain. *)
LEMMA FileUntouched ==
  ASSUME NEW fat \in FatType, NEW g \in FatType, NEW others, others \subseteq Block,
         NEW r \in Block, r \notin others, Linked(fat, others \cup {r}),
         Sets(g, fat, r, FREE), NEW h \in others
  PROVE  Chain(g, h) = Chain(fat, h) /\ \A b \in Chain(fat, h) : g[b] = fat[b]
<1>1. Chain(fat, h) \cap Chain(fat, r) = {}
  <2>1. h \in others \cup {r} /\ r \in others \cup {r} /\ h # r /\ others \cup {r} \subseteq Block
    OBVIOUS
  <2> QED BY <2>1, ChainsDisjoint
<1>2. r \in Chain(fat, r) /\ Chain(fat, h) \subseteq Block /\ h \in Block
  BY ChainClosed
<1>3. \A b \in Chain(fat, h) : g[b] = fat[b]
  BY <1>1, <1>2 DEF Sets
<1> QED BY <1>2, <1>3, ChainSame

LEMMA WriteSound ==
  ASSUME TypeOK, TypeOK', DiskInv,
         write_over_tables \/ write_next \/ write_extend \/ write_last \/ trim_step
  PROVE  DiskInv'
<1> DEFINE Facts == /\ fat1 \in FatType /\ cur \in Block /\ heads \subseteq Block
                    /\ SystemHeads \subseteq heads /\ SystemLayout(fat1)
                    /\ cur \notin SystemBlock /\ fat1[cur] # FREE
                    /\ fat1' \in FatType /\ file \in heads \ SystemHeads /\ Progress
                    /\ static_num \in Int /\ num \in Int
<1>0. fat1' \in FatType /\ static_num \in Int /\ num \in Int
  BY DEF TypeOK
<1>1. ASSUME intact, pc = "write" PROVE Facts /\ Linked(fat1, heads)
  BY <1>0, <1>1, MemoryFacts DEF Loops, Progress
<1>2. ASSUME intact, pc = "trim" PROVE Facts /\ cur \notin heads /\ Linked(fat1, heads \cup {cur})
  BY <1>0, <1>2, MemoryFacts DEF Loops, Progress
<1> HIDE DEF Facts
<1>3. CASE write_over_tables
  <2>1. cur \in SystemBlock /\ pc = "write" /\ intact' = intact /\ image' = image
    BY <1>3, SystemBlocks DEF write_over_tables, TableBlock, SystemBlock
  <2>2. ~intact
    BY <1>1, <2>1 DEF Facts
  <2> QED BY <2>1, <2>2, ImageKept
<1>4. CASE write_next
  <2>1. /\ pc = "write" /\ pc' = "write" /\ fat1[cur] # END /\ cur' = fat1[cur]
        /\ num' = num - 1
        /\ UNCHANGED <<fat1, fat2, file, static_num, image, heads, intact>>
    BY <1>4 DEF write_next
  <2>2. ASSUME intact PROVE MemorySound'
    <3>1. Facts /\ Linked(fat1, heads)
      BY <1>1, <2>1, <2>2
    <3>2. fat1[cur] \notin SystemBlock /\ fat1[fat1[cur]] # FREE
      BY <2>1, <3>1, OutsideSystem, LinkedParts DEF Facts
    <3>3. Roots' = heads
      BY <2>1 DEF Roots
    <3>4. /\ cur \in Chain(fat1, file) /\ fat1[cur] \notin {FREE, END}
          /\ Cardinality(Before(fat1, file, cur)) = static_num - num
      BY <2>1, <3>1 DEF Facts, Progress
    <3>5. fat1[cur] \in Chain(fat1, file)
      BY <3>1, <3>4, ChainRest DEF Facts
    <3>6. Cardinality(Before(fat1, file, fat1[cur])) = static_num - num + 1
      BY <3>1, <3>4, BeforeGrows DEF Facts
    <3>7. static_num - num + 1 = static_num - (num - 1)
      BY <3>1 DEF Facts
    <3>8. Progress'
      BY <2>1, <3>1, <3>5, <3>6, <3>7 DEF Progress, Before, Facts
    <3> QED BY <2>1, <3>1, <3>2, <3>3, <3>8 DEF MemorySound, Loops, Facts
  <2> QED BY <2>1, <2>2, ImageKept
<1>5. CASE write_extend
  <2> DEFINE next == get_free(fat1, 1)
  <2>1. CASE next = -1
    BY <1>5, <2>1, ImageKept DEF write_extend, Dead
  <2>2. CASE next # -1
    <3>1. /\ pc = "write" /\ pc' = "write" /\ fat1[cur] = END /\ cur' = next
          /\ fat1' = [fat1 EXCEPT ![cur] = next, ![next] = END]
          /\ num' = num - 1
          /\ UNCHANGED <<fat2, file, static_num, image, heads, intact>>
      BY <1>5, <2>2 DEF write_extend
    <3>2. next \in Block /\ fat1[next] = FREE
      BY <2>2, GetFreeFindsFree DEF TypeOK
    <3> HIDE DEF next
    <3>3. ASSUME intact PROVE MemorySound'
      <4>1. Facts /\ Linked(fat1, heads)
        BY <1>1, <3>1, <3>3
      <4>2. next \notin SystemBlock /\ next # FREE
        BY <3>2, <4>1, OutsideSystem, SystemBlocks DEF Facts
      <4>3. Appends(fat1', fat1, cur, next)
        BY <3>1, <3>2, <4>1 DEF Facts, FatType, Appends
      <4>4. Linked(fat1', heads)
        BY <3>1, <3>2, <4>1, <4>2, <4>3, LinkedExtend DEF Facts
      <4>5. SystemLayout(fat1')
        BY <4>1, <4>2, <4>3, SystemKept, SystemBlocks DEF Facts, Appends
      <4>6. Roots' = heads
        BY <3>1 DEF Roots
      <4>7. fat1'[next] # FREE
        BY <3>2, <4>3, Constants DEF Appends
      <4>8. Progress'
        <5>1. /\ cur \in Chain(fat1, file) /\ file \in Block /\ file \in heads
              /\ Cardinality(Before(fat1, file, cur)) = static_num - num
          BY <3>1, <4>1 DEF Facts, Progress
        <5>2. next \notin Chain(fat1, file)
          <6>1. fat1[file] # FREE
            BY <4>1, <5>1, LinkedParts
          <6> QED BY <3>2, <4>1, <5>1, <6>1, ChainAllocated DEF Facts
        <5>3. Chain(fat1', file) = Chain(fat1, file) \cup {next} /\ Chain(fat1', next) = {next}
          <6>1. /\ fat1 \in FatType /\ fat1' \in FatType /\ fat1[cur] = END
                /\ next \in Block /\ fat1[next] = FREE /\ next # FREE
            BY <3>1, <3>2, <4>1, <4>2 DEF Facts
          <6> QED BY <6>1, <4>3, <5>1, <5>2, ChainExtended
        <5>4. Before(fat1', file, next) = Chain(fat1, file)
          BY <5>2, <5>3 DEF Before
        <5>5. Cardinality(Chain(fat1, file)) = static_num - num + 1
          BY <3>1, <4>1, <5>1, BeforeGrows DEF Facts
        <5>6. static_num - num + 1 = static_num - (num - 1)
          BY <4>1 DEF Facts
        <5>7. /\ pc' = "write" /\ file' \in heads' \ SystemHeads /\ cur' \in Chain(fat1', file')
              /\ Before(fat1', file', cur') = Chain(fat1, file)
              /\ num' = num - 1 /\ static_num' = static_num
          BY <3>1, <4>1, <5>3, <5>4 DEF Facts
        <5> QED BY <5>5, <5>6, <5>7 DEF Progress
      <4> QED BY <3>1, <4>1, <4>2, <4>4, <4>5, <4>6, <4>7, <4>8 DEF MemorySound, Loops, Facts
    <3> QED BY <3>1, <3>3, ImageKept
  <2> QED BY <2>1, <2>2
<1>6. CASE write_last
  <2>1. pc = "write" /\ num = 1 /\ UNCHANGED <<image, heads, intact>>
    BY <1>6 DEF write_last
  <2>2. ASSUME intact, fat1[cur] = END PROVE MemorySound'
    <3>1. pc' = "cmd" /\ fat1' = fat1 /\ fat2' = fat1
      BY <1>6, <2>2 DEF write_last, Idle
    <3> QED BY <1>1, <2>1, <2>2, <3>1, RestingSound DEF Facts
  <2>3. ASSUME intact, fat1[cur] # END PROVE MemorySound'
    <3>1. /\ pc' = "trim" /\ cur' = fat1[cur]
          /\ fat1' = [fat1 EXCEPT ![cur] = END]
          /\ UNCHANGED <<file, static_num>>
      BY <1>6, <2>3 DEF write_last
    <3>2. Facts /\ Linked(fat1, heads)
      BY <1>1, <2>1, <2>3
    <3>3. Sets(fat1', fat1, cur, END)
      BY <3>1, <3>2 DEF Sets, Facts, FatType
    <3>4. Linked(fat1', heads \cup {fat1[cur]}) /\ fat1[cur] \notin heads
      BY <2>3, <3>2, <3>3, LinkedCut DEF Facts
    <3>5. SystemLayout(fat1')
      BY <3>2, <3>3, SystemKept, SystemBlocks DEF Facts, Sets
    <3>6. fat1[cur] \notin SystemBlock
      BY <2>3, <3>2, OutsideSystem DEF Facts
    <3>7. Roots' = heads \cup {fat1[cur]}
      BY <2>1, <3>1 DEF Roots
    <3>8. fat1'[fat1[cur]] # FREE
      BY <3>4, LinkedParts
    <3>9. Progress'
      <4>1. /\ cur \in Chain(fat1, file) /\ fat1[cur] \notin {FREE, END}
            /\ Cardinality(Before(fat1, file, cur)) = static_num - 1
        BY <2>1, <2>3, <3>2 DEF Facts, Progress
      <4>2. Chain(fat1', file) = Before(fat1, file, fat1[cur])
        BY <3>2, <3>3, <4>1, ChainCut DEF Facts, Before
      <4>3. Cardinality(Before(fat1, file, fat1[cur])) = static_num - 1 + 1
        BY <3>2, <4>1, BeforeGrows DEF Facts
      <4>4. static_num - 1 + 1 = static_num
        BY <3>2 DEF Facts
      <4> QED BY <2>1, <3>1, <3>2, <4>2, <4>3, <4>4 DEF Progress, Facts
    <3> QED BY <2>1, <3>1, <3>2, <3>4, <3>5, <3>6, <3>7, <3>8, <3>9 DEF MemorySound, Loops, Facts
  <2> QED BY <2>1, <2>2, <2>3, ImageKept
<1>7. CASE trim_step
  <2>1. /\ pc = "trim" /\ fat1' = [fat1 EXCEPT ![cur] = FREE]
        /\ UNCHANGED <<image, heads, intact>>
    BY <1>7 DEF trim_step
  <2>2. ASSUME intact
        PROVE  /\ Facts /\ Sets(fat1', fat1, cur, FREE) /\ SystemLayout(fat1')
               /\ fat1[cur] = END => Linked(fat1', heads)
               /\ fat1[cur] # END => /\ fat1[cur] \notin heads \cup {cur}
                                     /\ fat1[cur] \in Block
                                     /\ Linked(fat1', heads \cup {fat1[cur]})
               /\ Linked(fat1, heads \cup {cur}) /\ cur \notin heads
    <3>1. Facts /\ cur \notin heads /\ Linked(fat1, heads \cup {cur})
      BY <1>2, <2>1, <2>2
    <3>2. Sets(fat1', fat1, cur, FREE)
      BY <2>1, <3>1 DEF Sets, Facts, FatType
    <3>3. SystemLayout(fat1')
      BY <3>1, <3>2, SystemKept, SystemBlocks DEF Facts, Sets
    <3> QED BY <3>1, <3>2, <3>3, LinkedFreeFirst DEF Facts
  <2>3. ASSUME intact, fat1[cur] = END PROVE MemorySound'
    <3>1. pc' = "cmd" /\ fat2' = fat1'
      BY <1>7, <2>3 DEF trim_step, Idle
    <3> QED BY <2>1, <2>2, <2>3, <3>1, RestingSound DEF Facts
  <2>4. ASSUME intact, fat1[cur] # END PROVE MemorySound'
    <3>1. pc' = "trim" /\ cur' = fat1[cur] /\ UNCHANGED <<file, static_num>>
      BY <1>7, <2>1, <2>4 DEF trim_step
    <3>2. fat1[cur] \notin SystemBlock
      BY <2>2, <2>4, OutsideSystem DEF Facts
    <3>3. Roots' = heads \cup {fat1[cur]}
      BY <2>1, <3>1 DEF Roots
    <3>4. fat1'[fat1[cur]] # FREE
      BY <2>2, <2>4, LinkedParts
    <3>5. Progress'
      <4>1. Chain(fat1', file) = Chain(fat1, file)
        BY <2>1, <2>2, <2>4, FileUntouched DEF Facts
      <4> QED BY <2>1, <2>2, <2>4, <3>1, <4>1 DEF Progress, Facts
    <3> QED BY <2>1, <2>2, <2>4, <3>1, <3>2, <3>3, <3>4, <3>5 DEF MemorySound, Loops, Facts
  <2> QED BY <2>1, <2>3, <2>4, ImageKept
<1> QED BY <1>3, <1>4, <1>5, <1>6, <1>7

LEMMA ReclaimSound ==
  ASSUME TypeOK, TypeOK', DiskInv, reclaim_step
  PROVE  DiskInv'
<1>1. /\ pc = "reclaim" /\ fat1' = [fat1 EXCEPT ![cur] = FREE]
      /\ fat2' = [fat2 EXCEPT ![cur] = FREE]
      /\ UNCHANGED <<image, heads, intact>>
  BY DEF reclaim_step
<1>2. ASSUME intact PROVE MemorySound'
  <2>1. /\ fat1 \in FatType /\ cur \in Block /\ heads \subseteq Block
        /\ SystemHeads \subseteq heads /\ SystemLayout(fat1)
        /\ cur \notin SystemBlock /\ cur \notin heads
        /\ Linked(fat1, heads \cup {cur}) /\ fat1[cur] = END /\ fat2 = fat1
    BY <1>1, <1>2, MemoryFacts DEF Loops
  <2>2. pc' = "cmd"
    BY <2>1 DEF reclaim_step, Idle
  <2>3. Sets(fat1', fat1, cur, FREE) /\ fat1' \in FatType
    <3>1. fat1' \in FatType
      BY DEF TypeOK
    <3>2. Sets(fat1', fat1, cur, FREE)
      BY <1>1, <2>1 DEF Sets, FatType
    <3> QED BY <3>1, <3>2
  <2>4. Linked(fat1', heads)
    BY <2>1, <2>3, LinkedFreeFirst
  <2>5. SystemLayout(fat1')
    BY <2>1, <2>3, SystemKept, SystemBlocks DEF Sets
  <2> QED BY <1>1, <2>1, <2>2, <2>4, <2>5, RestingSound
<1> QED BY <1>1, <1>2, ImageKept

LEMMA NextDiskInv == TypeOK /\ DiskInv /\ [Next]_vars => DiskInv'
<1> SUFFICES ASSUME TypeOK, DiskInv, [Next]_vars PROVE DiskInv'
  OBVIOUS
<1>1. CASE Next
  <2>1. heads \in SUBSET Block /\ TypeOK'
    BY NextTypeOK DEF TypeOK
  <2> QED BY <1>1, <2>1, NextActions, SaveSound, CommandSound, WriteSound, ReclaimSound
<1>2. CASE UNCHANGED vars
  BY <1>2 DEF vars, loopVars, DiskInv, MemorySound, ImageSound, Roots, Loops, Progress
<1> QED BY <1>1, <1>2

(* Across every command, and every save, kill and restart, memory that no  *)
(* command has damaged and images saved from it are linked: each allocated *)
(* block is a first block or the successor of exactly one other, and no    *)
(* link leads to a free block or into another area's first block.          *)
THEOREM Inductive == Spec => []DiskInv
<1>1. Init => TypeOK /\ DiskInv
  BY InitTypeOK, InitDiskInv
<1>2. TypeOK /\ DiskInv /\ [Next]_vars => (TypeOK /\ DiskInv)'
  BY NextTypeOK, NextDiskInv
<1> QED BY <1>1, <1>2, PTL DEF Spec

(* No block is lost and none belongs to two files, at any iteration of any *)
(* loop: the table is a partition into chains, one for each area in use.   *)
THEOREM NothingLostOrShared == Spec => []NoLeakNoShare
<1>1. TypeOK /\ DiskInv => NoLeakNoShare
  <2> SUFFICES ASSUME TypeOK, DiskInv, intact PROVE Partitioned(fat1, Roots)
    BY DEF NoLeakNoShare
  <2> QED BY MemoryFacts, LinkedPartitioned
<1> QED BY <1>1, TypeCorrect, Inductive, PTL

(* An image that a save finished on is a sound disk.                       *)
THEOREM ImagesSound == Spec => []SavedIsSound
<1>1. TypeOK /\ DiskInv => SavedIsSound
  <2> SUFFICES ASSUME TypeOK, DiskInv, image.exists, image.intact
               PROVE  /\ image.fat2 = image.fat1
                      /\ Partitioned(image.fat1, image.heads)
                      /\ SystemLayout(image.fat1)
    BY DEF SavedIsSound
  <2>1. ImageSound
    BY DEF DiskInv
  <2>2. image.fat1 \in FatType /\ image.heads \subseteq Block
    BY SnapshotFields DEF TypeOK
  <2> QED BY <2>1, <2>2, LinkedPartitioned DEF ImageSound
<1> QED BY <1>1, TypeCorrect, Inductive, PTL

(* The second table is a copy of the first at every prompt and save. *)
THEOREM TablesMirrored == Spec => []Mirrored
<1>1. TypeOK /\ DiskInv => Mirrored
  BY MemoryFacts DEF Mirrored
<1> QED BY <1>1, TypeCorrect, Inductive, PTL
-----------------------------------------------------------------------------
(* What a step may not do *)

(* The steps of the loops of do_write and set_free leave the entries of    *)
(* every chain but the file's as they were.                                *)
LEMMA OthersUntouched ==
  ASSUME TypeOK, TypeOK', DiskInv, intact, pc \in Loops, [Next]_vars,
         NEW h \in heads' \ {file}, NEW b \in Chain(fat1, h)
  PROVE  fat1'[b] = fat1[b]
<1>1. /\ fat1 \in FatType /\ cur \in Block /\ Roots \subseteq Block /\ Linked(fat1, Roots)
      /\ fat1[cur] # FREE /\ Progress
  BY MemoryFacts
<1>2. CASE UNCHANGED vars \/ write_over_tables \/ write_next \/ kill
  BY <1>2, Constants DEF vars, write_over_tables, write_next, kill, interrupt, tear, Dead, Saving, Loops
<1>3. ASSUME heads' = heads PROVE h \in Roots /\ h \in Block /\ b \in Block /\ fat1[b] # FREE
  <2>1. h \in Roots /\ h \in Block
    BY <1>1, <1>3 DEF Roots
  <2> QED BY <1>1, <2>1, LinkedParts, ChainAllocated, ChainOf
<1>4. ASSUME pc = "write", heads' = heads PROVE b # cur
  <2>1. file \in Roots /\ cur \in Chain(fat1, file)
    BY <1>1, <1>4 DEF Progress, Roots
  <2> QED BY <1>1, <1>3, <1>4, <2>1, ChainsDisjoint
<1>5. ASSUME pc \in {"trim", "reclaim"}, heads' = heads PROVE b # cur
  <2>1. cur \in Roots /\ cur \in Chain(fat1, cur) /\ h # cur
    BY <1>1, <1>5, MemoryFacts, ChainClosed DEF Roots
  <2> QED BY <1>1, <1>3, <1>5, <2>1, ChainsDisjoint
<1>6. CASE write_extend
  <2> DEFINE next == get_free(fat1, 1)
  <2>1. CASE next = -1
    BY <1>6, <2>1 DEF write_extend, Dead
  <2>2. CASE next # -1
    <3>1. /\ pc = "write" /\ heads' = heads
          /\ fat1' = [fat1 EXCEPT ![cur] = next, ![next] = END]
      BY <1>6, <2>2 DEF write_extend
    <3>2. fat1[next] = FREE
      BY <1>1, <2>2, GetFreeFindsFree
    <3> HIDE DEF next
    <3>3. b # cur /\ b # next /\ b \in Block
      BY <1>3, <1>4, <3>1, <3>2
    <3> QED BY <1>1, <3>1, <3>3 DEF FatType
  <2> QED BY <2>1, <2>2
<1>7. CASE write_last
  <2>1. pc = "write" /\ heads' = heads /\ (fat1' = fat1 \/ fat1' = [fat1 EXCEPT ![cur] = END])
    BY <1>7 DEF write_last
  <2> QED BY <1>1, <1>3, <1>4, <2>1 DEF FatType
<1>8. CASE trim_step \/ reclaim_step
  <2>1. pc \in {"trim", "reclaim"} /\ heads' = heads /\ fat1' = [fat1 EXCEPT ![cur] = FREE]
    BY <1>8 DEF trim_step, reclaim_step
  <2> QED BY <1>1, <1>3, <1>5, <2>1 DEF FatType
<1>9. ~(start_sys \/ do_format \/ my_exit_sys \/ fwrite_done \/ allocate)
  BY DEF start_sys, do_format, my_exit_sys, fwrite_done, allocate, Loops
<1>10. /\ ~ \E first \in Block, n \in 1..MaxBlocks : write_begin(first, n)
       /\ ~ \E first \in Block : reclaim_begin(first)
  BY DEF write_begin, reclaim_begin, Loops
<1>11. heads \in SUBSET Block
  BY DEF TypeOK
<1> QED BY <1>2, <1>6, <1>7, <1>8, <1>9, <1>10, <1>11, NextActions

(* Writing, extending, trimming or removing one file leaves every link of  *)
(* every other area as it was.                                             *)
THEOREM OnlyTheFile == Spec => NoCollateral
<1>1. TypeOK /\ TypeOK' /\ DiskInv /\ [Next]_vars =>
        [intact /\ pc \in Loops =>
           \A h \in heads' \ {file} : \A b \in Chain(fat1, h) : fat1'[b] = fat1[b]]_vars
  BY OthersUntouched
<1> QED BY <1>1, TypeCorrect, Inductive, PTL DEF Spec, NoCollateral

(* A step of do_write that returns leaves the file the blocks it stored.   *)
LEMMA ReturnsExact ==
  ASSUME TypeOK, TypeOK', DiskInv, intact, pc \in {"write", "trim"}, pc' = "cmd", [Next]_vars
  PROVE  Cardinality(Chain(fat1', file)) = static_num
<1>1. /\ fat1 \in FatType /\ cur \in Block /\ Roots \subseteq Block /\ Linked(fat1, Roots)
      /\ heads \subseteq Block /\ fat1[cur] # FREE /\ Progress
      /\ fat1' \in FatType /\ static_num \in Int
  BY MemoryFacts DEF Loops, TypeOK
<1>2. file \in heads /\ file \in Roots
  BY <1>1 DEF Progress, Roots
<1>3. CASE write_last
  <2>1. pc = "write" /\ num = 1 /\ fat1[cur] = END /\ fat1' = fat1
    BY <1>3 DEF write_last
  <2>2. cur \in Chain(fat1, file) /\ Cardinality(Before(fat1, file, cur)) = static_num - 1
    BY <1>1, <2>1 DEF Progress
  <2>3. Cardinality(Chain(fat1, file)) = static_num - 1 + 1
    BY <1>1, <1>2, <2>1, <2>2, BeforeGrows
  <2> QED BY <1>1, <2>1, <2>3
<1>4. CASE trim_step
  <2>1. pc = "trim" /\ fat1' = [fat1 EXCEPT ![cur] = FREE]
    BY <1>4 DEF trim_step
  <2>2. Sets(fat1', fat1, cur, FREE)
    BY <1>1, <2>1 DEF Sets, FatType
  <2>3. cur \notin heads /\ Linked(fat1, heads \cup {cur})
    BY <2>1, MemoryFacts
  <2>4. Chain(fat1', file) = Chain(fat1, file)
    BY <1>1, <1>2, <2>2, <2>3, FileUntouched
  <2> QED BY <1>1, <2>1, <2>4 DEF Progress
<1>5. ~(\/ UNCHANGED vars \/ write_over_tables \/ write_next \/ write_extend \/ kill
        \/ start_sys \/ do_format \/ my_exit_sys \/ fwrite_done \/ allocate \/ reclaim_step)
  BY DEF vars, write_over_tables, write_next, write_extend, kill, interrupt, tear, Dead,
         start_sys, do_format, my_exit_sys, fwrite_done, allocate, reclaim_step
<1>6. /\ ~ \E first \in Block, n \in 1..MaxBlocks : write_begin(first, n)
      /\ ~ \E first \in Block : reclaim_begin(first)
  BY DEF write_begin, reclaim_begin
<1>7. heads \in SUBSET Block
  BY <1>1
<1> QED BY <1>3, <1>4, <1>5, <1>6, <1>7, NextActions

(* A write that returns leaves the file exactly the blocks the text takes. *)
THEOREM ExactlyWritten == Spec => WrittenExactly
<1>1. TypeOK /\ TypeOK' /\ DiskInv /\ [Next]_vars =>
        [intact /\ pc \in {"write", "trim"} /\ pc' = "cmd" =>
           Cardinality(Chain(fat1', file)) = static_num]_vars
  BY ReturnsExact
<1> QED BY <1>1, TypeCorrect, Inductive, PTL DEF Spec, WrittenExactly
=============================================================================
