--------------------------- MODULE ContentsProofs ---------------------------
(***************************************************************************)
(* Theorems of module Contents for disks, blocks and texts of any size:    *)
(* the commands drive the block store as module Disk lets it be driven,    *)
(* chains hold what was written, block by block, and reads show it.        *)
(***************************************************************************)
EXTENDS Contents, DiskProofs, SequenceTheorems
LOCAL INSTANCE FiniteSetsExt
LOCAL INSTANCE SequencesExt

(* What the assumptions on the constants say of sizes. *)
LEMMA Sizes ==
  /\ BLOCK_SIZE \in Nat /\ BLOCK_SIZE > 0 /\ MaxBlocks \in Nat /\ MaxBlocks > 0
  /\ WRITE_SIZE \in Nat /\ WRITE_SIZE > 0
  /\ \A n \in 0..MaxBlocks : n * BLOCK_SIZE \in Nat /\ n * BLOCK_SIZE <= WRITE_SIZE
<1>1. BLOCK_SIZE \in Nat /\ BLOCK_SIZE > 0 /\ MaxBlocks \in Nat /\ MaxBlocks > 0
  BY BlockSizeAssumption, MaxBlocksAssumption
<1>2. WRITE_SIZE \in Nat /\ WRITE_SIZE > 0
  BY <1>1 DEF WRITE_SIZE
<1>3. \A n \in 0..MaxBlocks : n * BLOCK_SIZE \in Nat /\ n * BLOCK_SIZE <= WRITE_SIZE
  BY <1>1 DEF WRITE_SIZE
<1> QED BY <1>1, <1>2, <1>3

(* How a position is a block and an offset in it. *)
LEMMA DivMod ==
  ASSUME NEW n \in Nat
  PROVE  /\ n \div BLOCK_SIZE \in Nat /\ n % BLOCK_SIZE \in 0..(BLOCK_SIZE - 1)
         /\ n = (n \div BLOCK_SIZE) * BLOCK_SIZE + (n % BLOCK_SIZE)
BY Sizes

(* Quotient and rest by the size of a block are determined. *)
LEMMA DivModUnique ==
  ASSUME NEW n \in Nat, NEW q \in Nat, NEW r \in 0..(BLOCK_SIZE - 1), n = q * BLOCK_SIZE + r
  PROVE  n \div BLOCK_SIZE = q /\ n % BLOCK_SIZE = r
BY Sizes

(* A later character is in no earlier block. *)
LEMMA DivMonotonic ==
  ASSUME NEW m \in Nat, NEW n \in Nat, m <= n
  PROVE  m \div BLOCK_SIZE <= n \div BLOCK_SIZE
BY Sizes
-----------------------------------------------------------------------------
(* The n-th block of a chain *)

(* What obeys the equations of a walk is that walk. *)
LEMMA WalkIs ==
  ASSUME NEW D, NEW F, NEW a, NEW n \in Nat, NEW w, Walks(w, n, F, a, D),
         NEW f, f[0] = a, \A k \in 1..n : f[k - 1] \in D => f[k] = F[<<k, f[k - 1]>>]
  PROVE  \A k \in 0..n : f[k] = w[k] /\ f[k] \in D
<1>1. w \in [0..n -> D] /\ w[0] = a /\ \A k \in 1..n : w[k] = F[<<k, w[k - 1]>>]
  BY DEF Walks
<1> DEFINE S == {k \in Nat : k <= n => f[k] = w[k]}
<1>2. 0 \in S
  BY <1>1
<1>3. ASSUME NEW k \in Nat, k \in S PROVE k + 1 \in S
  <2> SUFFICES ASSUME k + 1 <= n PROVE f[k + 1] = w[k + 1]
    OBVIOUS
  <2>1. k + 1 \in 1..n /\ (k + 1) - 1 = k /\ k \in 0..n /\ f[k] = w[k]
    BY <1>3
  <2>2. f[k] \in D
    BY <1>1, <2>1
  <2>3. f[k + 1] = F[<<k + 1, f[k]>>] /\ w[k + 1] = F[<<k + 1, w[k]>>]
    BY <1>1, <2>1, <2>2
  <2> QED BY <2>1, <2>3
<1> HIDE DEF S
<1>4. \A k \in Nat : k \in S
  BY <1>2, <1>3, Induction
<1> QED BY <1>1, <1>4 DEF S

(* physics_block, of any table. *)
BlockAt(fat, h, n) ==
  LET walk[k \in 0..n] ==
        IF k = 0 THEN h
        ELSE IF walk[k - 1] \in Block /\ fat[walk[k - 1]] \in Block
               THEN fat[walk[k - 1]] ELSE OffChain
  IN  walk[n]

(* physics_block, on the table of the moment. *)
LEMMA PhysicsBlock ==
  ASSUME NEW h, NEW n
  PROVE  physics_block(h, n) = BlockAt(fat1, h, n)
BY DEF physics_block, BlockAt

Places == Block \cup {OffChain}
After(fat, b) == IF b \in Block /\ fat[b] \in Block THEN fat[b] ELSE OffChain
Follow(fat) == [s \in Nat \X Places |-> After(fat, s[2])]

(* The n-th block of a chain is where a walk of n links ends. *)
LEMMA BlockAtWalk ==
  ASSUME NEW fat \in FatType, NEW h \in Block, NEW n \in Nat
  PROVE  \E w : Walks(w, n, Follow(fat), h, Places) /\ BlockAt(fat, h, n) = w[n]
<1> DEFINE walk[k \in 0..n] ==
             IF k = 0 THEN h
             ELSE IF walk[k - 1] \in Block /\ fat[walk[k - 1]] \in Block
                    THEN fat[walk[k - 1]] ELSE OffChain
<1>1. PICK w : Walks(w, n, Follow(fat), h, Places)
  <2>1. Follow(fat) \in [Nat \X Places -> Places]
    BY DEF Follow, Places, After
  <2>2. h \in Places
    BY DEF Places
  <2> QED BY <2>1, <2>2, WalkExists
<1>2. w \in [0..n -> Places] /\ w[0] = h /\ \A k \in 1..n : w[k] = After(fat, w[k - 1])
  <2>1. w \in [0..n -> Places] /\ w[0] = h /\ \A k \in 1..n : w[k] = Follow(fat)[<<k, w[k - 1]>>]
    BY <1>1 DEF Walks
  <2>2. \A k \in 1..n : k \in Nat /\ w[k - 1] \in Places
    BY <2>1
  <2> QED BY <2>1, <2>2 DEF Follow
<1>3. w = [k \in 0..n |->
             IF k = 0 THEN h
             ELSE IF w[k - 1] \in Block /\ fat[w[k - 1]] \in Block
                    THEN fat[w[k - 1]] ELSE OffChain]
  <2>1. w = [k \in 0..n |-> w[k]]
    BY <1>2
  <2>2. \A k \in 0..n : w[k] = IF k = 0 THEN h ELSE After(fat, w[k - 1])
    BY <1>2
  <2> QED BY <2>1, <2>2 DEF After
<1>4. walk = CHOOSE f : f = [k \in 0..n |->
             IF k = 0 THEN h
             ELSE IF f[k - 1] \in Block /\ fat[f[k - 1]] \in Block
                    THEN fat[f[k - 1]] ELSE OffChain]
  OBVIOUS
<1>5. BlockAt(fat, h, n) = walk[n]
  BY DEF BlockAt
<1> HIDE DEF walk
<1>6. walk = [k \in 0..n |->
             IF k = 0 THEN h
             ELSE IF walk[k - 1] \in Block /\ fat[walk[k - 1]] \in Block
                    THEN fat[walk[k - 1]] ELSE OffChain]
  BY <1>3, <1>4
<1>7. walk[0] = h /\ \A k \in 1..n : walk[k] = After(fat, walk[k - 1])
  BY <1>6 DEF After
<1>8. \A k \in 1..n : walk[k - 1] \in Places => walk[k] = Follow(fat)[<<k, walk[k - 1]>>]
  BY <1>7 DEF Follow
<1>9. n \in 0..n
  OBVIOUS
<1>10. walk[n] = w[n]
  BY <1>1, <1>7, <1>8, <1>9, WalkIs
<1> QED BY <1>1, <1>5, <1>10

(* The blocks of a chain one after the other. *)
LEMMA BlockAtNext ==
  ASSUME NEW fat \in FatType, NEW h \in Block
  PROVE  /\ BlockAt(fat, h, 0) = h
         /\ \A n \in Nat : /\ BlockAt(fat, h, n) \in Places
                           /\ BlockAt(fat, h, n + 1) = After(fat, BlockAt(fat, h, n))
<1>1. BlockAt(fat, h, 0) = h
  <2>1. \E w : Walks(w, 0, Follow(fat), h, Places) /\ BlockAt(fat, h, 0) = w[0]
    BY BlockAtWalk
  <2> QED BY <2>1 DEF Walks
<1>2. ASSUME NEW n \in Nat
      PROVE  /\ BlockAt(fat, h, n) \in Places
             /\ BlockAt(fat, h, n + 1) = After(fat, BlockAt(fat, h, n))
  <2>1. PICK w : Walks(w, n, Follow(fat), h, Places) /\ BlockAt(fat, h, n) = w[n]
    BY BlockAtWalk
  <2>2. PICK v : Walks(v, n + 1, Follow(fat), h, Places) /\ BlockAt(fat, h, n + 1) = v[n + 1]
    <3>1. n + 1 \in Nat
      OBVIOUS
    <3> QED BY <3>1, BlockAtWalk
  <2>3. v[0] = h /\ \A k \in 1..(n + 1) : v[k] = Follow(fat)[<<k, v[k - 1]>>]
    BY <2>2 DEF Walks
  <2>4. \A k \in 1..n : k \in 1..(n + 1)
    OBVIOUS
  <2>5. \A k \in 1..n : v[k - 1] \in Places => v[k] = Follow(fat)[<<k, v[k - 1]>>]
    BY <2>3, <2>4
  <2>6. v[n] = w[n] /\ v[n] \in Places
    <3>1. n \in 0..n
      OBVIOUS
    <3> QED BY <2>1, <2>3, <2>5, <3>1, WalkIs
  <2>7. v[n + 1] = Follow(fat)[<<n + 1, v[n]>>]
    <3>1. n + 1 \in 1..(n + 1) /\ (n + 1) - 1 = n
      OBVIOUS
    <3> QED BY <2>3, <3>1
  <2> QED BY <2>1, <2>2, <2>6, <2>7 DEF Follow
<1> QED BY <1>1, <1>2

(* The end of a chain is no block. *)
LEMMA OffChainNoBlock == OffChain \notin Block
BY Constants, DiskSize DEF OffChain, Block

(* Up to the n-th block a chain is on the disk if it is there at the n-th. *)
LEMMA BlockAtPrefix ==
  ASSUME NEW fat \in FatType, NEW h \in Block, NEW n \in Nat, BlockAt(fat, h, n) \in Block
  PROVE  /\ \A k \in 0..n : BlockAt(fat, h, k) \in Block
         /\ \A k \in 0..(n - 1) : fat[BlockAt(fat, h, k)] = BlockAt(fat, h, k + 1)
<1> DEFINE S == {m \in Nat : BlockAt(fat, h, m) \in Block =>
                   \A k \in 0..m : BlockAt(fat, h, k) \in Block}
<1>1. 0 \in S
  OBVIOUS
<1>2. ASSUME NEW m \in Nat, m \in S PROVE m + 1 \in S
  <2> SUFFICES ASSUME BlockAt(fat, h, m + 1) \in Block, NEW k \in 0..(m + 1)
               PROVE  BlockAt(fat, h, k) \in Block
    OBVIOUS
  <2>1. BlockAt(fat, h, m) \in Block
    BY BlockAtNext, OffChainNoBlock DEF After
  <2>2. k = m + 1 \/ k \in 0..m
    OBVIOUS
  <2> QED BY <1>2, <2>1, <2>2
<1> HIDE DEF S
<1>3. \A m \in Nat : m \in S
  BY <1>1, <1>2, Induction
<1>4. \A k \in 0..n : BlockAt(fat, h, k) \in Block
  BY <1>3 DEF S
<1>5. ASSUME NEW k \in 0..(n - 1) PROVE fat[BlockAt(fat, h, k)] = BlockAt(fat, h, k + 1)
  <2>1. k \in Nat /\ k + 1 \in 0..n
    OBVIOUS
  <2>2. BlockAt(fat, h, k + 1) \in Block
    BY <1>4, <2>1
  <2> QED BY <2>1, <2>2, BlockAtNext, OffChainNoBlock DEF After
<1> QED BY <1>4, <1>5

(* In a linked table, the n-th block from a root has n blocks before it. *)
LEMMA BlockAtPlace ==
  ASSUME NEW fat \in FatType, NEW roots, roots \subseteq Block, Linked(fat, roots),
         NEW r \in roots, NEW n \in Nat, BlockAt(fat, r, n) \in Block
  PROVE  /\ BlockAt(fat, r, n) \in Chain(fat, r)
         /\ Cardinality(Before(fat, r, BlockAt(fat, r, n))) = n
         /\ fat[BlockAt(fat, r, n)] # FREE
<1> DEFINE B(m) == BlockAt(fat, r, m)
           S == {m \in Nat : B(m) \in Block =>
                   B(m) \in Chain(fat, r) /\ Cardinality(Before(fat, r, B(m))) = m}
<1>0. r \in Block /\ fat[r] # FREE
  BY LinkedParts
<1>1. 0 \in S
  <2>1. B(0) = r /\ r \in Chain(fat, r)
    BY <1>0, BlockAtNext, ChainClosed
  <2>2. Before(fat, r, r) = {}
    BY DEF Before
  <2> QED BY <2>1, <2>2, FS_EmptySet
<1>2. ASSUME NEW m \in Nat, m \in S PROVE m + 1 \in S
  <2> SUFFICES ASSUME B(m + 1) \in Block
               PROVE  B(m + 1) \in Chain(fat, r) /\ Cardinality(Before(fat, r, B(m + 1))) = m + 1
    OBVIOUS
  <2>1. B(m) \in Block /\ fat[B(m)] \in Block /\ B(m + 1) = fat[B(m)]
    BY <1>0, BlockAtNext, OffChainNoBlock DEF After
  <2>2. B(m) \in Chain(fat, r) /\ Cardinality(Before(fat, r, B(m))) = m
    BY <1>2, <2>1
  <2> HIDE DEF B
  <2>3. fat[B(m)] \notin {FREE, END}
    BY <1>0, <2>1, <2>2, ChainAllocated, Constants
  <2> QED BY <2>1, <2>2, <2>3, BeforeGrows, ChainRest
<1> HIDE DEF S
<1>3. \A m \in Nat : m \in S
  BY <1>1, <1>2, Induction
<1>4. B(n) \in Chain(fat, r) /\ Cardinality(Before(fat, r, B(n))) = n
  BY <1>3 DEF S
<1> HIDE DEF B
<1>5. fat[B(n)] # FREE
  BY <1>0, <1>4, ChainAllocated
<1> QED BY <1>4, <1>5 DEF B

(* So blocks of different numbers differ, and those before the n-th link on. *)
LEMMA BlocksBefore ==
  ASSUME NEW fat \in FatType, NEW roots, roots \subseteq Block, Linked(fat, roots),
         NEW r \in roots, NEW n \in Nat, BlockAt(fat, r, n) \in Block,
         NEW k \in 0..(n - 1)
  PROVE  /\ BlockAt(fat, r, k) \in Block /\ BlockAt(fat, r, k) \in Chain(fat, r)
         /\ BlockAt(fat, r, k) # BlockAt(fat, r, n)
         /\ fat[BlockAt(fat, r, k)] # FREE
<1>1. k \in Nat /\ k \in 0..n /\ k # n /\ r \in Block
  OBVIOUS
<1>2. BlockAt(fat, r, k) \in Block
  BY <1>1, BlockAtPrefix
<1>3. /\ BlockAt(fat, r, k) \in Chain(fat, r) /\ fat[BlockAt(fat, r, k)] # FREE
      /\ Cardinality(Before(fat, r, BlockAt(fat, r, k))) = k
  BY <1>1, <1>2, BlockAtPlace
<1>4. Cardinality(Before(fat, r, BlockAt(fat, r, n))) = n
  BY BlockAtPlace
<1> QED BY <1>1, <1>2, <1>3, <1>4

(* Tables that agree on the blocks before the n-th have the same n-th.     *)
LEMMA BlockAtSame ==
  ASSUME NEW fat \in FatType, NEW g \in FatType, NEW h \in Block, NEW n \in Nat,
         \A k \in 0..(n - 1) : BlockAt(fat, h, k) \in Block =>
           g[BlockAt(fat, h, k)] = fat[BlockAt(fat, h, k)]
  PROVE  \A k \in 0..n : BlockAt(g, h, k) = BlockAt(fat, h, k)
<1> DEFINE S == {m \in Nat : m <= n => BlockAt(g, h, m) = BlockAt(fat, h, m)}
<1>1. 0 \in S
  BY BlockAtNext
<1>2. ASSUME NEW m \in Nat, m \in S PROVE m + 1 \in S
  <2> SUFFICES ASSUME m + 1 <= n PROVE BlockAt(g, h, m + 1) = BlockAt(fat, h, m + 1)
    OBVIOUS
  <2>1. m \in 0..(n - 1) /\ BlockAt(g, h, m) = BlockAt(fat, h, m)
    BY <1>2
  <2>2. /\ BlockAt(fat, h, m + 1) = After(fat, BlockAt(fat, h, m))
        /\ BlockAt(g, h, m + 1) = After(g, BlockAt(g, h, m))
    BY BlockAtNext
  <2> QED BY <2>1, <2>2 DEF After
<1> HIDE DEF S
<1>3. \A m \in Nat : m \in S
  BY <1>1, <1>2, Induction
<1> QED BY <1>3 DEF S
-----------------------------------------------------------------------------
(* Text in blocks *)

(* Holds, of any table and bytes. *)
HoldsIn(fat, by, h, n, s) ==
  \A k \in 0..(n - 1) :
    /\ BlockAt(fat, h, k) \in Block
    /\ \A i \in 1..BLOCK_SIZE :
         k * BLOCK_SIZE + i <= Len(s) => by[BlockAt(fat, h, k)][i] = s[k * BLOCK_SIZE + i]

(* What becomes of other chains and other blocks does not matter. *)
LEMMA HoldsKept ==
  ASSUME NEW fat \in FatType, NEW g \in FatType, NEW roots, roots \subseteq Block,
         Linked(fat, roots), NEW r \in roots, NEW n \in Nat, NEW s, NEW by, NEW cy,
         HoldsIn(fat, by, r, n, s),
         \A b \in Chain(fat, r) : g[b] = fat[b] /\ cy[b] = by[b]
  PROVE  HoldsIn(g, cy, r, n, s)
<1>1. ASSUME NEW k \in 0..(n - 1) PROVE BlockAt(fat, r, k) \in Chain(fat, r)
  <2>1. k \in Nat /\ BlockAt(fat, r, k) \in Block
    BY DEF HoldsIn
  <2> QED BY <2>1, BlockAtPlace
<1>2. \A k \in 0..n : BlockAt(g, r, k) = BlockAt(fat, r, k)
  <2>1. \A k \in 0..(n - 1) : g[BlockAt(fat, r, k)] = fat[BlockAt(fat, r, k)]
    BY <1>1
  <2> QED BY <2>1, BlockAtSame
<1>3. \A k \in 0..(n - 1) : k \in 0..n
  OBVIOUS
<1> QED BY <1>1, <1>2, <1>3 DEF HoldsIn

(* Between two tables and two disks, block n of the chain takes its piece of *)
(* the text, and nothing else of the chain changes.                         *)
PieceAdded(fat, g, by, cy, r, n, s) ==
  /\ \A b \in Chain(fat, r) : b # BlockAt(fat, r, n) => g[b] = fat[b] /\ cy[b] = by[b]
  /\ \A i \in 1..BLOCK_SIZE :
       n * BLOCK_SIZE + i <= Len(s) => cy[BlockAt(fat, r, n)][i] = s[n * BLOCK_SIZE + i]

(* A block is stored after those that hold the text so far, and only links *)
(* that do not lead to it, and its own, may change.                        *)
LEMMA HoldsMore ==
  ASSUME NEW fat \in FatType, NEW g \in FatType, NEW roots, roots \subseteq Block,
         Linked(fat, roots), NEW r \in roots, NEW n \in Nat, NEW s, NEW by, NEW cy,
         HoldsIn(fat, by, r, n, s),
         BlockAt(fat, r, n) \in Block, PieceAdded(fat, g, by, cy, r, n, s)
  PROVE  /\ HoldsIn(g, cy, r, n + 1, s)
         /\ BlockAt(g, r, n) = BlockAt(fat, r, n)
<1> DEFINE c == BlockAt(fat, r, n)
<1>0. /\ \A b \in Chain(fat, r) : b # c => g[b] = fat[b] /\ cy[b] = by[b]
      /\ \A i \in 1..BLOCK_SIZE : n * BLOCK_SIZE + i <= Len(s) => cy[c][i] = s[n * BLOCK_SIZE + i]
  BY DEF PieceAdded
<1>1. \A k \in 0..(n - 1) : BlockAt(fat, r, k) \in Chain(fat, r) /\ BlockAt(fat, r, k) # c
  BY BlocksBefore
<1>2. \A k \in 0..n : BlockAt(g, r, k) = BlockAt(fat, r, k)
  <2>1. \A k \in 0..(n - 1) : g[BlockAt(fat, r, k)] = fat[BlockAt(fat, r, k)]
    BY <1>0, <1>1
  <2> QED BY <2>1, BlockAtSame
<1>3. n \in 0..n /\ (n + 1) - 1 = n /\ \A k \in 0..n : k = n \/ k \in 0..(n - 1)
  OBVIOUS
<1>4. ASSUME NEW k \in 0..n
      PROVE  /\ BlockAt(g, r, k) \in Block
             /\ \A i \in 1..BLOCK_SIZE :
                  k * BLOCK_SIZE + i <= Len(s) => cy[BlockAt(g, r, k)][i] = s[k * BLOCK_SIZE + i]
  <2>1. CASE k = n
    BY <1>0, <1>2, <1>3, <2>1
  <2>2. CASE k \in 0..(n - 1)
    BY <1>0, <1>1, <1>2, <2>2 DEF HoldsIn
  <2> QED BY <1>3, <2>1, <2>2
<1> QED BY <1>2, <1>3, <1>4 DEF HoldsIn
-----------------------------------------------------------------------------
(* The text of a chain *)

(* A block is a text of its own. *)
LEMMA BlockText ==
  ASSUME NEW c \in [1..BLOCK_SIZE -> Character]
  PROVE  c \in Seq(Character) /\ Len(c) = BLOCK_SIZE
BY Sizes

(* Putting blocks together is adding them one by one. *)
LEMMA FlattenWalk ==
  ASSUME NEW N \in Nat, N > 0, NEW e \in [1..N -> [1..BLOCK_SIZE -> Character]]
  PROVE  \E w \in [1..N -> Seq(Character)] :
           /\ w[1] = e[1] /\ \A i \in 2..N : w[i] = w[i - 1] \o e[i]
           /\ FlattenSeq(e) = w[N]
<1> DEFINE flatten[i \in 1..N] == IF i = 1 THEN e[i] ELSE flatten[i - 1] \o e[i]
           F == [x \in Nat \X Seq(Character) |->
                   IF x[1] + 1 \in 1..N THEN x[2] \o e[x[1] + 1] ELSE x[2]]
<1>0. \A i \in 1..N : e[i] \in Seq(Character)
  BY BlockText
<1>1. PICK v : Walks(v, N - 1, F, e[1], Seq(Character))
  <2>1. F \in [Nat \X Seq(Character) -> Seq(Character)]
    BY <1>0, ConcatProperties
  <2>2. e[1] \in Seq(Character) /\ N - 1 \in Nat
    BY <1>0
  <2> HIDE DEF F
  <2> QED BY <2>1, <2>2, WalkExists
<1>2. v \in [0..(N - 1) -> Seq(Character)] /\ v[0] = e[1]
      /\ \A i \in 1..(N - 1) : v[i] = F[<<i, v[i - 1]>>]
  BY <1>1 DEF Walks
<1>3. \A i \in 1..(N - 1) : v[i] = v[i - 1] \o e[i + 1]
  <2> TAKE i \in 1..(N - 1)
  <2>1. i \in Nat /\ i + 1 \in 1..N /\ v[i - 1] \in Seq(Character)
    BY <1>2
  <2>2. v[i] = F[<<i, v[i - 1]>>]
    BY <1>2
  <2> QED BY <2>1, <2>2
<1> DEFINE w == [i \in 1..N |-> v[i - 1]]
<1>4. w = [i \in 1..N |-> IF i = 1 THEN e[i] ELSE w[i - 1] \o e[i]]
  <2>1. ASSUME NEW i \in 1..N
        PROVE  w[i] = IF i = 1 THEN e[i] ELSE w[i - 1] \o e[i]
    <3>1. CASE i = 1
      BY <1>2, <3>1
    <3>2. CASE i # 1
      <4>1. i - 1 \in 1..(N - 1) /\ (i - 1) + 1 = i /\ i - 1 \in 1..N
        BY <3>2
      <4>2. v[i - 1] = v[(i - 1) - 1] \o e[i]
        BY <1>3, <4>1
      <4> QED BY <3>2, <4>1, <4>2
    <3> QED BY <3>1, <3>2
  <2> QED BY <2>1
<1> HIDE DEF w
<1>5. flatten = CHOOSE f : f = [i \in 1..N |-> IF i = 1 THEN e[i] ELSE f[i - 1] \o e[i]]
  OBVIOUS
<1>6. Len(e) = N
  OBVIOUS
<1>7. FlattenSeq(e) = flatten[N]
  BY <1>6 DEF FlattenSeq
<1> HIDE DEF flatten
<1>8. flatten = [i \in 1..N |-> IF i = 1 THEN e[i] ELSE flatten[i - 1] \o e[i]]
  BY <1>4, <1>5
<1> DEFINE S == {i \in Nat : i + 1 \in 1..N => flatten[i + 1] \in Seq(Character)}
<1>9. 0 \in S
  BY <1>0, <1>8
<1>10. ASSUME NEW i \in Nat, i \in S PROVE i + 1 \in S
  <2> SUFFICES ASSUME (i + 1) + 1 \in 1..N PROVE flatten[(i + 1) + 1] \in Seq(Character)
    OBVIOUS
  <2>1. i + 1 \in 1..N /\ (i + 1) + 1 # 1 /\ ((i + 1) + 1) - 1 = i + 1
    OBVIOUS
  <2>2. flatten[(i + 1) + 1] = flatten[i + 1] \o e[(i + 1) + 1]
    BY <1>8, <2>1
  <2>3. flatten[i + 1] \in Seq(Character) /\ e[(i + 1) + 1] \in Seq(Character)
    BY <1>0, <1>10, <2>1
  <2> QED BY <2>2, <2>3, ConcatProperties
<1> HIDE DEF S
<1>11. \A i \in Nat : i \in S
  BY <1>9, <1>10, Induction
<1>12. flatten \in [1..N -> Seq(Character)]
  <2>1. \A i \in 1..N : i - 1 \in Nat /\ (i - 1) + 1 = i
    OBVIOUS
  <2>2. \A i \in 1..N : flatten[i] \in Seq(Character)
    BY <1>11, <2>1 DEF S
  <2> QED BY <1>8, <2>2
<1>13. flatten[1] = e[1]
  BY <1>8
<1>14. \A i \in 2..N : flatten[i] = flatten[i - 1] \o e[i]
  <2>1. \A i \in 2..N : i \in 1..N /\ i # 1
    OBVIOUS
  <2> QED BY <1>8, <2>1
<1> QED BY <1>7, <1>12, <1>13, <1>14

(* The blocks in order begin with a text that each holds its piece of. *)
LEMMA FlattenHolds ==
  ASSUME NEW N \in Nat, N > 0, NEW e \in [1..N -> [1..BLOCK_SIZE -> Character]],
         NEW s \in Seq(Character), Len(s) <= N * BLOCK_SIZE,
         \A k \in 0..(N - 1) : \A i \in 1..BLOCK_SIZE :
           k * BLOCK_SIZE + i <= Len(s) => e[k + 1][i] = s[k * BLOCK_SIZE + i]
  PROVE  SubSeq(FlattenSeq(e), 1, Len(s)) = s
<1>1. PICK w \in [1..N -> Seq(Character)] :
        /\ w[1] = e[1] /\ \A i \in 2..N : w[i] = w[i - 1] \o e[i]
        /\ FlattenSeq(e) = w[N]
  BY FlattenWalk
<1>0. BLOCK_SIZE \in Nat /\ Len(s) \in Nat
  BY Sizes
<1> DEFINE Begins(k) == /\ Len(w[k]) = k * BLOCK_SIZE
                        /\ \A x \in 1..(k * BLOCK_SIZE) : x <= Len(s) => w[k][x] = s[x]
           S == {k \in Nat : k + 1 \in 1..N => Begins(k + 1)}
<1>2. 0 \in S
  <2>1. 0 \in 0..(N - 1) /\ 1 \in 1..N /\ (0 + 1) * BLOCK_SIZE = BLOCK_SIZE
        /\ \A x \in 1..BLOCK_SIZE : 0 * BLOCK_SIZE + x = x
    BY <1>0
  <2>2. Len(e[1]) = BLOCK_SIZE
    BY <2>1, BlockText
  <2>3. \A x \in 1..BLOCK_SIZE : x <= Len(s) => e[1][x] = s[x]
    BY <2>1
  <2> QED BY <1>1, <2>1, <2>2, <2>3
<1>3. ASSUME NEW k \in Nat, k \in S PROVE k + 1 \in S
  <2> HIDE DEF Begins
  <2> SUFFICES ASSUME (k + 1) + 1 \in 1..N PROVE Begins((k + 1) + 1)
    OBVIOUS
  <2> USE DEF Begins
  <2> DEFINE c == e[(k + 1) + 1]
             v == w[k + 1]
             m == (k + 1) * BLOCK_SIZE
  <2>1. /\ k + 1 \in 1..N /\ (k + 1) + 1 \in 2..N /\ ((k + 1) + 1) - 1 = k + 1
        /\ k + 1 \in 0..(N - 1)
    OBVIOUS
  <2>2. w[(k + 1) + 1] = v \o c
    BY <1>1, <2>1
  <2>3. v \in Seq(Character) /\ c \in Seq(Character) /\ Len(c) = BLOCK_SIZE
    BY <2>1, BlockText
  <2>4. Len(v) = m /\ \A x \in 1..m : x <= Len(s) => v[x] = s[x]
    BY <1>3, <2>1
  <2>5. \A i \in 1..BLOCK_SIZE : m + i <= Len(s) => c[i] = s[m + i]
    BY <2>1
  <2>6. m \in Nat /\ ((k + 1) + 1) * BLOCK_SIZE = m + BLOCK_SIZE
    BY <1>0
  <2> HIDE DEF m, v, c
  <2>7. /\ Len(v \o c) = m + BLOCK_SIZE
        /\ \A x \in 1..(m + BLOCK_SIZE) : (v \o c)[x] = IF x <= m THEN v[x] ELSE c[x - m]
    <3>1. /\ Len(v \o c) = Len(v) + Len(c)
          /\ \A x \in 1..(Len(v) + Len(c)) : (v \o c)[x] = IF x <= Len(v) THEN v[x] ELSE c[x - Len(v)]
      BY <2>3, ConcatProperties
    <3>2. Len(v) = m /\ Len(c) = BLOCK_SIZE
      BY <2>3, <2>4
    <3> QED BY <3>1, <3>2
  <2>8. ASSUME NEW x \in 1..(m + BLOCK_SIZE), x <= Len(s) PROVE (v \o c)[x] = s[x]
    <3>1. CASE x <= m
      <4>1. x \in 1..m
        BY <1>0, <2>6, <3>1
      <4>2. v[x] = s[x]
        BY <2>4, <2>8, <4>1
      <4> QED BY <2>7, <3>1, <4>2
    <3>2. CASE x > m
      <4>1. x - m \in 1..BLOCK_SIZE /\ m + (x - m) = x
        BY <1>0, <2>6, <3>2
      <4>2. c[x - m] = s[x]
        BY <2>5, <2>8, <4>1
      <4>3. (v \o c)[x] = c[x - m]
        <5>1. ~(x <= m)
          BY <1>0, <2>6, <3>2
        <5> QED BY <2>7, <5>1
      <4> QED BY <4>2, <4>3
    <3>3. m \in Nat /\ BLOCK_SIZE \in Nat
      BY <1>0, <2>6
    <3>4. x <= m \/ x > m
      BY <3>3
    <3> QED BY <3>1, <3>2, <3>4
  <2> QED BY <2>2, <2>6, <2>7, <2>8
<1> HIDE DEF S
<1>4. \A k \in Nat : k \in S
  BY <1>2, <1>3, Induction
<1>5. Len(w[N]) = N * BLOCK_SIZE /\ \A x \in 1..(N * BLOCK_SIZE) : x <= Len(s) => w[N][x] = s[x]
  <2>1. N - 1 \in Nat /\ (N - 1) + 1 = N /\ N \in 1..N
    OBVIOUS
  <2> QED BY <1>4, <2>1 DEF S
<1>6. w[N] \in Seq(Character)
  OBVIOUS
<1> DEFINE t == w[N]
           T == N * BLOCK_SIZE
<1>7. T \in Nat /\ Len(t) = T /\ \A x \in 1..T : x <= Len(s) => t[x] = s[x]
  BY <1>0, <1>5
<1>8. Len(s) <= T /\ t \in Seq(Character) /\ FlattenSeq(e) = t
  BY <1>1, <1>6
<1> HIDE DEF T, t
<1>9. /\ SubSeq(t, 1, Len(s)) \in Seq(Character) /\ Len(SubSeq(t, 1, Len(s))) = Len(s)
      /\ \A x \in 1..Len(s) : SubSeq(t, 1, Len(s))[x] = s[x]
  BY <1>0, <1>7, <1>8, SubSeqProperties
<1> QED BY <1>8, <1>9, SeqEqual
-----------------------------------------------------------------------------
(* do_read *)

ReadType == [text : Seq(Character), count : Nat, left : Int, lost : BOOLEAN]

(* The fields of an entry of the open file table. *)
LEMMA OpenFields ==
  ASSUME ContentsTypeOK, NEW f \in Files
  PROVE  /\ open[f].first \in Block /\ open[f].length \in Nat /\ open[f].count \in Nat
         /\ open[f].length < WRITE_SIZE
         /\ expected[f] \in Seq(Character) /\ Len(expected[f]) \in Nat
BY Sizes DEF ContentsTypeOK

(* What a round looks at: the offset in the block, and what is in it. *)
At(r)     == r.count % BLOCK_SIZE
Seen(f, r) == LET b == BlockAt(fat1, open[f].first, r.count \div BLOCK_SIZE)
              IN  IF b = OffChain THEN zeros(BLOCK_SIZE) ELSE bytes[b]
Took(r)   == IF At(r) + r.left <= BLOCK_SIZE THEN r.left ELSE BLOCK_SIZE - At(r)

(* The terminator is a character. *)
LEMMA NulType == NUL \in Character
BY CharacterAssumption

(* One round of do_read's loop, in the terms used below. *)
LEMMA RoundDoes ==
  ASSUME ContentsTypeOK, fat1 \in FatType, NEW f \in Files, NEW r \in ReadType, r.left > 0
  PROVE  /\ At(r) \in 0..(BLOCK_SIZE - 1)
         /\ Took(r) \in 1..BLOCK_SIZE /\ At(r) + Took(r) <= BLOCK_SIZE
         /\ BlockAt(fat1, open[f].first, r.count \div BLOCK_SIZE) \in Places
         /\ Seen(f, r) \in [1..BLOCK_SIZE -> Character]
         /\ read_round(f, r) =
              [text |-> r.text \o SubSeq(Seen(f, r), At(r) + 1, At(r) + Took(r)),
               count |-> r.count + Took(r),
               left |-> IF At(r) + r.left <= BLOCK_SIZE THEN 0 ELSE r.left - BLOCK_SIZE - At(r),
               lost |-> r.lost \/ BlockAt(fat1, open[f].first, r.count \div BLOCK_SIZE) = OffChain]
<1> DEFINE b == BlockAt(fat1, open[f].first, r.count \div BLOCK_SIZE)
<1>1. r.text \in Seq(Character) /\ r.count \in Nat /\ r.left \in Int /\ r.lost \in BOOLEAN
  BY DEF ReadType
<1>2. At(r) \in 0..(BLOCK_SIZE - 1) /\ r.count \div BLOCK_SIZE \in Nat
  BY <1>1, DivMod DEF At
<1>3. Took(r) \in 1..BLOCK_SIZE /\ At(r) + Took(r) <= BLOCK_SIZE
  BY <1>1, <1>2, Sizes DEF Took
<1>4. b \in Places
  BY <1>2, OpenFields, BlockAtNext
<1>5. physics_block(open[f].first, r.count \div BLOCK_SIZE) = b
  BY PhysicsBlock
<1> HIDE DEF b
<1>6. Seen(f, r) \in [1..BLOCK_SIZE -> Character]
  <2>1. zeros(BLOCK_SIZE) \in [1..BLOCK_SIZE -> Character]
    BY NulType DEF zeros
  <2>2. b # OffChain => bytes[b] \in [1..BLOCK_SIZE -> Character]
    BY <1>4 DEF Places, ContentsTypeOK
  <2> QED BY <2>1, <2>2 DEF Seen, b
<1>7. read_round(f, r) =
              [text |-> r.text \o SubSeq(Seen(f, r), At(r) + 1, At(r) + Took(r)),
               count |-> r.count + Took(r),
               left |-> IF At(r) + r.left <= BLOCK_SIZE THEN 0 ELSE r.left - BLOCK_SIZE - At(r),
               lost |-> r.lost \/ b = OffChain]
  <2>1. CASE At(r) + r.left <= BLOCK_SIZE
    BY <1>5, <2>1 DEF read_round, Seen, At, Took, b
  <2>2. CASE ~(At(r) + r.left <= BLOCK_SIZE)
    <3>1. /\ At(r) + (BLOCK_SIZE - At(r)) = BLOCK_SIZE
          /\ r.count + (BLOCK_SIZE - At(r)) = r.count + BLOCK_SIZE - At(r)
      BY <1>1, <1>2, Sizes
    <3>2. Took(r) = BLOCK_SIZE - At(r)
      BY <2>2 DEF Took
    <3>3. read_round(f, r) =
                [text |-> r.text \o SubSeq(Seen(f, r), At(r) + 1, BLOCK_SIZE),
                 count |-> r.count + BLOCK_SIZE - At(r),
                 left |-> r.left - BLOCK_SIZE - At(r),
                 lost |-> r.lost \/ b = OffChain]
      BY <1>5, <2>2 DEF read_round, Seen, At, b
    <3> QED BY <2>2, <3>1, <3>2, <3>3
  <2> QED BY <2>1, <2>2
<1> QED BY <1>2, <1>3, <1>4, <1>6, <1>7 DEF b

(* A round of do_read leaves what a round may start from. *)
LEMMA RoundType ==
  ASSUME ContentsTypeOK, fat1 \in FatType, NEW f \in Files, NEW r \in ReadType, r.left > 0
  PROVE  read_round(f, r) \in ReadType
<1> DEFINE piece == SubSeq(Seen(f, r), At(r) + 1, At(r) + Took(r))
<1>1. r.text \in Seq(Character) /\ r.count \in Nat /\ r.left \in Int /\ r.lost \in BOOLEAN
  BY DEF ReadType
<1>2. /\ At(r) \in Nat /\ Took(r) \in Nat /\ At(r) + Took(r) <= BLOCK_SIZE
      /\ Seen(f, r) \in [1..BLOCK_SIZE -> Character]
  BY RoundDoes, Sizes
<1>3. piece \in Seq(Character)
  <2>1. At(r) + 1 \in Int /\ At(r) + Took(r) \in Int
    BY <1>2
  <2>2. \A i \in (At(r) + 1)..(At(r) + Took(r)) : i \in 1..BLOCK_SIZE
    BY <1>2, Sizes
  <2> QED BY <1>2, <2>1, <2>2, SubSeqProperties
<1>4. r.text \o piece \in Seq(Character)
  BY <1>1, <1>3, ConcatProperties
<1> HIDE DEF piece
<1>5. r.count + Took(r) \in Nat
  BY <1>1, <1>2
<1>6. (IF At(r) + r.left <= BLOCK_SIZE THEN 0 ELSE r.left - BLOCK_SIZE - At(r)) \in Int
  BY <1>1, <1>2, Sizes
<1>7. (r.lost \/ BlockAt(fat1, open[f].first, r.count \div BLOCK_SIZE) = OffChain) \in BOOLEAN
  OBVIOUS
<1>8. read_round(f, r) =
        [text |-> r.text \o piece, count |-> r.count + Took(r),
         left |-> IF At(r) + r.left <= BLOCK_SIZE THEN 0 ELSE r.left - BLOCK_SIZE - At(r),
         lost |-> r.lost \/ BlockAt(fat1, open[f].first, r.count \div BLOCK_SIZE) = OffChain]
  BY RoundDoes DEF piece
<1> QED BY <1>4, <1>5, <1>6, <1>7, <1>8 DEF ReadType

Round(f, r) == IF r.left <= 0 THEN r ELSE read_round(f, r)

(* How much is to be read is a number. *)
LEMMA WantedType ==
  ASSUME ContentsTypeOK, NEW f \in Files, NEW count \in Nat, NEW len \in Int
  PROVE  wanted(f, count, len) \in Nat
BY OpenFields DEF wanted

(* do_read is its rounds, one after the other. *)
LEMMA DoReadWalk ==
  ASSUME ContentsTypeOK, fat1 \in FatType, NEW f \in Files, NEW count \in Nat, NEW len \in Int
  PROVE  \E w \in [0..WRITE_SIZE -> ReadType] :
           /\ w[0] = [text |-> <<>>, count |-> count,
                      left |-> wanted(f, count, len), lost |-> FALSE]
           /\ \A i \in 1..WRITE_SIZE : w[i] = Round(f, w[i - 1])
           /\ do_read(f, count, len) = w[WRITE_SIZE]
<1> DEFINE start == [text |-> <<>>, count |-> count,
                     left |-> wanted(f, count, len), lost |-> FALSE]
           F == [x \in Nat \X ReadType |-> Round(f, x[2])]
           rounds[n \in 0..WRITE_SIZE] ==
             IF n = 0 THEN start
             ELSE IF rounds[n - 1].left <= 0 THEN rounds[n - 1]
             ELSE read_round(f, rounds[n - 1])
<1>0. WRITE_SIZE \in Nat
  BY Sizes
<1>1. PICK w : Walks(w, WRITE_SIZE, F, start, ReadType)
  <2>1. F \in [Nat \X ReadType -> ReadType]
    <3>1. ASSUME NEW r \in ReadType PROVE Round(f, r) \in ReadType
      <4>1. r.left \in Int
        BY DEF ReadType
      <4> QED BY <4>1, RoundType DEF Round
    <3> QED BY <3>1
  <2>2. start \in ReadType
    <3>1. wanted(f, count, len) \in Int
      BY WantedType
    <3>2. <<>> \in Seq(Character)
      OBVIOUS
    <3> QED BY <3>1, <3>2 DEF ReadType
  <2> HIDE DEF F, start
  <2> QED BY <1>0, <2>1, <2>2, WalkExists
<1> HIDE DEF start
<1>2. w \in [0..WRITE_SIZE -> ReadType] /\ w[0] = start
      /\ \A i \in 1..WRITE_SIZE : w[i] = Round(f, w[i - 1])
  <2>1. w \in [0..WRITE_SIZE -> ReadType] /\ w[0] = start
        /\ \A i \in 1..WRITE_SIZE : w[i] = F[<<i, w[i - 1]>>]
    BY <1>1 DEF Walks
  <2>2. \A i \in 1..WRITE_SIZE : i \in Nat /\ w[i - 1] \in ReadType
    BY <1>0, <2>1
  <2> QED BY <2>1, <2>2
<1>3. w = [n \in 0..WRITE_SIZE |->
             IF n = 0 THEN start
             ELSE IF w[n - 1].left <= 0 THEN w[n - 1]
             ELSE read_round(f, w[n - 1])]
  <2>1. w = [n \in 0..WRITE_SIZE |-> w[n]]
    BY <1>2
  <2>2. \A n \in 0..WRITE_SIZE : w[n] = IF n = 0 THEN start ELSE Round(f, w[n - 1])
    BY <1>0, <1>2
  <2> QED BY <2>1, <2>2 DEF Round
<1>4. rounds = CHOOSE v : v = [n \in 0..WRITE_SIZE |->
             IF n = 0 THEN start
             ELSE IF v[n - 1].left <= 0 THEN v[n - 1]
             ELSE read_round(f, v[n - 1])]
  OBVIOUS
<1>5. do_read(f, count, len) = rounds[WRITE_SIZE]
  BY DEF do_read, start
<1> HIDE DEF rounds
<1>6. rounds = [n \in 0..WRITE_SIZE |->
             IF n = 0 THEN start
             ELSE IF rounds[n - 1].left <= 0 THEN rounds[n - 1]
             ELSE read_round(f, rounds[n - 1])]
  BY <1>3, <1>4
<1>7. rounds[0] = start /\ \A k \in 1..WRITE_SIZE : rounds[k] = Round(f, rounds[k - 1])
  BY <1>0, <1>6 DEF Round
<1> DEFINE S == {k \in Nat : k <= WRITE_SIZE => rounds[k] = w[k]}
<1>8. 0 \in S
  BY <1>2, <1>7
<1>9. ASSUME NEW k \in Nat, k \in S PROVE k + 1 \in S
  <2> SUFFICES ASSUME k + 1 <= WRITE_SIZE PROVE rounds[k + 1] = w[k + 1]
    OBVIOUS
  <2>1. k + 1 \in 1..WRITE_SIZE /\ (k + 1) - 1 = k /\ rounds[k] = w[k]
    BY <1>0, <1>9
  <2> QED BY <1>2, <1>7, <2>1
<1> HIDE DEF S
<1>10. \A k \in Nat : k \in S
  BY <1>8, <1>9, Induction
<1>11. rounds[WRITE_SIZE] = w[WRITE_SIZE]
  BY <1>0, <1>10 DEF S
<1> QED BY <1>2, <1>5, <1>11 DEF start

(* What do_read returns. *)
LEMMA DoReadType ==
  ASSUME ContentsTypeOK, fat1 \in FatType, NEW f \in Files, NEW count \in Nat, NEW len \in Int
  PROVE  do_read(f, count, len) \in ReadType
<1>1. PICK w \in [0..WRITE_SIZE -> ReadType] : do_read(f, count, len) = w[WRITE_SIZE]
  BY DoReadWalk
<1> QED BY <1>1, Sizes

(* Holds, on the table and the disk of the moment. *)
LEMMA HoldsHere ==
  ASSUME NEW h, NEW n, NEW s
  PROVE  Holds(h, n, s) = HoldsIn(fat1, bytes, h, n, s)
BY PhysicsBlock DEF Holds, HoldsIn

(* A block within the text is there, and holds its piece. *)
LEMMA SeenHolds ==
  ASSUME ContentsTypeOK, NEW f \in Files, Settled(f), NEW r \in ReadType,
         r.count <= Len(expected[f])
  PROVE  /\ BlockAt(fat1, open[f].first, r.count \div BLOCK_SIZE) # OffChain
         /\ \A i \in 1..BLOCK_SIZE :
              r.count - At(r) + i <= Len(expected[f]) =>
                Seen(f, r)[i] = expected[f][r.count - At(r) + i]
<1> DEFINE s == expected[f]
           k == r.count \div BLOCK_SIZE
           b == BlockAt(fat1, open[f].first, k)
<1>1. r.count \in Nat /\ Len(s) \in Nat
  BY OpenFields DEF ReadType
<1>2. k \in Nat /\ k * BLOCK_SIZE = r.count - At(r)
  BY <1>1, DivMod, Sizes DEF At
<1>3. k <= Len(s) \div BLOCK_SIZE /\ Len(s) \div BLOCK_SIZE \in Nat
  BY <1>1, DivMonotonic, DivMod
<1>4. k \in 0..(BlocksOf(s) - 1)
  BY <1>2, <1>3 DEF BlocksOf
<1>5. HoldsIn(fat1, bytes, open[f].first, BlocksOf(s), s)
  BY HoldsHere DEF Settled
<1> HIDE DEF k
<1>6. /\ b \in Block
      /\ \A i \in 1..BLOCK_SIZE : k * BLOCK_SIZE + i <= Len(s) => bytes[b][i] = s[k * BLOCK_SIZE + i]
  BY <1>4, <1>5 DEF HoldsIn
<1>7. b # OffChain
  BY <1>6, OffChainNoBlock
<1>8. Seen(f, r) = bytes[b]
  BY <1>7 DEF Seen, k
<1> QED BY <1>2, <1>6, <1>7, <1>8 DEF k

(* What a part of a text is. *)
LEMMA Piece ==
  ASSUME NEW S, NEW s, NEW m \in Nat, NEW k \in Nat, \A i \in 1..k : s[m + i] \in S
  PROVE  /\ SubSeq(s, m + 1, m + k) \in Seq(S) /\ Len(SubSeq(s, m + 1, m + k)) = k
         /\ \A i \in 1..k : SubSeq(s, m + 1, m + k)[i] = s[m + i]
<1>1. m + 1 \in Int /\ m + k \in Int
  OBVIOUS
<1>2. \A i \in (m + 1)..(m + k) : s[i] \in S
  <2> TAKE i \in (m + 1)..(m + k)
  <2>1. i - m \in 1..k /\ m + (i - m) = i
    OBVIOUS
  <2> QED BY <2>1
<1>3. /\ (m + k) - (m + 1) + 1 = k /\ (m + 1 > m + k => k = 0)
      /\ \A i \in 1..k : (m + 1) + i - 1 = m + i
  OBVIOUS
<1>4. /\ SubSeq(s, m + 1, m + k) \in Seq(S)
      /\ Len(SubSeq(s, m + 1, m + k)) =
           IF m + 1 <= m + k THEN (m + k) - (m + 1) + 1 ELSE 0
      /\ \A i \in 1..((m + k) - (m + 1) + 1) :
           SubSeq(s, m + 1, m + k)[i] = s[(m + 1) + i - 1]
  BY <1>1, <1>2, SubSeqProperties
<1> QED BY <1>3, <1>4

(* What a part of a block is. *)
LEMMA PieceOfBlock ==
  ASSUME NEW c, \A i \in 1..BLOCK_SIZE : c[i] \in Character, NEW a \in Nat, NEW k \in Nat, a + k <= BLOCK_SIZE
  PROVE  /\ SubSeq(c, a + 1, a + k) \in Seq(Character) /\ Len(SubSeq(c, a + 1, a + k)) = k
         /\ \A i \in 1..k : SubSeq(c, a + 1, a + k)[i] = c[a + i]
<1>1. \A i \in 1..k : c[a + i] \in Character
  <2>1. \A i \in 1..k : a + i \in 1..BLOCK_SIZE
    BY Sizes
  <2> QED BY <2>1
<1> QED BY <1>1, Piece

(* Elements a + 1 .. a + k of block go on with s where c leaves it. *)
Joins(s, at, c, block, a, k) ==
  SubSeq(s, at + 1, c) \o SubSeq(block, a + 1, a + k) = SubSeq(s, at + 1, c + k)

(* What a block has of the text goes after what is before it. *)
LEMMA PieceJoins ==
  ASSUME NEW s \in Seq(Character), NEW block, \A i \in 1..BLOCK_SIZE : block[i] \in Character,
         NEW c \in Nat, NEW at \in 0..c, NEW a \in 0..c, NEW k \in Nat,
         a + k <= BLOCK_SIZE, c + k <= Len(s),
         \A i \in 1..BLOCK_SIZE : c - a + i <= Len(s) => block[i] = s[c - a + i]
  PROVE  Joins(s, at, c, block, a, k)
<1>0. BLOCK_SIZE \in Nat /\ Len(s) \in Nat
  BY Sizes
<1>1. \A i \in 1..k : a + i \in 1..BLOCK_SIZE /\ c + i \in 1..Len(s) /\ c - a + (a + i) = c + i
  BY <1>0
<1>2. \A i \in 1..k : block[a + i] = s[c + i] /\ block[a + i] \in Character /\ s[c + i] \in Character
  <2> TAKE i \in 1..k
  <2>1. a + i \in 1..BLOCK_SIZE /\ c + i \in 1..Len(s) /\ c - a + (a + i) = c + i
    BY <1>1
  <2>2. c - a + (a + i) <= Len(s)
    BY <1>0, <2>1
  <2>3. block[a + i] = s[c - a + (a + i)]
    BY <2>1, <2>2
  <2> QED BY <2>1, <2>3
<1> DEFINE p == SubSeq(block, a + 1, a + k)
           q == SubSeq(s, c + 1, c + k)
<1>3. /\ p \in Seq(Character) /\ Len(p) = k /\ \A i \in 1..k : p[i] = block[a + i]
  BY <1>0, PieceOfBlock
<1>4. /\ q \in Seq(Character) /\ Len(q) = k /\ \A i \in 1..k : q[i] = s[c + i]
  BY <1>2, Piece
<1> HIDE DEF p, q
<1>5. \A i \in 1..Len(p) : p[i] = q[i]
  BY <1>2, <1>3, <1>4
<1>6. p = q
  BY <1>3, <1>4, <1>5, SeqEqual
<1>7. at + 1 \in 1..(Len(s) + 1) /\ c \in ((at + 1) - 1)..Len(s) /\ c + k \in c..Len(s)
  BY <1>0
<1>8. SubSeq(s, at + 1, c) \o q = SubSeq(s, at + 1, c + k)
  BY <1>7, ConcatAdjacentSubSeq DEF q
<1> QED BY <1>6, <1>8 DEF p, Joins

(* The fields of what a round leaves. *)
LEMMA ReadFields ==
  ASSUME NEW x, NEW t, NEW c, NEW n, NEW l,
         x = [text |-> t, count |-> c, left |-> n, lost |-> l]
  PROVE  x.text = t /\ x.count = c /\ x.left = n /\ x.lost = l
OBVIOUS

(* A round that stays within the text goes on with it. *)
LEMMA RoundReads ==
  ASSUME ContentsTypeOK, fat1 \in FatType, NEW f \in Files, Settled(f),
         NEW r \in ReadType, r.left > 0, r.count + Took(r) <= Len(expected[f]),
         NEW at \in 0..r.count, r.text = SubSeq(expected[f], at + 1, r.count)
  PROVE  /\ read_round(f, r).text = SubSeq(expected[f], at + 1, r.count + Took(r))
         /\ read_round(f, r).count = r.count + Took(r)
         /\ read_round(f, r).left =
              IF At(r) + r.left <= BLOCK_SIZE THEN 0 ELSE r.left - BLOCK_SIZE - At(r)
         /\ read_round(f, r).lost = r.lost
<1> DEFINE s == expected[f]
           b == BlockAt(fat1, open[f].first, r.count \div BLOCK_SIZE)
           left == IF At(r) + r.left <= BLOCK_SIZE THEN 0 ELSE r.left - BLOCK_SIZE - At(r)
<1>1. s \in Seq(Character) /\ Len(s) \in Nat /\ r.count \in Nat /\ r.lost \in BOOLEAN
  BY OpenFields DEF ReadType
<1>2. /\ At(r) \in 0..(BLOCK_SIZE - 1) /\ Took(r) \in 1..BLOCK_SIZE
      /\ At(r) + Took(r) <= BLOCK_SIZE /\ Seen(f, r) \in [1..BLOCK_SIZE -> Character]
      /\ read_round(f, r) =
           [text |-> r.text \o SubSeq(Seen(f, r), At(r) + 1, At(r) + Took(r)),
            count |-> r.count + Took(r), left |-> left, lost |-> r.lost \/ b = OffChain]
  BY RoundDoes
<1>3. At(r) \in 0..r.count /\ Took(r) \in Nat
  <2> DEFINE k == r.count \div BLOCK_SIZE
             m == k * BLOCK_SIZE
  <2>1. k \in Nat /\ r.count = m + At(r)
    BY <1>1, DivMod DEF At
  <2> HIDE DEF k
  <2>2. m \in Nat
    BY <2>1, Sizes
  <2> HIDE DEF m
  <2>3. At(r) \in Nat /\ Took(r) \in Nat
    BY <1>2, Sizes
  <2> QED BY <1>1, <2>1, <2>2, <2>3
<1> HIDE DEF left, b, s
<1>4. r.count <= Len(s)
  BY <1>1, <1>3 DEF s
<1>5. /\ b # OffChain
      /\ \A i \in 1..BLOCK_SIZE :
           r.count - At(r) + i <= Len(s) => Seen(f, r)[i] = s[r.count - At(r) + i]
  BY <1>4, SeenHolds DEF s, b
<1>6. SubSeq(s, at + 1, r.count) \o SubSeq(Seen(f, r), At(r) + 1, At(r) + Took(r))
        = SubSeq(s, at + 1, r.count + Took(r))
  <2>1. r.count + Took(r) <= Len(s)
    BY DEF s
  <2> DEFINE block == Seen(f, r)
             a == At(r)
             k == Took(r)
             c == r.count
  <2>2. \A i \in 1..BLOCK_SIZE : block[i] \in Character
    BY <1>2
  <2>3. a + k <= BLOCK_SIZE /\ a \in 0..c /\ k \in Nat /\ c \in Nat /\ at \in 0..c
    BY <1>1, <1>2, <1>3
  <2>4. c + k <= Len(s) /\ \A i \in 1..BLOCK_SIZE : c - a + i <= Len(s) => block[i] = s[c - a + i]
    BY <1>5, <2>1
  <2> HIDE DEF block, a, k, c
  <2>5. Joins(s, at, c, block, a, k)
    BY <1>1, <2>2, <2>3, <2>4, PieceJoins
  <2> QED BY <2>5 DEF Joins, block, a, k, c
<1>7. (r.lost \/ b = OffChain) = r.lost
  BY <1>1, <1>5
<1>8. r.text = SubSeq(s, at + 1, r.count)
  BY DEF s
<1> DEFINE shown == SubSeq(s, at + 1, r.count + Took(r))
           count == r.count + Took(r)
<1>9. read_round(f, r) = [text |-> shown, count |-> count, left |-> left, lost |-> r.lost]
  BY <1>2, <1>6, <1>7, <1>8
<1> HIDE DEF shown, count
<1>10. /\ read_round(f, r).text = shown /\ read_round(f, r).count = count
       /\ read_round(f, r).left = left /\ read_round(f, r).lost = r.lost
  BY <1>9, ReadFields
<1> QED BY <1>10 DEF shown, count, left, s

(* How much do_read copies when n characters are wanted from `at', and     *)
(* when it counts below 0 instead.                                         *)
Shows(at, n) ==
  IF at % BLOCK_SIZE = 0 \/ (at % BLOCK_SIZE) + n <= BLOCK_SIZE THEN n
  ELSE n - 2 * (at % BLOCK_SIZE)
Fails(at, n) ==
  /\ (at % BLOCK_SIZE) + n > BLOCK_SIZE /\ at % BLOCK_SIZE # 0
  /\ n < BLOCK_SIZE + (at % BLOCK_SIZE)

(* What do_read has after m rounds, one at least. *)
Shown(s, at, n, m, r) ==
  /\ ~r.lost /\ r.count \in at..Len(s) /\ r.text = SubSeq(s, at + 1, r.count)
  /\ r.count + r.left = at + Shows(at, n)
  /\ r.left > 0 => r.count % BLOCK_SIZE = 0 /\ r.left <= n - m
  /\ r.left < 0 <=> Fails(at, n)

(* The round after the first starts with a block. *)
LEMMA NextBlock ==
  ASSUME NEW c \in Nat
  PROVE  (c - (c % BLOCK_SIZE) + BLOCK_SIZE) % BLOCK_SIZE = 0
         /\ c - (c % BLOCK_SIZE) + BLOCK_SIZE \in Nat
<1> DEFINE q == c \div BLOCK_SIZE
           o == c % BLOCK_SIZE
<1>1. q \in Nat /\ o \in Nat /\ c = q * BLOCK_SIZE + o
  BY DivMod, Sizes
<1> HIDE DEF q, o
<1>2. q + 1 \in Nat /\ (q + 1) * BLOCK_SIZE \in Nat /\ c - o + BLOCK_SIZE = (q + 1) * BLOCK_SIZE + 0
  BY <1>1, Sizes
<1>3. ((q + 1) * BLOCK_SIZE + 0) % BLOCK_SIZE = 0
  <2>1. 0 \in 0..(BLOCK_SIZE - 1)
    BY Sizes
  <2> HIDE DEF q
  <2> QED BY <1>2, <2>1, DivModUnique
<1> QED BY <1>2, <1>3 DEF o

(* The first round: up to the end of the block, or less. *)
LEMMA FirstShown ==
  ASSUME ContentsTypeOK, fat1 \in FatType, NEW f \in Files, Settled(f),
         NEW at \in Nat, NEW n \in Nat, n > 0, at + n <= Len(expected[f]),
         NEW r, r = [text |-> <<>>, count |-> at, left |-> n, lost |-> FALSE]
  PROVE  Shown(expected[f], at, n, 1, read_round(f, r))
<1> DEFINE s == expected[f]
           x == read_round(f, r)
           o == at % BLOCK_SIZE
<1>1. r.text = <<>> /\ r.count = at /\ r.left = n /\ r.lost = FALSE
  OBVIOUS
<1>2. r \in ReadType
  <2>1. <<>> \in Seq(Character) /\ n \in Int
    OBVIOUS
  <2> QED BY <2>1 DEF ReadType
<1>3. s \in Seq(Character) /\ Len(s) \in Nat
  BY OpenFields
<1>4. At(r) = o /\ o \in Nat /\ o < BLOCK_SIZE /\ BLOCK_SIZE \in Nat
  BY <1>1, DivMod, Sizes DEF At
<1>5. Took(r) = IF o + n <= BLOCK_SIZE THEN n ELSE BLOCK_SIZE - o
  BY <1>1, <1>4 DEF Took
<1>6. SubSeq(s, at + 1, at) = <<>>
  <2>1. at + 1 \in Int /\ at \in Int /\ at < at + 1
    OBVIOUS
  <2> QED BY <2>1, SubSeqEmpty
<1> HIDE DEF o, s
<1>7. Took(r) \in Nat /\ Took(r) <= n /\ at + Took(r) <= Len(s)
  BY <1>3, <1>4, <1>5 DEF s
<1>8. /\ x.text = SubSeq(s, at + 1, at + Took(r)) /\ x.count = at + Took(r)
      /\ x.left = (IF o + n <= BLOCK_SIZE THEN 0 ELSE n - BLOCK_SIZE - o)
      /\ x.lost = FALSE
  <2>1. r.left > 0 /\ r.count + Took(r) <= Len(s) /\ at \in 0..r.count
        /\ r.text = SubSeq(s, at + 1, r.count)
    BY <1>1, <1>6, <1>7
  <2>2. /\ x.text = SubSeq(s, at + 1, r.count + Took(r)) /\ x.count = r.count + Took(r)
        /\ x.left = (IF At(r) + r.left <= BLOCK_SIZE THEN 0 ELSE r.left - BLOCK_SIZE - At(r))
        /\ x.lost = r.lost
    BY <1>2, <2>1, RoundReads DEF s
  <2> QED BY <1>1, <1>4, <2>2
<1>9. (at - o + BLOCK_SIZE) % BLOCK_SIZE = 0
  BY NextBlock DEF o
<1> DEFINE c == at + Took(r)
<1>10. /\ c \in at..Len(s)
       /\ c + x.left = at + (IF o = 0 \/ o + n <= BLOCK_SIZE THEN n ELSE n - 2 * o)
       /\ x.left > 0 => c = at - o + BLOCK_SIZE /\ x.left <= n - 1
       /\ x.left < 0 <=> o + n > BLOCK_SIZE /\ o # 0 /\ n < BLOCK_SIZE + o
  <2> DEFINE left == x.left
             took == Took(r)
  <2>1. left = IF o + n <= BLOCK_SIZE THEN 0 ELSE n - BLOCK_SIZE - o
    BY <1>8
  <2>2. /\ took = (IF o + n <= BLOCK_SIZE THEN n ELSE BLOCK_SIZE - o)
        /\ took \in Nat /\ at + took <= Len(s)
    BY <1>5, <1>7
  <2> HIDE DEF left, took, x
  <2>3. at + took \in at..Len(s)
    BY <1>3, <2>2
  <2>4. CASE o + n <= BLOCK_SIZE
    <3>1. left = 0 /\ took = n
      BY <2>1, <2>2, <2>4
    <3>2. /\ at + took + left = at + n
          /\ ~(left > 0) /\ ~(left < 0) /\ ~(o + n > BLOCK_SIZE)
      BY <1>4, <2>4, <3>1
    <3> QED BY <2>3, <2>4, <3>2 DEF left, took
  <2>5. CASE ~(o + n <= BLOCK_SIZE)
    <3>1. left = n - BLOCK_SIZE - o /\ took = BLOCK_SIZE - o
      BY <2>1, <2>2, <2>5
    <3>2. /\ at + took + left = at + (n - 2 * o)
          /\ o = 0 => at + took + left = at + n
          /\ left > 0 => at + took = at - o + BLOCK_SIZE /\ left <= n - 1
          /\ left < 0 <=> o + n > BLOCK_SIZE /\ o # 0 /\ n < BLOCK_SIZE + o
      BY <1>4, <2>5, <3>1, Sizes
    <3> QED BY <2>3, <2>5, <3>2 DEF left, took
  <2> QED BY <2>4, <2>5
<1> HIDE DEF x
<1>11. ~x.lost /\ x.count = c /\ x.text = SubSeq(s, at + 1, c)
  BY <1>8
<1> QED BY <1>9, <1>10, <1>11 DEF Shown, Shows, Fails, o, s, x

(* The rounds that follow take whole blocks, and the last what is left. *)
LEMMA NextShown ==
  ASSUME ContentsTypeOK, fat1 \in FatType, NEW f \in Files, Settled(f),
         NEW at \in Nat, NEW n \in Nat, n > 0, at + n <= Len(expected[f]),
         NEW m \in Nat, NEW r \in ReadType, r.left > 0, Shown(expected[f], at, n, m, r)
  PROVE  Shown(expected[f], at, n, m + 1, read_round(f, r))
<1> DEFINE s == expected[f]
           x == read_round(f, r)
           c == r.count
           l == r.left
           took == Took(r)
           total == at + Shows(at, n)
<1>1. s \in Seq(Character) /\ Len(s) \in Nat
  BY OpenFields
<1>2. /\ ~r.lost /\ c \in at..Len(s) /\ r.text = SubSeq(s, at + 1, c)
      /\ c + l = total /\ c % BLOCK_SIZE = 0 /\ l <= n - m
      /\ ~Fails(at, n) /\ c \in Nat /\ l \in Int /\ l > 0 /\ r.lost \in BOOLEAN
  BY DEF Shown, ReadType
<1>3. total <= Len(s) /\ BLOCK_SIZE \in Nat /\ BLOCK_SIZE > 0
  <2>1. at % BLOCK_SIZE \in Nat
    BY DivMod, Sizes
  <2>2. Shows(at, n) \in Int /\ Shows(at, n) <= n
    BY <2>1, Sizes DEF Shows
  <2> QED BY <1>1, <2>2, Sizes
<1>4. At(r) = 0 /\ took = IF l <= BLOCK_SIZE THEN l ELSE BLOCK_SIZE
  <2>1. At(r) = 0
    BY <1>2 DEF At
  <2> QED BY <1>2, <1>3, <2>1 DEF Took
<1> HIDE DEF c, l, took, total, s
<1>5. took \in Nat /\ took >= 1 /\ took <= l /\ c + took <= Len(s)
  BY <1>1, <1>2, <1>3, <1>4
<1>6. /\ x.text = SubSeq(s, at + 1, c + took) /\ x.count = c + took
      /\ x.left = (IF l <= BLOCK_SIZE THEN 0 ELSE l - BLOCK_SIZE)
      /\ x.lost = r.lost
  <2>1. r.left > 0 /\ r.count + Took(r) <= Len(expected[f]) /\ at \in 0..r.count
        /\ r.text = SubSeq(expected[f], at + 1, r.count)
    <3>1. at \in 0..c
      BY <1>1, <1>2
    <3> QED BY <1>2, <1>5, <3>1 DEF c, took, s
  <2>2. /\ x.text = SubSeq(expected[f], at + 1, r.count + Took(r)) /\ x.count = r.count + Took(r)
        /\ x.left = (IF At(r) + r.left <= BLOCK_SIZE THEN 0 ELSE r.left - BLOCK_SIZE - At(r))
        /\ x.lost = r.lost
    BY <2>1, RoundReads
  <2>3. 0 + l = l /\ l - BLOCK_SIZE - 0 = l - BLOCK_SIZE
    BY <1>2, <1>3
  <2> QED BY <1>4, <2>2, <2>3 DEF c, l, took, s
<1>7. (c + BLOCK_SIZE) % BLOCK_SIZE = 0
  <2>1. (c - (c % BLOCK_SIZE) + BLOCK_SIZE) % BLOCK_SIZE = 0
    BY <1>2, NextBlock
  <2>2. c - 0 + BLOCK_SIZE = c + BLOCK_SIZE
    BY <1>2, <1>3
  <2> QED BY <1>2, <2>1, <2>2
<1> DEFINE left == IF l <= BLOCK_SIZE THEN 0 ELSE l - BLOCK_SIZE
<1>8. /\ c + took \in at..Len(s) /\ c + took + left = total
      /\ left > 0 => took = BLOCK_SIZE /\ left <= n - (m + 1)
      /\ ~(left < 0)
  BY <1>1, <1>2, <1>3, <1>4, <1>5
<1>9. x.left = left
  BY <1>6
<1> HIDE DEF x, left
<1>10. ~(x.left < 0) /\ ~Fails(at, n)
  BY <1>2, <1>8, <1>9
<1>11. /\ ~x.lost /\ x.count \in at..Len(s) /\ x.text = SubSeq(s, at + 1, x.count)
       /\ x.count + x.left = total
       /\ x.left > 0 => x.count % BLOCK_SIZE = 0 /\ x.left <= n - (m + 1)
  BY <1>2, <1>6, <1>7, <1>8, <1>9
<1>12. Shown(s, at, n, m + 1, x)
  BY <1>10, <1>11 DEF Shown, total
<1> QED BY <1>12 DEF s, x

(* What do_read returns when it is asked for n characters of the text. *)
LEMMA Reads ==
  ASSUME ContentsTypeOK, fat1 \in FatType, NEW f \in Files, Settled(f),
         NEW at \in Nat, NEW len \in Int, NEW n \in Nat, n = wanted(f, at, len),
         at + n <= Len(expected[f])
  PROVE  LET r == do_read(f, at, len)
         IN  /\ r \in ReadType /\ ~r.lost
             /\ n = 0 => r.text = <<>> /\ r.count = at /\ r.left = 0
             /\ n > 0 => Shown(expected[f], at, n, WRITE_SIZE, r) /\ r.left <= 0
<1> DEFINE s == expected[f]
           start == [text |-> <<>>, count |-> at, left |-> n, lost |-> FALSE]
<1>0. WRITE_SIZE \in Nat /\ WRITE_SIZE > 0 /\ Len(s) \in Nat /\ Len(s) < WRITE_SIZE
  BY Sizes, OpenFields DEF Settled
<1>1. PICK w \in [0..WRITE_SIZE -> ReadType] :
        /\ w[0] = start /\ \A i \in 1..WRITE_SIZE : w[i] = Round(f, w[i - 1])
        /\ do_read(f, at, len) = w[WRITE_SIZE]
  BY DoReadWalk
<1>2. WRITE_SIZE \in 0..WRITE_SIZE /\ WRITE_SIZE \in 1..WRITE_SIZE
  BY <1>0
<1>3. do_read(f, at, len) \in ReadType
  BY <1>1, <1>2
<1>4. start.left = n /\ start.count = at /\ start.text = <<>> /\ start.lost = FALSE
  OBVIOUS
<1> HIDE DEF s, start
<1>5. CASE n = 0
  <2> DEFINE S == {i \in Nat : i <= WRITE_SIZE => w[i] = start}
  <2>1. 0 \in S
    BY <1>1
  <2>2. ASSUME NEW i \in Nat, i \in S PROVE i + 1 \in S
    <3> SUFFICES ASSUME i + 1 <= WRITE_SIZE PROVE w[i + 1] = start
      OBVIOUS
    <3>1. i + 1 \in 1..WRITE_SIZE /\ (i + 1) - 1 = i /\ w[i] = start
      BY <1>0, <2>2
    <3>2. w[i + 1] = Round(f, start)
      BY <1>1, <3>1
    <3>3. start.left <= 0
      BY <1>4, <1>5
    <3> QED BY <3>2, <3>3 DEF Round
  <2> HIDE DEF S
  <2>3. \A i \in Nat : i \in S
    BY <2>1, <2>2, Induction
  <2>4. do_read(f, at, len) = start
    BY <1>0, <1>1, <2>3 DEF S
  <2> QED BY <1>3, <1>4, <1>5, <2>4
<1>6. CASE n > 0
  <2> DEFINE P(i) == Shown(expected[f], at, n, i, w[i])
             S == {i \in Nat : i + 1 <= WRITE_SIZE => P(i + 1)}
  <2>1. 0 \in S
    <3>1. 1 \in 1..WRITE_SIZE /\ 1 - 1 = 0 /\ 0 + 1 = 1
      BY <1>0
    <3>2. w[1] = Round(f, start)
      BY <1>1, <3>1
    <3>3. w[1] = read_round(f, start)
      BY <1>4, <1>6, <3>2 DEF Round
    <3>4. start = [text |-> <<>>, count |-> at, left |-> n, lost |-> FALSE]
      BY DEF start
    <3>5. Shown(expected[f], at, n, 1, read_round(f, start))
      BY <1>6, <3>4, FirstShown
    <3> QED BY <3>1, <3>3, <3>5
  <2>2. ASSUME NEW i \in Nat, i \in S PROVE i + 1 \in S
    <3> HIDE DEF P
    <3> SUFFICES ASSUME (i + 1) + 1 <= WRITE_SIZE PROVE P((i + 1) + 1)
      OBVIOUS
    <3> USE DEF P
    <3>1. /\ (i + 1) + 1 \in 1..WRITE_SIZE /\ ((i + 1) + 1) - 1 = i + 1
          /\ i + 1 \in Nat /\ i + 1 \in 1..WRITE_SIZE
      BY <1>0
    <3>2. w[(i + 1) + 1] = Round(f, w[i + 1]) /\ w[i + 1] \in ReadType
      BY <1>1, <3>1
    <3>3. Shown(expected[f], at, n, i + 1, w[i + 1])
      BY <1>0, <2>2, <3>1
    <3>4. w[i + 1].left \in Int
      BY <3>2 DEF ReadType
    <3>5. CASE w[i + 1].left <= 0
      <4>1. w[(i + 1) + 1] = w[i + 1]
        BY <3>2, <3>5 DEF Round
      <4>2. Shown(expected[f], at, n, (i + 1) + 1, w[i + 1])
        BY <3>3, <3>4, <3>5 DEF Shown
      <4> QED BY <4>1, <4>2
    <3>6. CASE w[i + 1].left > 0
      <4>1. w[(i + 1) + 1] = read_round(f, w[i + 1])
        BY <3>2, <3>4, <3>6 DEF Round
      <4>2. Shown(expected[f], at, n, (i + 1) + 1, read_round(f, w[i + 1]))
        BY <1>6, <3>1, <3>2, <3>3, <3>6, NextShown
      <4> QED BY <4>1, <4>2
    <3> QED BY <3>4, <3>5, <3>6
  <2> HIDE DEF S, P
  <2>3. \A i \in Nat : i \in S
    BY <2>1, <2>2, Induction
  <2>4. P(WRITE_SIZE)
    <3>1. WRITE_SIZE - 1 \in Nat /\ (WRITE_SIZE - 1) + 1 = WRITE_SIZE
      BY <1>0
    <3> QED BY <1>0, <2>3, <3>1 DEF S
  <2>5. Shown(expected[f], at, n, WRITE_SIZE, do_read(f, at, len))
    BY <1>1, <2>4 DEF P
  <2>6. do_read(f, at, len).left <= 0
    <3>1. do_read(f, at, len).left \in Int
      BY <1>3 DEF ReadType
    <3>2. do_read(f, at, len).left > 0 => do_read(f, at, len).left <= n - WRITE_SIZE
      BY <2>5 DEF Shown
    <3>3. n < WRITE_SIZE
      BY <1>0 DEF s
    <3> QED BY <1>0, <3>1, <3>2, <3>3
  <2>7. ~do_read(f, at, len).lost
    BY <2>5 DEF Shown
  <2> QED BY <1>3, <1>6, <2>5, <2>6, <2>7
<1> QED BY <1>5, <1>6

(* The lesser of two numbers. *)
LEMMA MinOfTwo ==
  ASSUME NEW a \in Int, NEW b \in Int
  PROVE  Min({a, b}) = IF a <= b THEN a ELSE b
<1>1. \E x \in {a, b} : \A y \in {a, b} : x <= y
  OBVIOUS
<1>2. Min({a, b}) \in {a, b} /\ \A y \in {a, b} : Min({a, b}) <= y
  BY <1>1 DEF Min
<1> QED BY <1>2

(* read -a shows the text, and read -s what ReadsRight says of it. *)
LEMMA ReadAll ==
  ASSUME ContentsTypeOK, fat1 \in FatType, NEW f \in Files, Settled(f)
  PROVE  do_read(f, 0, open[f].length).text = expected[f]
<1> DEFINE s == expected[f]
           n == Len(s)
           r == do_read(f, 0, n)
<1>1. s \in Seq(Character) /\ n \in Nat /\ open[f].length = n
  BY OpenFields DEF Settled
<1>2. n = wanted(f, 0, n)
  BY <1>1 DEF wanted
<1>3. /\ r \in ReadType /\ ~r.lost
      /\ n = 0 => r.text = <<>> /\ r.count = 0 /\ r.left = 0
      /\ n > 0 => Shown(s, 0, n, WRITE_SIZE, r) /\ r.left <= 0
  BY <1>1, <1>2, Reads
<1>4. CASE n = 0
  BY <1>1, <1>3, <1>4
<1>5. CASE n > 0
  <2>1. 0 % BLOCK_SIZE = 0
    <3>1. 0 = 0 * BLOCK_SIZE + 0 /\ 0 \in 0..(BLOCK_SIZE - 1)
      BY Sizes
    <3> QED BY <3>1, DivModUnique
  <2>2. Shows(0, n) = n /\ ~Fails(0, n)
    BY <2>1 DEF Shows, Fails
  <2>3. /\ r.text = SubSeq(s, 0 + 1, r.count) /\ r.count + r.left = 0 + Shows(0, n)
        /\ ~(r.left < 0) /\ r.left <= 0 /\ r.left \in Int /\ r.count \in Nat
    BY <1>3, <1>5, <2>2 DEF Shown, ReadType
  <2>4. r.count = n
    BY <1>1, <2>2, <2>3
  <2>5. SubSeq(s, 1, Len(s)) = s
    BY <1>1, SubSeqFull
  <2>6. r.text = SubSeq(s, 1, Len(s))
    BY <2>3, <2>4
  <2>7. r.text = s
    BY <2>5, <2>6
  <2> QED BY <1>1, <2>7
<1> QED BY <1>1, <1>4, <1>5

(* What read -s shows, and when it fails. *)
LEMMA ReadSome ==
  ASSUME ContentsTypeOK, fat1 \in FatType, NEW f \in Files, Settled(f),
         NEW at \in 0..open[f].length, NEW len \in 1..WRITE_SIZE
  PROVE  LET r == do_read(f, at, len)
             n == Min({len, open[f].length - at})
         IN  /\ ~r.lost
             /\ Dies(r) <=> Fails(at, n)
             /\ ~Dies(r) => r.text = SubSeq(expected[f], at + 1, at + Shows(at, n))
<1> DEFINE s == expected[f]
           n == Min({len, open[f].length - at})
           r == do_read(f, at, len)
           o == at % BLOCK_SIZE
<1>1. /\ s \in Seq(Character) /\ Len(s) \in Nat /\ open[f].length = Len(s)
      /\ at \in Nat /\ at <= Len(s) /\ len \in Int /\ len >= 1
  BY OpenFields, Sizes DEF Settled
<1>2. n = (IF len <= Len(s) - at THEN len ELSE Len(s) - at)
  <2>1. Len(s) - at \in Int
    BY <1>1
  <2> QED BY <1>1, <2>1, MinOfTwo
<1> HIDE DEF n, s, r
<1>3. n \in Nat /\ n = wanted(f, at, len) /\ at + n <= Len(s)
  BY <1>1, <1>2 DEF wanted
<1>4. /\ r \in ReadType /\ ~r.lost
      /\ n = 0 => r.text = <<>> /\ r.count = at /\ r.left = 0
      /\ n > 0 => Shown(s, at, n, WRITE_SIZE, r) /\ r.left <= 0
  BY <1>1, <1>3, Reads DEF r, s
<1>5. o \in Nat /\ o < BLOCK_SIZE /\ BLOCK_SIZE \in Nat
  BY <1>1, DivMod, Sizes
<1>6. ~r.lost /\ (Dies(r) <=> Fails(at, n))
      /\ (~Dies(r) => r.text = SubSeq(s, at + 1, at + Shows(at, n)))
  <2>1. CASE n = 0
    <3>1. ~Fails(at, n) /\ Shows(at, n) = 0
      <4> HIDE DEF o
      <4>1. o + n <= BLOCK_SIZE /\ ~(o + n > BLOCK_SIZE)
        BY <1>5, <2>1
      <4> QED BY <2>1, <4>1 DEF Fails, Shows, o
    <3>2. SubSeq(s, at + 1, at + 0) = <<>>
      <4>1. at + 1 \in Int /\ at + 0 \in Int /\ at + 0 < at + 1
        BY <1>1
      <4> QED BY <4>1, SubSeqEmpty
    <3>3. r.text = <<>> /\ r.left = 0
      BY <1>4, <2>1
    <3>4. ~Dies(r)
      BY <3>3 DEF Dies
    <3>5. r.text = SubSeq(s, at + 1, at + Shows(at, n))
      BY <3>1, <3>2, <3>3
    <3>6. ~r.lost
      BY <1>4
    <3> QED BY <3>1, <3>4, <3>5, <3>6
  <2>2. CASE n > 0
    <3>1. /\ ~r.lost /\ r.count \in at..Len(s) /\ r.text = SubSeq(s, at + 1, r.count)
          /\ r.count + r.left = at + Shows(at, n)
          /\ r.left < 0 <=> Fails(at, n)
          /\ r.left <= 0 /\ r.left \in Int /\ r.count \in Nat
      BY <1>4, <2>2 DEF Shown, ReadType
    <3>2. ~Dies(r) => r.count = at + Shows(at, n)
      BY <3>1 DEF Dies
    <3>3. Dies(r) <=> Fails(at, n)
      BY <3>1 DEF Dies
    <3>4. ~Dies(r) => r.text = SubSeq(s, at + 1, at + Shows(at, n))
      BY <3>1, <3>2
    <3>5. ~r.lost
      BY <1>4
    <3> QED BY <3>3, <3>4, <3>5
  <2> QED BY <1>3, <2>1, <2>2
<1> QED BY <1>6 DEF r, n, s

(* Where every file is settled, reads are as ReadsRight says. *)
LEMMA ReadsRightHere ==
  ASSUME ContentsTypeOK, fat1 \in FatType, \A f \in Made : Settled(f)
  PROVE  ReadsRight
<1>1. ASSUME NEW f \in Made
      PROVE  do_read(f, 0, open[f].length).text = expected[f]
  BY <1>1, ReadAll DEF Made
<1>2. ASSUME NEW f \in Made, NEW at \in 0..open[f].length, NEW len \in 1..WRITE_SIZE
      PROVE  LET r   == do_read(f, at, len)
                 n   == Min({len, open[f].length - at})
                 off == at % BLOCK_SIZE
             IN  /\ ~r.lost
                 /\ off = 0 \/ off + n <= BLOCK_SIZE =>
                      ~Dies(r) /\ r.text = Asked(f, at, len)
                 /\ ~Dies(r) => \E m \in 0..n : r.text = SubSeq(expected[f], at + 1, at + m)
  <2> DEFINE n   == Min({len, open[f].length - at})
             off == at % BLOCK_SIZE
             r   == do_read(f, at, len)
             s   == expected[f]
  <2>1. f \in Files /\ Settled(f)
    BY <1>2 DEF Made
  <2>2. /\ ~r.lost
        /\ Dies(r) <=> Fails(at, n)
        /\ ~Dies(r) => r.text = SubSeq(s, at + 1, at + Shows(at, n))
    BY <1>2, <2>1, ReadSome
  <2>3. Asked(f, at, len) = SubSeq(s, at + 1, at + n)
    BY DEF Asked
  <2>4. at \in Nat /\ len \in Int /\ len >= 1 /\ open[f].length \in Nat /\ open[f].length - at \in Nat
    BY <1>2, <2>1, OpenFields, Sizes
  <2>5. n = (IF len <= open[f].length - at THEN len ELSE open[f].length - at)
    BY <2>4, MinOfTwo
  <2>6. off \in Nat /\ off < BLOCK_SIZE /\ BLOCK_SIZE \in Nat
    BY <2>4, DivMod, Sizes
  <2> HIDE DEF n, r, s, off
  <2>7. n \in Nat
    BY <2>4, <2>5
  <2>8. off = 0 \/ off + n <= BLOCK_SIZE => ~Fails(at, n) /\ Shows(at, n) = n
    BY <2>6, <2>7 DEF Fails, Shows, off
  <2>9. ~Fails(at, n) => Shows(at, n) \in 0..n
    <3>1. CASE off = 0 \/ off + n <= BLOCK_SIZE
      BY <2>7, <2>8, <3>1
    <3>2. CASE ~(off = 0 \/ off + n <= BLOCK_SIZE)
      <4>1. Shows(at, n) = n - 2 * off /\ (Fails(at, n) <=> n < BLOCK_SIZE + off)
        BY <2>6, <2>7, <3>2 DEF Fails, Shows, off
      <4> QED BY <2>6, <2>7, <4>1
    <3> QED BY <3>1, <3>2
  <2>10. ~Dies(r) => \E m \in 0..n : r.text = SubSeq(s, at + 1, at + m)
    BY <2>2, <2>9
  <2>11. off = 0 \/ off + n <= BLOCK_SIZE => ~Dies(r) /\ r.text = Asked(f, at, len)
    BY <2>2, <2>3, <2>8
  <2> QED BY <2>2, <2>10, <2>11 DEF n, r, s, off
<1> QED BY <1>1, <1>2 DEF ReadsRight

(* Settled files are stored. *)
LEMMA StoredTextHere ==
  ASSUME ContentsTypeOK, \A f \in Made : Settled(f)
  PROVE  StoredText
<1> SUFFICES ASSUME NEW f \in Made
             PROVE  /\ open[f].length = Len(expected[f])
                    /\ SubSeq(Stored(f), 1, open[f].length) = expected[f]
  BY DEF StoredText
<1> DEFINE s == expected[f]
           N == BlocksOf(s)
           h == open[f].first
           e == [n \in 1..N |-> bytes[physics_block(h, n - 1)]]
<1>1. f \in Files /\ open[f].length = Len(s) /\ Holds(h, N, s)
  BY DEF Made, Settled
<1>2. s \in Seq(Character) /\ Len(s) \in Nat
  BY <1>1, OpenFields
<1>3. N \in Nat /\ N > 0 /\ Len(s) <= N * BLOCK_SIZE
  <2> DEFINE q == Len(s) \div BLOCK_SIZE
             o == Len(s) % BLOCK_SIZE
  <2>1. q \in Nat /\ o \in 0..(BLOCK_SIZE - 1) /\ Len(s) = q * BLOCK_SIZE + o
    BY <1>2, DivMod
  <2>2. N = q + 1
    BY DEF BlocksOf
  <2> HIDE DEF q, o, N
  <2> QED BY <1>2, <2>1, <2>2, Sizes
<1>4. \A k \in 0..(N - 1) :
        /\ physics_block(h, k) \in Block
        /\ \A i \in 1..BLOCK_SIZE :
             k * BLOCK_SIZE + i <= Len(s) => bytes[physics_block(h, k)][i] = s[k * BLOCK_SIZE + i]
  BY <1>1 DEF Holds
<1>5. Stored(f) = FlattenSeq(e)
  <2>1. e = [n \in 1..(open[f].length \div BLOCK_SIZE + 1) |-> bytes[physics_block(open[f].first, n - 1)]]
    BY <1>1 DEF BlocksOf
  <2> HIDE DEF e
  <2> QED BY <2>1 DEF Stored
<1> HIDE DEF N, s, h
<1>6. \A n \in 1..N : n - 1 \in 0..(N - 1)
  BY <1>3
<1>7. e \in [1..N -> [1..BLOCK_SIZE -> Character]]
  <2>1. \A b \in Block : bytes[b] \in [1..BLOCK_SIZE -> Character]
    BY DEF ContentsTypeOK
  <2>2. \A n \in 1..N : bytes[physics_block(h, n - 1)] \in [1..BLOCK_SIZE -> Character]
    BY <1>4, <1>6, <2>1
  <2> QED BY <2>2
<1>8. \A k \in 0..(N - 1) : e[k + 1] = bytes[physics_block(h, k)]
  <2>1. \A k \in 0..(N - 1) : k + 1 \in 1..N /\ (k + 1) - 1 = k
    BY <1>3
  <2> QED BY <2>1
<1> HIDE DEF e
<1>9. \A k \in 0..(N - 1) : \A i \in 1..BLOCK_SIZE :
        k * BLOCK_SIZE + i <= Len(s) => e[k + 1][i] = s[k * BLOCK_SIZE + i]
  BY <1>4, <1>8
<1>10. SubSeq(FlattenSeq(e), 1, Len(s)) = s
  BY <1>2, <1>3, <1>7, <1>9, FlattenHolds
<1> QED BY <1>1, <1>5, <1>10 DEF s
-----------------------------------------------------------------------------
(* do_write's buffer *)

(* A buffer holds a text and its terminator. *)
IsText(t, x) ==
  /\ t \in [1..WRITE_SIZE -> Character] /\ x \in Seq(Character) /\ Len(x) < WRITE_SIZE
  /\ \A i \in 1..Len(x) : x[i] # NUL /\ t[i] = x[i]
  /\ t[Len(x) + 1] = NUL

(* strlen of a buffer that holds a text and its terminator. *)
LEMMA Strlen ==
  ASSUME NEW t, NEW x, IsText(t, x)
  PROVE  strlen(t) = Len(x)
<1> DEFINE ends == {i \in DOMAIN t : t[i] = NUL}
           n == Len(x) + 1
<1>1. t \in [1..WRITE_SIZE -> Character] /\ DOMAIN t = 1..WRITE_SIZE
      /\ WRITE_SIZE \in Nat /\ Len(x) \in Nat
  BY Sizes DEF IsText
<1>2. n \in ends
  BY <1>1 DEF IsText
<1>3. \A y \in ends : n <= y
  <2> SUFFICES ASSUME NEW y \in ends, ~(n <= y) PROVE FALSE
    OBVIOUS
  <2>1. y \in 1..WRITE_SIZE /\ t[y] = NUL
    BY <1>1
  <2>2. y \in 1..Len(x)
    BY <1>1, <2>1
  <2> QED BY <2>1, <2>2 DEF IsText
<1>4. \A y \in ends : y \in Int
  BY <1>1
<1>5. n \in Int
  BY <1>1
<1> HIDE DEF ends, n
<1>6. Min(ends) = n
  <2>1. Min(ends) \in ends /\ \A y \in ends : Min(ends) <= y
    BY <1>2, <1>3 DEF Min
  <2>2. Min(ends) <= n /\ n <= Min(ends) /\ Min(ends) \in Int
    BY <1>2, <1>3, <1>4, <2>1
  <2> QED BY <1>5, <2>2
<1>7. strlen(t) = IF ends = {} THEN Len(t) ELSE Min(ends) - 1
  BY DEF strlen, ends
<1> QED BY <1>1, <1>2, <1>6, <1>7 DEF n

(* The text before the terminator. *)
LEMMA UpToTerminator ==
  ASSUME NEW t, NEW x, IsText(t, x)
  PROVE  SubSeq(t, 1, strlen(t)) = x
<1> DEFINE n == Len(x)
<1>1. x \in Seq(Character) /\ n \in Nat /\ 0 \in Nat /\ \A i \in 1..n : t[0 + i] = x[i] /\ x[i] \in Character
  BY DEF IsText
<1>2. \A i \in 1..n : t[0 + i] \in Character
  BY <1>1
<1> HIDE DEF n
<1>3. /\ SubSeq(t, 0 + 1, 0 + n) \in Seq(Character) /\ Len(SubSeq(t, 0 + 1, 0 + n)) = n
      /\ \A i \in 1..n : SubSeq(t, 0 + 1, 0 + n)[i] = t[0 + i]
  BY <1>1, <1>2, Piece
<1>4. 0 + 1 = 1 /\ 0 + n = n
  BY <1>1
<1>5. SubSeq(t, 1, n) \in Seq(Character) /\ Len(SubSeq(t, 1, n)) = n
      /\ \A i \in 1..n : SubSeq(t, 1, n)[i] = x[i]
  BY <1>1, <1>3, <1>4
<1>6. SubSeq(t, 1, n) = x
  BY <1>1, <1>5, SeqEqual DEF n
<1> QED BY <1>6, Strlen DEF n

(* What memcpy into a buffer leaves. *)
LEMMA Overlaid ==
  ASSUME NEW t \in [1..WRITE_SIZE -> Character], NEW at \in Nat, NEW x \in Seq(Character)
  PROVE  /\ overlay(t, at, x) \in [1..WRITE_SIZE -> Character]
         /\ \A i \in 1..WRITE_SIZE :
              overlay(t, at, x)[i] = IF i - at \in 1..Len(x) THEN x[i - at] ELSE t[i]
<1>1. overlay(t, at, x) = [i \in 1..WRITE_SIZE |-> IF i - at \in 1..Len(x) THEN x[i - at] ELSE t[i]]
  BY DEF overlay
<1>2. \A i \in 1..WRITE_SIZE : (IF i - at \in 1..Len(x) THEN x[i - at] ELSE t[i]) \in Character
  OBVIOUS
<1> QED BY <1>1, <1>2

(* The empty buffer. *)
LEMMA NoTextIs ==
  /\ NoText \in [1..WRITE_SIZE -> Character]
  /\ \A i \in 1..WRITE_SIZE : NoText[i] = NUL
BY NulType DEF NoText, zeros

(* A text laid over a buffer of zeros. *)
LEMMA TextAlone ==
  ASSUME NEW x \in Seq(Character), Len(x) < WRITE_SIZE, \A i \in 1..Len(x) : x[i] # NUL
  PROVE  /\ IsText(overlay(NoText, 0, x), x)
         /\ \A i \in 1..WRITE_SIZE : i > Len(x) => overlay(NoText, 0, x)[i] = NUL
<1> DEFINE t == overlay(NoText, 0, x)
<1>1. /\ t \in [1..WRITE_SIZE -> Character]
      /\ \A i \in 1..WRITE_SIZE : t[i] = IF i - 0 \in 1..Len(x) THEN x[i - 0] ELSE NoText[i]
  <2>1. NoText \in [1..WRITE_SIZE -> Character] /\ 0 \in Nat
    BY NoTextIs
  <2> QED BY <2>1, Overlaid
<1>2. WRITE_SIZE \in Nat /\ Len(x) \in Nat
  BY Sizes
<1> HIDE DEF t
<1>3. \A i \in 1..Len(x) : t[i] = x[i]
  <2> TAKE i \in 1..Len(x)
  <2>1. i \in 1..WRITE_SIZE /\ i - 0 = i
    BY <1>2
  <2> QED BY <1>1, <2>1
<1>4. \A i \in 1..WRITE_SIZE : i > Len(x) => t[i] = NUL
  <2> SUFFICES ASSUME NEW i \in 1..WRITE_SIZE, i > Len(x) PROVE t[i] = NUL
    OBVIOUS
  <2>1. i - 0 \notin 1..Len(x)
    BY <1>2
  <2> QED BY <1>1, <2>1, NoTextIs
<1>5. Len(x) + 1 \in 1..WRITE_SIZE /\ Len(x) + 1 > Len(x)
  BY <1>2
<1> QED BY <1>1, <1>3, <1>4, <1>5 DEF IsText, t

(* A line the user types, without its newline, and with a terminator. *)
LEMMA InputIs ==
  ASSUME NEW input \in Inputs
  PROVE  /\ input \in Seq(Character) /\ Len(input) \in Nat /\ Len(input) > 0
         /\ \A i \in 1..Len(input) : input[i] # NUL
         /\ Front(input) \in Seq(Character) /\ Len(Front(input)) = Len(input) - 1
         /\ \A i \in 1..(Len(input) - 1) : Front(input)[i] = input[i]
         /\ Append(input, NUL) \in Seq(Character) /\ Len(Append(input, NUL)) = Len(input) + 1
         /\ \A i \in 1..Len(input) : Append(input, NUL)[i] = input[i]
         /\ Append(input, NUL)[Len(input) + 1] = NUL
<1>1. /\ input \in Seq(Character) /\ input # <<>>
      /\ \A i \in 1..Len(input) : input[i] # NUL
  BY InputsAssumption
<1>2. Len(input) \in Nat /\ Len(input) > 0
  BY <1>1, EmptySeq
<1>3. /\ Front(input) \in Seq(Character) /\ Len(Front(input)) = Len(input) - 1
      /\ \A i \in 1..(Len(input) - 1) : Front(input)[i] = input[i]
  <2> DEFINE m == Len(input) - 1
  <2>1. m \in Nat /\ 0 + 1 = 1 /\ 0 + m = m
    BY <1>2
  <2>2. \A i \in 1..m : 0 + i = i /\ i \in 1..Len(input)
    BY <1>2
  <2>3. \A i \in 1..m : input[0 + i] \in Character
    BY <1>1, <2>2
  <2>4. Front(input) = SubSeq(input, 0 + 1, 0 + m)
    BY <2>1 DEF Front
  <2> HIDE DEF m
  <2>5. /\ SubSeq(input, 0 + 1, 0 + m) \in Seq(Character) /\ Len(SubSeq(input, 0 + 1, 0 + m)) = m
        /\ \A i \in 1..m : SubSeq(input, 0 + 1, 0 + m)[i] = input[0 + i]
    BY <2>1, <2>3, Piece
  <2>6. /\ Front(input) \in Seq(Character) /\ Len(Front(input)) = m
        /\ \A i \in 1..m : Front(input)[i] = input[i]
    BY <2>2, <2>4, <2>5
  <2> QED BY <2>6 DEF m
<1>4. /\ Append(input, NUL) \in Seq(Character) /\ Len(Append(input, NUL)) = Len(input) + 1
      /\ \A i \in 1..Len(input) : Append(input, NUL)[i] = input[i]
      /\ Append(input, NUL)[Len(input) + 1] = NUL
  BY <1>1, NulType, AppendProperties
<1> QED BY <1>1, <1>2, <1>3, <1>4

(* What is typed beyond the end of the text does not reach it. *)
LEMMA TextBeyond ==
  ASSUME NEW s, NEW old, IsText(old, s), NEW p \in Seq(Character), NEW count \in Nat, count > Len(s)
  PROVE  IsText(overlay(old, count, p), s)
<1> DEFINE t == overlay(old, count, p)
<1>1. /\ t \in [1..WRITE_SIZE -> Character]
      /\ \A i \in 1..WRITE_SIZE : t[i] = IF i - count \in 1..Len(p) THEN p[i - count] ELSE old[i]
  BY Overlaid DEF IsText
<1>2. WRITE_SIZE \in Nat /\ Len(s) \in Nat /\ Len(s) < WRITE_SIZE /\ Len(p) \in Nat
  BY Sizes DEF IsText
<1> HIDE DEF t
<1>3. \A i \in 1..(Len(s) + 1) : t[i] = old[i]
  <2> TAKE i \in 1..(Len(s) + 1)
  <2>1. i \in 1..WRITE_SIZE /\ i - count \notin 1..Len(p)
    BY <1>2
  <2> QED BY <1>1, <2>1
<1>4. Len(s) + 1 \in 1..(Len(s) + 1) /\ \A i \in 1..Len(s) : i \in 1..(Len(s) + 1)
  BY <1>2
<1> QED BY <1>1, <1>3, <1>4 DEF IsText, t

(* What is typed within it, `c', leaves what it does not cover. *)
LEMMA TextCovered ==
  ASSUME NEW s \in Seq(Character), NEW old, IsText(old, s),
         \A i \in 1..WRITE_SIZE : i > Len(s) => old[i] = NUL,
         NEW p \in Seq(Character), \A i \in 1..Len(p) : p[i] # NUL,
         NEW count \in Nat, count <= Len(s), count + Len(p) < WRITE_SIZE,
         NEW x \in Seq(Character),
         Len(x) = IF count + Len(p) < Len(s) THEN Len(s) ELSE count + Len(p),
         \A i \in 1..Len(x) :
           x[i] = IF i <= count \/ i > count + Len(p) THEN s[i] ELSE p[i - count]
  PROVE  IsText(overlay(old, count, p), x)
<1> DEFINE t == overlay(old, count, p)
<1>1. /\ t \in [1..WRITE_SIZE -> Character]
      /\ \A i \in 1..WRITE_SIZE : t[i] = IF i - count \in 1..Len(p) THEN p[i - count] ELSE old[i]
  BY Overlaid DEF IsText
<1>2. WRITE_SIZE \in Nat /\ Len(s) \in Nat /\ Len(s) < WRITE_SIZE /\ Len(p) \in Nat
  BY Sizes DEF IsText
<1> HIDE DEF t
<1>3. Len(x) \in Nat /\ Len(x) < WRITE_SIZE /\ Len(x) + 1 \in 1..WRITE_SIZE
  BY <1>2
<1>4. \A i \in 1..Len(x) : x[i] # NUL /\ t[i] = x[i]
  <2> TAKE i \in 1..Len(x)
  <2>1. i \in 1..WRITE_SIZE
    BY <1>2, <1>3
  <2>2. CASE i <= count \/ i > count + Len(p)
    <3>1. i \in 1..Len(s) /\ i - count \notin 1..Len(p)
      BY <1>2, <2>2
    <3> QED BY <1>1, <2>1, <2>2, <3>1 DEF IsText
  <2>3. CASE ~(i <= count \/ i > count + Len(p))
    <3>1. i - count \in 1..Len(p)
      BY <1>2, <2>3
    <3> QED BY <1>1, <2>1, <2>3, <3>1
  <2> QED BY <2>2, <2>3
<1>5. t[Len(x) + 1] = NUL
  <2>1. (Len(x) + 1) - count \notin 1..Len(p) /\ Len(x) + 1 > Len(s)
    BY <1>2
  <2> QED BY <1>1, <1>3, <2>1
<1> QED BY <1>1, <1>3, <1>4, <1>5 DEF IsText, t

(* `a' brings a terminator along. *)
LEMMA TextAppended ==
  ASSUME NEW s \in Seq(Character), NEW old, IsText(old, s),
         NEW q \in Seq(Character), \A i \in 1..Len(q) : q[i] # NUL,
         NEW count \in Nat, count <= Len(s), count + Len(q) < WRITE_SIZE,
         NEW x \in Seq(Character), Len(x) = count + Len(q),
         \A i \in 1..Len(x) : x[i] = IF i <= count THEN s[i] ELSE q[i - count]
  PROVE  IsText(overlay(old, count, Append(q, NUL)), x)
<1> DEFINE p == Append(q, NUL)
           m == Len(q)
           t == overlay(old, count, p)
<1>0. /\ p \in Seq(Character) /\ m \in Nat /\ Len(p) = m + 1
      /\ \A i \in 1..m : p[i] = q[i] /\ p[i] # NUL
      /\ p[m + 1] = NUL
  BY NulType, AppendProperties
<1> HIDE DEF p
<1>1. /\ t \in [1..WRITE_SIZE -> Character]
      /\ \A i \in 1..WRITE_SIZE : t[i] = IF i - count \in 1..Len(p) THEN p[i - count] ELSE old[i]
  BY <1>0, Overlaid DEF IsText
<1>2. WRITE_SIZE \in Nat /\ Len(s) \in Nat /\ Len(s) < WRITE_SIZE
  BY Sizes DEF IsText
<1> HIDE DEF t, m
<1>3. Len(x) \in Nat /\ Len(x) < WRITE_SIZE /\ Len(x) + 1 \in 1..WRITE_SIZE
  BY <1>0, <1>2 DEF m
<1>4. \A i \in 1..Len(x) : x[i] # NUL /\ t[i] = x[i]
  <2> TAKE i \in 1..Len(x)
  <2>1. i \in 1..WRITE_SIZE
    BY <1>0, <1>2, <1>3
  <2>2. CASE i <= count
    <3>1. i \in 1..Len(s) /\ i - count \notin 1..Len(p)
      BY <1>2, <2>2
    <3> QED BY <1>1, <2>1, <2>2, <3>1 DEF IsText
  <2>3. CASE ~(i <= count)
    <3>1. i - count \in 1..m /\ i - count \in 1..Len(p)
      BY <1>0, <1>2, <2>3 DEF m
    <3> QED BY <1>0, <1>1, <2>1, <2>3, <3>1
  <2> QED BY <2>2, <2>3
<1>5. t[Len(x) + 1] = NUL
  <2>1. (Len(x) + 1) - count = m + 1 /\ m + 1 \in 1..Len(p)
    BY <1>0, <1>2 DEF m
  <2> QED BY <1>0, <1>1, <1>3, <2>1
<1> QED BY <1>1, <1>3, <1>4, <1>5 DEF IsText, t, p

(* The first characters of a text. *)
LEMMA Beginning ==
  ASSUME NEW s \in Seq(Character), NEW count \in Nat, count <= Len(s)
  PROVE  /\ SubSeq(s, 1, count) \in Seq(Character) /\ Len(SubSeq(s, 1, count)) = count
         /\ \A i \in 1..count : SubSeq(s, 1, count)[i] = s[i]
<1>1. 0 + 1 = 1 /\ 0 + count = count /\ 0 \in Nat
      /\ \A i \in 1..count : 0 + i = i /\ i \in 1..Len(s)
  OBVIOUS
<1>2. \A i \in 1..count : s[0 + i] \in Character
  BY <1>1
<1>3. /\ SubSeq(s, 0 + 1, 0 + count) \in Seq(Character) /\ Len(SubSeq(s, 0 + 1, 0 + count)) = count
      /\ \A i \in 1..count : SubSeq(s, 0 + 1, 0 + count)[i] = s[0 + i]
  BY <1>1, <1>2, Piece
<1> QED BY <1>1, <1>3

(* The rest of a text from its k-th element on; nothing when there is none. *)
LEMMA Ending ==
  ASSUME NEW s \in Seq(Character), NEW k \in Nat
  PROVE  /\ SubSeq(s, k + 1, Len(s)) \in Seq(Character)
         /\ Len(SubSeq(s, k + 1, Len(s))) = IF k < Len(s) THEN Len(s) - k ELSE 0
         /\ \A i \in 1..(Len(s) - k) : SubSeq(s, k + 1, Len(s))[i] = s[k + i]
<1>0. Len(s) \in Nat
  OBVIOUS
<1>1. CASE k < Len(s)
  <2> DEFINE m == Len(s) - k
  <2>1. m \in Nat /\ k + m = Len(s) /\ \A i \in 1..m : k + i \in 1..Len(s)
    BY <1>0, <1>1
  <2>2. \A i \in 1..m : s[k + i] \in Character
    BY <2>1
  <2> HIDE DEF m
  <2>3. /\ SubSeq(s, k + 1, k + m) \in Seq(Character) /\ Len(SubSeq(s, k + 1, k + m)) = m
        /\ \A i \in 1..m : SubSeq(s, k + 1, k + m)[i] = s[k + i]
    BY <2>1, <2>2, Piece
  <2> QED BY <1>1, <2>1, <2>3 DEF m
<1>2. CASE ~(k < Len(s))
  <2>1. k + 1 \in Int /\ Len(s) \in Int /\ Len(s) < k + 1 /\ 1..(Len(s) - k) = {}
    BY <1>0, <1>2
  <2>2. SubSeq(s, k + 1, Len(s)) = <<>>
    BY <2>1, SubSeqEmpty
  <2> QED BY <1>2, <2>1, <2>2, EmptySeq
<1> QED BY <1>1, <1>2

(* The text that is in do_write's buffer: a line that is appended is put   *)
(* at the position and ends the text; beyond the end nothing is added, for *)
(* strlen does not cross the gap.                                          *)
Composes(mode, old, count, input) ==
  IF mode = "w" THEN input
  ELSE IF count > Len(old) THEN old
  ELSE IF mode = "a" THEN SubSeq(old, 1, count) \o input
  ELSE SubSeq(old, 1, count) \o Front(input) \o SubSeq(old, count + Len(input), Len(old))

(* It stands there from the beginning of the buffer to its terminator. *)
LEMMA ComposedText ==
  ASSUME NEW s \in Seq(Character), NEW old, IsText(old, s),
         \A i \in 1..WRITE_SIZE : i > Len(s) => old[i] = NUL,
         NEW input \in Inputs, NEW count \in Nat, NEW mode \in {"w", "a", "c"},
         (IF mode = "w" THEN 0 ELSE count) + Len(input) < WRITE_SIZE
  PROVE  IsText(composed(mode, old, count, input), Composes(mode, s, count, input))
<1> DEFINE m == Len(input)
           front == Front(input)
           line == Append(input, NUL)
           start == SubSeq(s, 1, count)
<1>1. /\ input \in Seq(Character) /\ m \in Nat /\ m > 0
      /\ \A i \in 1..m : input[i] # NUL
      /\ front \in Seq(Character) /\ Len(front) = m - 1
      /\ \A i \in 1..(m - 1) : front[i] = input[i]
      /\ line \in Seq(Character) /\ Len(line) = m + 1
      /\ \A i \in 1..m : line[i] = input[i]
      /\ line[m + 1] = NUL
  BY InputIs
<1>2. Len(s) \in Nat /\ WRITE_SIZE \in Nat
  BY Sizes
<1> HIDE DEF m, front, line
<1>3. CASE mode = "w"
  <2>1. composed(mode, old, count, input) = overlay(NoText, 0, input)
        /\ Composes(mode, s, count, input) = input
    BY <1>3 DEF composed, Composes
  <2>2. Len(input) < WRITE_SIZE /\ \A i \in 1..Len(input) : input[i] # NUL
    BY <1>1, <1>2, <1>3 DEF m
  <2> QED BY <1>1, <2>1, <2>2, TextAlone
<1>4. CASE mode = "a"
  <2>1. composed(mode, old, count, input) = overlay(old, count, line)
    BY <1>4 DEF composed, line
  <2>2. CASE count > Len(s)
    <3>1. Composes(mode, s, count, input) = s
      BY <1>4, <2>2 DEF Composes
    <3> QED BY <1>1, <2>1, <2>2, <3>1, TextBeyond
  <2>3. CASE count <= Len(s)
    <3> DEFINE x == start \o input
    <3>1. Composes(mode, s, count, input) = x
      BY <1>2, <1>4, <2>3 DEF Composes
    <3>2. /\ start \in Seq(Character) /\ Len(start) = count
          /\ \A i \in 1..count : start[i] = s[i]
      BY <2>3, Beginning
    <3> HIDE DEF start
    <3>3. /\ x \in Seq(Character) /\ Len(x) = count + m
          /\ \A i \in 1..(count + m) : x[i] = IF i <= count THEN start[i] ELSE input[i - count]
      <4>1. start \in Seq(Character) /\ input \in Seq(Character)
        BY <1>1, <3>2
      <4>2. /\ start \o input \in Seq(Character) /\ Len(start \o input) = Len(start) + Len(input)
            /\ \A i \in 1..(Len(start) + Len(input)) :
                 (start \o input)[i] = IF i <= Len(start) THEN start[i] ELSE input[i - Len(start)]
        BY <4>1, ConcatProperties
      <4>3. Len(start) = count /\ Len(input) = m
        BY <3>2 DEF m
      <4> QED BY <4>2, <4>3
    <3> HIDE DEF x
    <3>4. \A i \in 1..Len(x) : x[i] = IF i <= count THEN s[i] ELSE input[i - count]
      <4> TAKE i \in 1..Len(x)
      <4>1. i \in 1..(count + m)
        BY <3>3
      <4>2. CASE i <= count
        <5>1. i \in 1..count
          BY <1>1, <4>1, <4>2
        <5> QED BY <3>2, <3>3, <4>1, <4>2, <5>1
      <4>3. CASE ~(i <= count)
        <5>1. i - count \in 1..m
          BY <1>1, <4>1, <4>3
        <5> QED BY <1>1, <3>3, <4>1, <4>3, <5>1
      <4> QED BY <4>2, <4>3
    <3>5. count + Len(input) < WRITE_SIZE /\ \A i \in 1..Len(input) : input[i] # NUL
      BY <1>1, <1>4 DEF m
    <3>6. input \in Seq(Character) /\ x \in Seq(Character) /\ Len(x) = count + Len(input)
      BY <1>1, <3>3 DEF m
    <3>7. IsText(overlay(old, count, Append(input, NUL)), x)
      BY <2>3, <3>4, <3>5, <3>6, TextAppended
    <3> QED BY <2>1, <3>1, <3>7 DEF line
  <2> QED BY <1>2, <2>2, <2>3
<1>5. CASE mode = "c"
  <2>1. composed(mode, old, count, input) = overlay(old, count, front)
    BY <1>5 DEF composed, front
  <2>2. CASE count > Len(s)
    <3>1. Composes(mode, s, count, input) = s
      BY <1>5, <2>2 DEF Composes
    <3> QED BY <1>1, <2>1, <2>2, <3>1, TextBeyond
  <2>3. CASE count <= Len(s)
    <3> DEFINE k == count + Len(front)
               rest == SubSeq(s, k + 1, Len(s))
               y == start \o front
               x == y \o rest
    <3>1. Composes(mode, s, count, input) = x
      <4>1. k + 1 = count + Len(input)
        BY <1>1 DEF m
      <4>2. ~(count > Len(s))
        BY <1>2, <2>3
      <4> QED BY <1>5, <4>1, <4>2 DEF Composes, front
    <3>2. /\ start \in Seq(Character) /\ Len(start) = count
          /\ \A i \in 1..count : start[i] = s[i]
      BY <2>3, Beginning
    <3>3. k \in Nat /\ k = count + Len(front) /\ k < WRITE_SIZE
      BY <1>1, <1>2, <1>5 DEF m
    <3> HIDE DEF start, k
    <3>4. /\ rest \in Seq(Character) /\ Len(rest) = IF k < Len(s) THEN Len(s) - k ELSE 0
          /\ \A i \in 1..(Len(s) - k) : rest[i] = s[k + i]
      BY <3>3, Ending
    <3>5. /\ y \in Seq(Character) /\ Len(y) = k
          /\ \A i \in 1..k : y[i] = IF i <= count THEN start[i] ELSE front[i - count]
      <4>1. start \in Seq(Character) /\ front \in Seq(Character)
        BY <1>1, <3>2
      <4>2. /\ y \in Seq(Character) /\ Len(y) = Len(start) + Len(front)
            /\ \A i \in 1..(Len(start) + Len(front)) :
                 y[i] = IF i <= Len(start) THEN start[i] ELSE front[i - Len(start)]
        BY <4>1, ConcatProperties
      <4>3. Len(start) = count /\ count + Len(front) = k
        BY <3>2, <3>3
      <4> QED BY <4>2, <4>3
    <3> HIDE DEF y, rest
    <3>6. /\ x \in Seq(Character) /\ Len(x) = k + Len(rest)
          /\ \A i \in 1..(k + Len(rest)) : x[i] = IF i <= k THEN y[i] ELSE rest[i - k]
      <4>1. /\ x \in Seq(Character) /\ Len(x) = Len(y) + Len(rest)
            /\ \A i \in 1..(Len(y) + Len(rest)) :
                 x[i] = IF i <= Len(y) THEN y[i] ELSE rest[i - Len(y)]
        BY <3>4, <3>5, ConcatProperties
      <4> QED BY <3>5, <4>1
    <3> HIDE DEF x
    <3>7. \A i \in 1..Len(x) : x[i] = IF i <= count \/ i > count + Len(front) THEN s[i] ELSE front[i - count]
      <4> TAKE i \in 1..Len(x)
      <4>1. i \in 1..(k + Len(rest)) /\ Len(rest) \in Nat
        BY <3>4, <3>6
      <4>2. CASE i <= count
        <5>1. i \in 1..count /\ i \in 1..k /\ i <= k
          BY <1>1, <3>3, <4>1, <4>2
        <5> QED BY <3>2, <3>5, <3>6, <4>1, <4>2, <5>1
      <4>3. CASE i > k
        <5>1. i - k \in 1..(Len(s) - k) /\ k + (i - k) = i /\ ~(i <= k)
          <6>1. k \in Nat /\ Len(rest) = IF k < Len(s) THEN Len(s) - k ELSE 0
            BY <3>3, <3>4
          <6> QED BY <1>2, <4>1, <4>3, <6>1
        <5> QED BY <3>3, <3>4, <3>6, <4>1, <4>3, <5>1
      <4>4. CASE ~(i <= count) /\ ~(i > k)
        <5>1. i <= k /\ i \in 1..k
          BY <3>3, <4>1, <4>4
        <5> QED BY <3>3, <3>5, <3>6, <4>1, <4>4, <5>1
      <4> QED BY <4>2, <4>3, <4>4
    <3>8. Len(x) = IF count + Len(front) < Len(s) THEN Len(s) ELSE count + Len(front)
      <4>1. Len(x) = k + Len(rest) /\ Len(rest) = (IF k < Len(s) THEN Len(s) - k ELSE 0)
        BY <3>4, <3>6
      <4>2. k \in Nat /\ k = count + Len(front)
        BY <3>3
      <4>3. Len(x) = IF k < Len(s) THEN Len(s) ELSE k
        <5> DEFINE n == Len(rest)
                   all == Len(s)
        <5>1. n = IF k < all THEN all - k ELSE 0
          BY <4>1
        <5>2. k \in Nat /\ all \in Nat
          BY <1>2, <4>2
        <5> HIDE DEF n, all
        <5>3. k + n = IF k < all THEN all ELSE k
          BY <5>1, <5>2
        <5> QED BY <4>1, <5>3 DEF n, all
      <4> QED BY <4>2, <4>3
    <3>9. count + Len(front) < WRITE_SIZE /\ \A i \in 1..Len(front) : front[i] # NUL
      <4>1. \A i \in 1..(m - 1) : i \in 1..m
        BY <1>1
      <4> QED BY <1>1, <3>3, <4>1
    <3>10. IsText(overlay(old, count, front), x)
      <4>1. front \in Seq(Character) /\ x \in Seq(Character)
        BY <1>1, <3>6
      <4> QED BY <2>3, <3>7, <3>8, <3>9, <4>1, TextCovered
    <3> QED BY <2>1, <3>1, <3>10
  <2> QED BY <1>2, <2>2, <2>3
<1> QED BY <1>3, <1>4, <1>5
-----------------------------------------------------------------------------
(* The commands drive the block store *)

(* What holds in every state. *)
Sound == TypeOK /\ DiskInv /\ ContentsInv

(* The parts of the invariant. *)
LEMMA ContentsFacts ==
  ASSUME Sound
  PROVE  /\ TypeOK /\ DiskInv /\ ContentsTypeOK /\ Undamaged /\ FilesApart
         /\ pc \in {"write", "trim"} => Storing
         /\ \A f \in Made : (pc \in {"write", "trim"} => f # writing) => Settled(f)
         /\ fat1 \in FatType /\ heads \subseteq Block
         /\ Made \subseteq Files
         /\ \A f \in Made : open[f].first \in heads \ SystemHeads
         /\ pc # "off" => intact
BY DEF Sound, ContentsInv, TypeOK, Undamaged, FilesApart, Made

(* The blocks of a text that fits the buffer. *)
LEMMA TextSize ==
  ASSUME NEW n \in Nat, n < WRITE_SIZE
  PROVE  n \div BLOCK_SIZE + 1 \in 1..MaxBlocks
<1> DEFINE q == n \div BLOCK_SIZE
           o == n % BLOCK_SIZE
<1>1. q \in Nat /\ o \in 0..(BLOCK_SIZE - 1) /\ n = q * BLOCK_SIZE + o
  BY DivMod
<1> HIDE DEF q, o
<1>2. q < MaxBlocks
  <2> SUFFICES ASSUME q >= MaxBlocks PROVE FALSE
    BY <1>1, Sizes
  <2>1. q * BLOCK_SIZE >= MaxBlocks * BLOCK_SIZE
    BY <1>1, Sizes
  <2> QED BY <1>1, <2>1, Sizes DEF WRITE_SIZE
<1> QED BY <1>1, <1>2, Sizes DEF q

(* do_write composes in its buffer what is to be in the file. *)
LEMMA WritesText ==
  ASSUME Sound, NEW f, NEW mode \in {"w", "a", "c"}, NEW at \in Nat, NEW input \in Inputs,
         my_write(f, mode, at, input)
  PROVE  LET count == IF mode = "c" THEN at ELSE open[f].count
             x     == Composes(mode, expected[f], count, input)
         IN  /\ count \in Nat /\ IsText(text', x)
             /\ expected' = [expected EXCEPT ![f] = x]
             /\ open' = [open EXCEPT ![f].count = count]
             /\ write_begin(open[f].first, BlocksOf(x)) /\ BlocksOf(x) \in 1..MaxBlocks
             /\ f \in Made /\ writing' = f /\ pc = "cmd" /\ UNCHANGED bytes
<1> DEFINE count == IF mode = "c" THEN at ELSE open[f].count
           s == expected[f]
           x == Composes(mode, s, count, input)
           old == OldText(f)
           t == composed(mode, old, count, input)
<1>1. /\ f \in Made /\ pc = "cmd" /\ (IF mode = "w" THEN 0 ELSE count) + Len(input) < WRITE_SIZE
      /\ write_begin(open[f].first, strlen(t) \div BLOCK_SIZE + 1)
      /\ text' = t /\ writing' = f
      /\ open' = [open EXCEPT ![f].count = count]
      /\ expected' = [expected EXCEPT ![f] = SubSeq(t, 1, strlen(t))]
      /\ UNCHANGED bytes
  BY DEF my_write, Typed
<1>2. f \in Files /\ Settled(f)
  BY <1>1, ContentsFacts
<1>3. /\ s \in Seq(Character) /\ count \in Nat /\ Len(s) < WRITE_SIZE
      /\ \A i \in 1..Len(s) : s[i] # NUL
  BY <1>2, ContentsFacts, OpenFields DEF FilesApart
<1>4. old = overlay(NoText, 0, s)
  BY <1>2, ContentsFacts, ReadAll DEF OldText
<1> HIDE DEF s, old, count
<1>5. IsText(old, s) /\ \A i \in 1..WRITE_SIZE : i > Len(s) => old[i] = NUL
  BY <1>3, <1>4, TextAlone
<1>6. IsText(t, x)
  BY <1>1, <1>3, <1>5, ComposedText
<1> HIDE DEF t, x
<1>7. strlen(t) = Len(x) /\ Len(x) \in Nat /\ Len(x) < WRITE_SIZE
  <2>1. strlen(t) = Len(x)
    BY <1>6, Strlen
  <2>2. x \in Seq(Character) /\ Len(x) < WRITE_SIZE
    BY <1>6 DEF IsText
  <2> QED BY <2>1, <2>2
<1>8. strlen(t) \div BLOCK_SIZE + 1 = BlocksOf(x) /\ BlocksOf(x) \in 1..MaxBlocks
  BY <1>7, TextSize DEF BlocksOf
<1>9. SubSeq(t, 1, strlen(t)) = x
  BY <1>6, UpToTerminator
<1> QED BY <1>1, <1>3, <1>6, <1>8, <1>9 DEF x, s, count

(* A do_write of a file in use is a command of Disk. *)
LEMMA WriteIsCommand ==
  ASSUME TypeOK, intact, NEW first, NEW n, first \in heads \ SystemHeads, n \in 1..MaxBlocks,
         write_begin(first, n)
  PROVE  Next
<1>1. first \in Firsts
  BY DEF Firsts, TypeOK
<1>2. Command
  BY <1>1 DEF Command
<1> QED BY <1>2 DEF Next

(* Positions are numbers. *)
LEMMA PositionIs == \A at \in Positions : at \in Nat
BY PositionsAssumption

(* Which file, place and line a write was given. *)
LEMMA WritingGiven ==
  ASSUME Writing
  PROVE  \E f \in Files, mode \in {"w", "a", "c"}, at \in Nat, input \in Inputs :
           my_write(f, mode, at, input)
<1>1. PICK f \in Files, input \in Inputs :
        \/ \E mode \in {"w", "a"} : my_write(f, mode, 0, input)
        \/ \E at \in Positions : my_write(f, "c", at, input)
  BY DEF Writing
<1>2. CASE \E mode \in {"w", "a"} : my_write(f, mode, 0, input)
  BY <1>2
<1>3. CASE \E at \in Positions : my_write(f, "c", at, input)
  BY <1>3, PositionIs
<1> QED BY <1>1, <1>2, <1>3

(* Every step of Contents is a step of Disk, or leaves the disk alone. *)
LEMMA StepDrivesDisk ==
  ASSUME Sound, [ContentsNext]_everything
  PROVE  [Next]_vars
<1>1. CASE boot
  BY <1>1 DEF boot, Next, Step
<1>2. ASSUME NEW f \in Files, my_create(f) PROVE Next
  <2>1. allocate /\ intact
    BY <1>2, ContentsFacts DEF my_create, Typed
  <2> QED BY <2>1 DEF Next, Command
<1>3. ASSUME NEW f \in Files, reopen(f) PROVE UNCHANGED vars
  BY <1>3 DEF reopen
<1>4. CASE Reading
  <2>1. PICK f, at, len : my_read(f, at, len) \/ read_crash(f, at, len)
    BY <1>4 DEF Reading
  <2>2. CASE my_read(f, at, len)
    BY <2>2 DEF my_read
  <2>3. CASE read_crash(f, at, len)
    BY <2>3 DEF read_crash, Typed, interrupt, kill, Next, Saving
  <2> QED BY <2>1, <2>2, <2>3
<1>5. CASE Writing
  <2>1. PICK f \in Files, mode \in {"w", "a", "c"}, at \in Nat, input \in Inputs :
          my_write(f, mode, at, input)
    BY <1>5, WritingGiven
  <2>2. PICK n \in 1..MaxBlocks : f \in Made /\ pc = "cmd" /\ write_begin(open[f].first, n)
    BY <2>1, WritesText
  <2>3. intact /\ TypeOK /\ open[f].first \in heads \ SystemHeads
    BY <2>2, ContentsFacts
  <2> QED BY <2>2, <2>3, WriteIsCommand
<1>6. CASE store_block
  BY <1>6 DEF store_block, Next, Step
<1>7. CASE store_last
  BY <1>7 DEF store_last, Next, Step
<1>8. CASE trim
  BY <1>8 DEF trim, Next, Step
<1>9. CASE UNCHANGED everything
  BY <1>9 DEF everything
<1> QED BY <1>1, <1>2, <1>3, <1>4, <1>5, <1>6, <1>7, <1>8, <1>9 DEF ContentsNext
-----------------------------------------------------------------------------
(* The inductive invariant *)

(* Settled and Holds, with what they depend on said. *)
SettledIn(fat, by, op, ex, f) ==
  /\ op[f].length = Len(ex[f])
  /\ HoldsIn(fat, by, op[f].first, BlocksOf(ex[f]), ex[f])

(* Settled is SettledIn, now and after a step. *)
LEMMA SettledHere ==
  ASSUME NEW f
  PROVE  /\ Settled(f) <=> SettledIn(fat1, bytes, open, expected, f)
         /\ Settled(f)' <=> SettledIn(fat1', bytes', open', expected', f)
BY DEF Settled, SettledIn, Holds, HoldsIn, physics_block, BlockAt

(* Holds after a step is HoldsIn of what the step leaves. *)
LEMMA HoldsThere ==
  ASSUME NEW n, NEW s
  PROVE  /\ \A h : Holds(h, n, s)' <=> HoldsIn(fat1', bytes', h, n, s)
         /\ \A h, k : physics_block(h, k)' = BlockAt(fat1', h, k)
BY DEF Holds, HoldsIn, physics_block, BlockAt

(* A file whose chain and blocks are left as they were is as it was. *)
LEMMA SettledKept ==
  ASSUME Sound, intact, fat1' \in FatType, NEW f \in Files, Settled(f), open[f].first \in Roots,
         \A b \in Chain(fat1, open[f].first) : fat1'[b] = fat1[b] /\ bytes'[b] = bytes[b],
         open'[f].first = open[f].first, open'[f].length = open[f].length,
         expected'[f] = expected[f]
  PROVE  Settled(f)'
<1> DEFINE h == open[f].first
           s == expected[f]
<1>1. /\ fat1 \in FatType /\ Roots \subseteq Block /\ Linked(fat1, Roots)
      /\ BlocksOf(s) \in Nat
  <2>1. Len(s) \in Nat
    BY ContentsFacts, OpenFields
  <2>2. BlocksOf(s) \in Nat
    <3>1. PICK n \in Nat : n = Len(s)
      BY <2>1
    <3>2. n \div BLOCK_SIZE \in Nat
      BY DivMod
    <3>3. (n \div BLOCK_SIZE) + 1 \in Nat
      BY <3>2
    <3> QED BY ONLY <3>1, <3>3 DEF BlocksOf
  <2>3. TypeOK /\ DiskInv
    BY ContentsFacts
  <2> QED BY <2>2, <2>3, MemoryFacts
<1>2. open[f].length = Len(s) /\ HoldsIn(fat1, bytes, h, BlocksOf(s), s)
  BY SettledHere DEF SettledIn
<1>3. h \in Roots /\ \A b \in Chain(fat1, h) : fat1'[b] = fat1[b] /\ bytes'[b] = bytes[b]
  OBVIOUS
<1> HIDE DEF h, s
<1>4. HoldsIn(fat1', bytes', h, BlocksOf(s), s)
  BY <1>1, <1>2, <1>3, HoldsKept
<1>5. open'[f].first = h /\ open'[f].length = Len(s) /\ expected'[f] = s
  BY <1>2 DEF h, s
<1>6. SettledIn(fat1', bytes', open', expected', f)
  BY <1>4, <1>5 DEF SettledIn
<1> QED BY <1>6, SettledHere

(* What is fixed when files come and go: one lemma for what each command   *)
(* leaves behind.                                                          *)
LEMMA ZerosType ==
  /\ [b \in Block |-> zeros(BLOCK_SIZE)] \in [Block -> [1..BLOCK_SIZE -> Character]]
  /\ Absent \in [first : Block, length : 0..(WRITE_SIZE - 1), count : Nat]
  /\ [f \in Files |-> <<>>] \in [Files -> Seq(Character)]
<1>1. zeros(BLOCK_SIZE) \in [1..BLOCK_SIZE -> Character]
  BY NulType DEF zeros
<1>2. 0 \in Block /\ 0 \in 0..(WRITE_SIZE - 1)
  BY Constants, Sizes
<1>3. <<>> \in Seq(Character)
  OBVIOUS
<1> QED BY <1>1, <1>2, <1>3 DEF Absent

(* An empty open file table has no files. *)
LEMMA NoFiles ==
  ASSUME NEW op, op = [f \in Files |-> Absent]
  PROVE  {f \in Files : op[f].first # 0} = {}
BY DEF Absent

(* Before the first start nothing is there. *)
LEMMA ContentsInitSound == ContentsInit => Sound
<1> SUFFICES ASSUME ContentsInit PROVE Sound
  OBVIOUS
<1>1. Init /\ open = [f \in Files |-> Absent] /\ expected = [f \in Files |-> <<>>]
      /\ bytes = [b \in Block |-> zeros(BLOCK_SIZE)] /\ text = NoText
  BY DEF ContentsInit
<1>2. TypeOK /\ DiskInv
  BY <1>1, InitTypeOK, InitDiskInv
<1>3. ContentsTypeOK
  BY <1>1, ZerosType, NoTextIs DEF ContentsTypeOK
<1>4. Made = {}
  BY <1>1, NoFiles DEF Made
<1>5. pc = "off" /\ ~image.exists
  BY <1>1 DEF Init, NoFile, Emptied
<1>6. Undamaged
  BY <1>4, <1>5 DEF Undamaged
<1>7. FilesApart
  <2>1. \A f \in Files : expected[f] = <<>> /\ Len(expected[f]) = 0
    BY <1>1
  <2>2. 0 < WRITE_SIZE /\ 1..0 = {}
    BY Sizes
  <2> QED BY <1>4, <2>1, <2>2 DEF FilesApart
<1> QED BY <1>2, <1>3, <1>4, <1>5, <1>6, <1>7 DEF Sound, ContentsInv

(* The process is gone. *)
LEMMA GoneSound ==
  ASSUME Sound, pc # "formatting", Dead, Forgotten, UNCHANGED image
  PROVE  ContentsInv'
<1>1. /\ pc' = "off" /\ image' = image
      /\ open' = [f \in Files |-> Absent] /\ expected' = [f \in Files |-> <<>>]
      /\ bytes' = [b \in Block |-> zeros(BLOCK_SIZE)] /\ text' = NoText
  BY DEF Dead, Forgotten
<1>2. ContentsTypeOK'
  BY <1>1, ZerosType, NoTextIs DEF ContentsTypeOK
<1>3. Made' = {}
  BY <1>1, NoFiles DEF Made
<1>4. Undamaged'
  BY <1>1, <1>3, ContentsFacts DEF Undamaged
<1>5. FilesApart'
  <2>1. \A f \in Files : expected'[f] = <<>> /\ Len(expected'[f]) = 0
    BY <1>1
  <2>2. 0 < WRITE_SIZE /\ 1..0 = {}
    BY Sizes
  <2> QED BY <1>3, <2>1, <2>2 DEF FilesApart
<1> QED BY <1>1, <1>2, <1>3, <1>4, <1>5 DEF ContentsInv

(* Starting, and the end of a format, make no files. *)
LEMMA BootSound ==
  ASSUME Sound, boot
  PROVE  ContentsInv'
<1>1. UNCHANGED contentVars /\ (start_sys \/ fwrite_done)
  BY DEF boot
<1>2. UNCHANGED <<bytes, open, text, expected>>
  BY <1>1 DEF contentVars
<1>3. pc \in {"off", "formatting"} /\ Made = {} /\ Undamaged /\ ContentsTypeOK /\ FilesApart
  <2>1. pc = "off" \/ pc = "formatting" \/ pc = "exiting"
    BY <1>1 DEF start_sys, fwrite_done
  <2> QED BY <2>1, ContentsFacts DEF Undamaged
<1>4. Made' = {}
  BY <1>2, <1>3 DEF Made
<1>5. pc' \in {"cmd", "formatting"} /\ intact' /\ (image'.exists /\ pc' # "formatting" => image'.intact)
  <2>1. CASE start_sys /\ image.exists
    BY <1>3, <2>1 DEF start_sys, Idle, Undamaged
  <2>2. CASE start_sys /\ ~image.exists
    BY <2>2 DEF start_sys, FormatMemory
  <2>3. CASE fwrite_done
    <3>1. pc = "formatting" /\ intact /\ intact' = intact /\ pc' = "cmd" /\ image' = Saved(NumBlocks, TRUE)
      BY <1>3, <2>3 DEF fwrite_done, Idle, Undamaged
    <3>2. image'.intact = (intact /\ TRUE)
      BY <3>1 DEF Saved
    <3> QED BY <3>1, <3>2
  <2> QED BY <1>1, <2>1, <2>2, <2>3
<1>6. Undamaged'
  BY <1>4, <1>5 DEF Undamaged
<1>7. ContentsTypeOK' /\ FilesApart'
  BY <1>2, <1>3, <1>4 DEF ContentsTypeOK, FilesApart, Made
<1> QED BY <1>4, <1>5, <1>6, <1>7 DEF ContentsInv

(* At the prompt *)

(* At the prompt every file is settled and the table is sound. *)
LEMMA Prompt ==
  ASSUME Sound, pc = "cmd"
  PROVE  /\ intact /\ Roots = heads /\ fat1 \in FatType /\ heads \subseteq Block
         /\ Linked(fat1, heads) /\ SystemLayout(fat1) /\ SystemHeads \subseteq heads
         /\ \A f \in Made : Settled(f)
<1>1. TypeOK /\ DiskInv /\ intact /\ \A f \in Made : Settled(f)
  BY ContentsFacts
<1> QED BY <1>1, MemoryFacts

(* What is not damaged stays so in a step that does not mislead. *)
LEMMA UndamagedStays ==
  ASSUME Sound, pc \notin {"off", "formatting"}, pc' \in {"cmd", "write", "trim"},
         intact', UNCHANGED image
  PROVE  Undamaged'
BY ContentsFacts DEF Undamaged

(* close and open, and what a read does to the file's entry. *)
LEMMA CountSound ==
  ASSUME Sound, pc = "cmd", NEW f \in Made, NEW c \in Nat,
         open' = [open EXCEPT ![f].count = c],
         UNCHANGED <<vars, bytes, text, writing, expected>>
  PROVE  ContentsInv'
<1>1. UNCHANGED <<fat1, pc, heads, image, intact, file, num, static_num, cur>>
  BY DEF vars, loopVars
<1>2. f \in Files /\ open \in [Files -> [first : Block, length : 0..(WRITE_SIZE - 1), count : Nat]]
      /\ ContentsTypeOK /\ FilesApart
  BY ContentsFacts DEF ContentsTypeOK, Made
<1>3. open' \in [Files -> [first : Block, length : 0..(WRITE_SIZE - 1), count : Nat]]
      /\ \A g \in Files : open'[g].first = open[g].first /\ open'[g].length = open[g].length
  BY <1>2
<1>4. Made' = Made
  BY <1>3 DEF Made
<1>5. ContentsTypeOK'
  BY <1>2, <1>3 DEF ContentsTypeOK
<1>6. FilesApart'
  BY <1>1, <1>2, <1>3, <1>4, ContentsFacts DEF FilesApart
<1>7. Undamaged'
  BY <1>1, Prompt, UndamagedStays
<1>8. ASSUME NEW g \in Made' PROVE Settled(g)'
  <2>1. g \in Files /\ Settled(g) /\ open[g].first \in Roots /\ intact
    BY <1>4, Prompt, ContentsFacts
  <2>2. fat1' \in FatType /\ fat1' = fat1 /\ bytes' = bytes /\ expected' = expected
    BY <1>1, ContentsFacts
  <2> QED BY <1>3, <2>1, <2>2, SettledKept
<1> QED BY <1>1, <1>5, <1>6, <1>7, <1>8 DEF ContentsInv

(* Lengths are numbers. *)
LEMMA LengthIs == \A len \in Lengths : len \in Int
BY PositionsAssumption, Sizes

(* A read moves the position of its file, or is the end of the process. *)
LEMMA ReadSound ==
  ASSUME Sound, NEW f \in Files, NEW at \in Nat, NEW len \in Int,
         my_read(f, at, len) \/ read_crash(f, at, len)
  PROVE  ContentsInv'
<1>1. CASE my_read(f, at, len)
  <2> DEFINE c == do_read(f, at, len).count
  <2>1. /\ pc = "cmd" /\ f \in Made /\ open' = [open EXCEPT ![f].count = c]
        /\ UNCHANGED <<vars, bytes, text, writing, expected>>
    BY <1>1 DEF my_read, Typed
  <2>2. c \in Nat
    BY ContentsFacts, DoReadType DEF ReadType
  <2> HIDE DEF c
  <2> QED BY <2>1, <2>2, CountSound
<1>2. CASE read_crash(f, at, len)
  <2>1. pc = "cmd" /\ Dead /\ Forgotten /\ UNCHANGED image
    BY <1>2 DEF read_crash, Typed
  <2> QED BY <2>1, GoneSound
<1> QED BY <1>1, <1>2

(* The same of every read the user may type. *)
LEMMA ReadingSound ==
  ASSUME Sound, Reading
  PROVE  ContentsInv'
<1>1. PICK f \in Files :
        \/ my_read(f, 0, open[f].length)
        \/ \E at \in Positions, len \in Lengths : my_read(f, at, len) \/ read_crash(f, at, len)
  BY DEF Reading
<1>2. CASE my_read(f, 0, open[f].length)
  <2>1. open[f].length \in Int
    BY ContentsFacts, OpenFields
  <2> QED BY <1>2, <2>1, ReadSound
<1>3. CASE \E at \in Positions, len \in Lengths : my_read(f, at, len) \/ read_crash(f, at, len)
  BY <1>3, PositionIs, LengthIs, ReadSound
<1> QED BY <1>1, <1>2, <1>3

(* create: a block no chain has, and no text. *)
LEMMA CreateSound ==
  ASSUME Sound, TypeOK', NEW f \in Files, my_create(f)
  PROVE  ContentsInv'
<1> DEFINE b == get_free(fat1, 1)
<1>1. /\ pc = "cmd" /\ f \notin Made /\ b # -1 /\ fat1' = set_free_allocate(fat1, b, 1)
      /\ heads' = heads \cup {b} /\ UNCHANGED <<pc, image, intact>>
      /\ open' = [open EXCEPT ![f] = [first |-> b, length |-> 0, count |-> 0]]
      /\ UNCHANGED <<bytes, text, writing, expected>>
  BY DEF my_create, allocate, Typed
<1>2. /\ intact /\ Roots = heads /\ fat1 \in FatType /\ heads \subseteq Block
      /\ Linked(fat1, heads) /\ SystemLayout(fat1) /\ SystemHeads \subseteq heads
      /\ \A g \in Made : Settled(g)
  BY <1>1, Prompt
<1>3. b \in Block /\ fat1[b] = FREE
  BY <1>1, <1>2, GetFreeFindsFree
<1> HIDE DEF b
<1>4. \A c \in Block : fat1'[c] = IF c = b THEN END ELSE fat1[c]
  BY <1>1, <1>2, <1>3, AllocateOne
<1>5. b \notin heads /\ b \notin SystemBlock /\ b # 0
  <2>1. b \notin heads
    BY <1>2, <1>3, LinkedParts
  <2>2. b \notin SystemBlock
    BY <1>2, <1>3, OutsideSystem
  <2> QED BY <2>1, <2>2, SystemBlocks
<1>6. /\ ContentsTypeOK /\ FilesApart
      /\ open \in [Files -> [first : Block, length : 0..(WRITE_SIZE - 1), count : Nat]]
      /\ \A g \in Made : open[g].first \in heads \ SystemHeads
  BY ContentsFacts DEF ContentsTypeOK
<1>7. /\ open'[f] = [first |-> b, length |-> 0, count |-> 0]
      /\ \A g \in Files : g # f => open'[g] = open[g]
      /\ open' \in [Files -> [first : Block, length : 0..(WRITE_SIZE - 1), count : Nat]]
  <2>1. 0 \in 0..(WRITE_SIZE - 1)
    BY Sizes
  <2> QED BY <1>1, <1>3, <1>6, <2>1
<1>8. Made' = Made \cup {f}
  BY <1>5, <1>7 DEF Made
<1>9. ContentsTypeOK'
  BY <1>1, <1>6, <1>7 DEF ContentsTypeOK
<1>10. Undamaged'
  BY <1>1, <1>2, UndamagedStays
<1>11. FilesApart'
  <2>1. \A g \in Made : g \in Files /\ g # f /\ open'[g] = open[g]
    BY <1>1, <1>7 DEF Made
  <2>2. open'[f].first = b
    BY <1>7
  <2>3. b \in heads' \ SystemHeads
    BY <1>1, <1>5, SystemBlocks
  <2>4. \A g \in Made' : open'[g].first \in heads' \ SystemHeads
    BY <1>1, <1>6, <1>8, <2>1, <2>2, <2>3
  <2>5. \A g, h \in Made' : open'[g].first = open'[h].first => g = h
    <3>1. \A g, h \in Made : open[g].first = open[h].first => g = h
      BY <1>6 DEF FilesApart
    <3>2. \A g \in Made : open[g].first # b
      BY <1>5, <1>6
    <3> QED BY <1>8, <2>1, <2>2, <3>1, <3>2
  <2>6. \A g \in Files \ Made' : expected'[g] = <<>>
    BY <1>1, <1>6, <1>8 DEF FilesApart
  <2>7. \A g \in Files : /\ Len(expected'[g]) < WRITE_SIZE
                         /\ \A i \in 1..Len(expected'[g]) : expected'[g][i] # NUL
    BY <1>1, <1>6 DEF FilesApart
  <2> QED BY <2>4, <2>5, <2>6, <2>7 DEF FilesApart
<1>12. fat1' \in FatType
  BY DEF TypeOK
<1>13. ASSUME NEW g \in Made PROVE Settled(g)'
  <2>1. g \in Files /\ g # f /\ Settled(g) /\ open[g].first \in heads
    BY <1>1, <1>2, <1>6 DEF Made
  <2>2. \A c \in Chain(fat1, open[g].first) : fat1'[c] = fat1[c]
    <3>1. \A c \in Chain(fat1, open[g].first) : c \in Block /\ fat1[c] # FREE
      BY <1>2, <2>1, ChainAllocated, ChainOf, LinkedParts
    <3> QED BY <1>3, <1>4, <3>1
  <2>3. bytes' = bytes /\ expected' = expected /\ open'[g] = open[g] /\ open[g].first \in Roots
    BY <1>1, <1>2, <1>7, <2>1
  <2> QED BY <1>2, <1>12, <2>1, <2>2, <2>3, SettledKept
<1>14. Settled(f)'
  <2>1. expected'[f] = <<>>
    BY <1>1, <1>6 DEF FilesApart
  <2>2. BlocksOf(<<>>) = 1
    <3>1. 0 = 0 * BLOCK_SIZE + 0 /\ 0 \in 0..(BLOCK_SIZE - 1)
      BY Sizes
    <3>2. 0 \div BLOCK_SIZE = 0
      BY <3>1, DivModUnique
    <3> QED BY <3>2 DEF BlocksOf
  <2>3. HoldsIn(fat1', bytes', b, 1, <<>>)
    <3>1. BlockAt(fat1', b, 0) = b
      BY <1>3, <1>12, BlockAtNext
    <3>2. \A k \in 0..(1 - 1) : k = 0
      OBVIOUS
    <3>3. \A i \in 1..BLOCK_SIZE : ~(0 * BLOCK_SIZE + i <= Len(<<>>))
      BY Sizes
    <3> QED BY <1>3, <3>1, <3>2, <3>3 DEF HoldsIn
  <2>4. SettledIn(fat1', bytes', open', expected', f)
    BY <1>7, <2>1, <2>2, <2>3 DEF SettledIn
  <2> QED BY <2>4, SettledHere
<1> QED BY <1>1, <1>8, <1>9, <1>10, <1>11, <1>13, <1>14 DEF ContentsInv

(* do_write begins: nothing is stored yet, and the buffer has the text. *)
LEMMA WritingSound ==
  ASSUME Sound, NEW f \in Files, NEW mode \in {"w", "a", "c"}, NEW at \in Nat,
         NEW input \in Inputs, my_write(f, mode, at, input)
  PROVE  ContentsInv'
<1>0. PICK h : h = open[f].first
  OBVIOUS
<1>1. PICK count, x :
      /\ count \in Nat /\ IsText(text', x)
      /\ expected' = [expected EXCEPT ![f] = x]
      /\ open' = [open EXCEPT ![f].count = count]
      /\ write_begin(h, BlocksOf(x)) /\ BlocksOf(x) \in 1..MaxBlocks
      /\ f \in Made /\ writing' = f /\ pc = "cmd" /\ UNCHANGED bytes
  <2>1. LET c == IF mode = "c" THEN at ELSE open[f].count
            y == Composes(mode, expected[f], c, input)
        IN  /\ c \in Nat /\ IsText(text', y)
            /\ expected' = [expected EXCEPT ![f] = y]
            /\ open' = [open EXCEPT ![f].count = c]
            /\ write_begin(h, BlocksOf(y)) /\ BlocksOf(y) \in 1..MaxBlocks
            /\ f \in Made /\ writing' = f /\ pc = "cmd" /\ UNCHANGED bytes
    BY <1>0, WritesText
  <2> QED BY <2>1
<1>2. /\ pc' = "write" /\ cur' = h /\ file' = h /\ num' = BlocksOf(x) /\ static_num' = BlocksOf(x)
      /\ intact' = (intact /\ h \in heads \ SystemHeads)
      /\ UNCHANGED <<fat1, fat2, image, heads>>
  BY <1>1 DEF write_begin
<1>3. /\ intact /\ Roots = heads /\ fat1 \in FatType /\ heads \subseteq Block
      /\ \A g \in Made : Settled(g)
  BY <1>1, Prompt
<1>4. /\ ContentsTypeOK /\ FilesApart
      /\ open \in [Files -> [first : Block, length : 0..(WRITE_SIZE - 1), count : Nat]]
      /\ h \in heads \ SystemHeads
  BY <1>0, <1>1, ContentsFacts DEF ContentsTypeOK
<1>5. /\ open' \in [Files -> [first : Block, length : 0..(WRITE_SIZE - 1), count : Nat]]
      /\ \A g \in Files : open'[g].first = open[g].first /\ open'[g].length = open[g].length
  BY <1>1, <1>4
<1>6. Made' = Made
  BY <1>5 DEF Made
<1>7. /\ x \in Seq(Character) /\ Len(x) < WRITE_SIZE /\ text' \in [1..WRITE_SIZE -> Character]
      /\ \A i \in 1..Len(x) : x[i] # NUL /\ text'[i] = x[i]
      /\ text'[Len(x) + 1] = NUL
  BY <1>1 DEF IsText
<1>8. expected'[f] = x /\ \A g \in Files : g # f => expected'[g] = expected[g]
  BY <1>1, <1>4 DEF ContentsTypeOK
<1>9. ContentsTypeOK'
  <2>1. expected' \in [Files -> Seq(Character)]
    BY <1>1, <1>4, <1>7 DEF ContentsTypeOK
  <2>2. bytes' \in [Block -> [1..BLOCK_SIZE -> Character]]
    BY <1>1, <1>4 DEF ContentsTypeOK
  <2> QED BY <1>5, <1>7, <2>1, <2>2 DEF ContentsTypeOK
<1>10. Undamaged'
  BY <1>1, <1>2, <1>3, <1>4, UndamagedStays
<1>11. FilesApart'
  <2>1. \A g \in Made' : open'[g].first \in heads' \ SystemHeads
    BY <1>2, <1>4, <1>5, <1>6, ContentsFacts
  <2>2. \A g, k \in Made' : open'[g].first = open'[k].first => g = k
    BY <1>4, <1>5, <1>6, ContentsFacts DEF FilesApart
  <2>3. \A g \in Files \ Made' : expected'[g] = <<>>
    BY <1>1, <1>4, <1>6, <1>8 DEF FilesApart
  <2>4. \A g \in Files : /\ Len(expected'[g]) < WRITE_SIZE
                         /\ \A i \in 1..Len(expected'[g]) : expected'[g][i] # NUL
    <3> TAKE g \in Files
    <3>1. CASE g = f
      BY <1>7, <1>8, <3>1
    <3>2. CASE g # f
      BY <1>4, <1>8, <3>2 DEF FilesApart
    <3> QED BY <3>1, <3>2
  <2> QED BY <2>1, <2>2, <2>3, <2>4 DEF FilesApart
<1>12. Storing'
  <2>1. BlocksOf(x) \in 1..BlocksOf(x) /\ BlocksOf(x) - BlocksOf(x) = 0
        /\ 0..(0 - 1) = {}
    BY <1>1
  <2>2. physics_block(h, 0)' = h
    <3>1. h \in Block /\ fat1' \in FatType
      BY <1>2, <1>3, <1>4
    <3> QED BY <3>1, HoldsThere, BlockAtNext
  <2>3. Holds(h, 0, x)'
    BY <2>1 DEF Holds
  <2>4. open'[f].first = h
    BY <1>0, <1>5
  <2> QED BY <1>1, <1>2, <1>6, <1>7, <1>8, <2>1, <2>2, <2>3, <2>4 DEF Storing
<1>13. ASSUME NEW g \in Made', g # writing' PROVE Settled(g)'
  <2>1. g \in Files /\ Settled(g) /\ open[g].first \in Roots /\ g # f
    BY <1>1, <1>3, <1>6, <1>13, ContentsFacts
  <2>2. fat1' \in FatType /\ fat1' = fat1 /\ bytes' = bytes /\ expected'[g] = expected[g]
    BY <1>1, <1>2, <1>3, <1>8, <2>1
  <2> QED BY <1>3, <1>5, <2>1, <2>2, SettledKept
<1> QED BY <1>2, <1>9, <1>10, <1>11, <1>12, <1>13 DEF ContentsInv
-----------------------------------------------------------------------------
(* The loops of do_write *)

(* The piece of the text that goes into block k of the chain. *)
LEMMA ChunkIs ==
  ASSUME NEW t \in [1..WRITE_SIZE -> Character], NEW k \in Nat, k < MaxBlocks
  PROVE  LET c == SubSeq(t, k * BLOCK_SIZE + 1, (k + 1) * BLOCK_SIZE)
         IN  /\ c \in [1..BLOCK_SIZE -> Character]
             /\ \A i \in 1..BLOCK_SIZE : c[i] = t[k * BLOCK_SIZE + i]
<1> DEFINE m == k * BLOCK_SIZE
           c == SubSeq(t, m + 1, m + BLOCK_SIZE)
<1>1. m \in Nat /\ (k + 1) * BLOCK_SIZE = m + BLOCK_SIZE /\ BLOCK_SIZE \in Nat
  BY Sizes
<1>2. m + BLOCK_SIZE <= WRITE_SIZE
  <2>1. k + 1 \in 0..MaxBlocks
    BY Sizes
  <2> QED BY <1>1, <2>1, Sizes
<1> HIDE DEF m
<1>3. \A i \in 1..BLOCK_SIZE : t[m + i] \in Character
  <2>1. \A i \in 1..BLOCK_SIZE : m + i \in 1..WRITE_SIZE
    BY <1>1, <1>2, Sizes
  <2> QED BY <2>1
<1>4. /\ c \in Seq(Character) /\ Len(c) = BLOCK_SIZE
      /\ \A i \in 1..BLOCK_SIZE : c[i] = t[m + i]
  <2>1. PICK n \in Nat, b \in Nat : n = m /\ b = BLOCK_SIZE
    BY <1>1
  <2>2. \A i \in 1..b : t[n + i] \in Character
    BY <1>3, <2>1
  <2>3. /\ SubSeq(t, n + 1, n + b) \in Seq(Character) /\ Len(SubSeq(t, n + 1, n + b)) = b
        /\ \A i \in 1..b : SubSeq(t, n + 1, n + b)[i] = t[n + i]
    BY ONLY <2>2, Piece
  <2> QED BY <2>1, <2>3
<1> HIDE DEF c
<1>5. c \in [1..BLOCK_SIZE -> Character]
  BY <1>4, LenProperties
<1> QED BY <1>1, <1>4, <1>5 DEF c, m

(* What a step of either loop leaves as it was: the types, who is made, and *)
(* every file but the one being written.                                   *)
LEMMA LoopFrame ==
  ASSUME Sound, TypeOK', [Next]_vars, pc \in {"write", "trim"}, pc' \in {"cmd", "write", "trim"},
         UNCHANGED <<heads, image, intact, expected>>,
         bytes' \in [Block -> [1..BLOCK_SIZE -> Character]],
         text' \in [1..WRITE_SIZE -> Character],
         open' \in [Files -> [first : Block, length : 0..(WRITE_SIZE - 1), count : Nat]],
         \A g \in Files : open'[g].first = open[g].first,
         \A g \in Files : g # writing => open'[g].length = open[g].length,
         \A b \in Block : b \notin Chain(fat1, file) => bytes'[b] = bytes[b]
  PROVE  /\ ContentsTypeOK' /\ Undamaged' /\ FilesApart' /\ Made' = Made
         /\ \A g \in Made : g # writing => Settled(g)'
<1>1. /\ ContentsTypeOK /\ FilesApart /\ TypeOK /\ DiskInv /\ intact /\ Storing
      /\ \A g \in Made : g # writing => Settled(g)
      /\ \A g \in Made : g \in Files /\ open[g].first \in heads \ SystemHeads
  BY ContentsFacts
<1>2. Made' = Made
  BY DEF Made
<1>3. ContentsTypeOK'
  BY <1>1 DEF ContentsTypeOK
<1>4. Undamaged'
  BY <1>1, UndamagedStays
<1>5. FilesApart'
  BY <1>1, <1>2 DEF FilesApart
<1>6. ASSUME NEW g \in Made, g # writing PROVE Settled(g)'
  <2> DEFINE h == open[g].first
             w == open[writing].first
  <2>1. fat1 \in FatType /\ Roots \subseteq Block /\ Linked(fat1, Roots) /\ heads \subseteq Roots
    BY <1>1, MemoryFacts DEF Roots
  <2>2. writing \in Made /\ w = file
    BY <1>1 DEF Storing
  <2>3. g \in Files /\ h \in heads /\ w \in heads /\ h # w
    BY <1>1, <1>6, <2>2 DEF FilesApart
  <2>4. fat1' \in FatType
    BY DEF TypeOK
  <2>5. \A b \in Chain(fat1, h) : fat1'[b] = fat1[b]
    <3>1. pc \in Loops /\ h \in heads' \ {file}
      BY <2>2, <2>3 DEF Loops
    <3> QED BY <1>1, <3>1, OthersUntouched
  <2>6. \A b \in Chain(fat1, h) : bytes'[b] = bytes[b]
    <3>1. h \in Roots /\ file \in Roots /\ h # file
      BY <2>1, <2>2, <2>3
    <3>2. Chain(fat1, h) \cap Chain(fat1, file) = {}
      BY <2>1, <3>1, ChainsDisjoint
    <3>3. \A b \in Chain(fat1, h) : b \in Block
      BY <2>1, <3>1, ChainOf
    <3> QED BY <3>2, <3>3
  <2>7. open'[g].first = open[g].first /\ open'[g].length = open[g].length /\ expected'[g] = expected[g]
    BY <1>6, <2>3
  <2>8. Settled(g) /\ open[g].first \in Roots
    BY <1>1, <1>6, <2>1, <2>3
  <2> QED BY <1>1, <2>3, <2>4, <2>5, <2>6, <2>7, <2>8, SettledKept
<1> QED BY <1>2, <1>3, <1>4, <1>5, <1>6

(* The file being written, its text, and the chain with its place in it. *)
LEMMA StoringText ==
  ASSUME Sound, pc \in {"write", "trim"}, NEW w, NEW h, NEW s,
         w = writing, h = file, s = expected[writing]
  PROVE  /\ intact /\ w \in Made /\ w \in Files /\ open[w].first = h
         /\ h \in heads /\ heads \subseteq Block /\ fat1 \in FatType
         /\ Linked(fat1, Roots) /\ Roots \subseteq Block /\ h \in Roots
         /\ IsText(text, s) /\ static_num = BlocksOf(s) /\ static_num \in 1..MaxBlocks
<1>1. /\ ContentsTypeOK /\ FilesApart /\ TypeOK /\ DiskInv /\ intact /\ Storing
      /\ \A g \in Made : g \in Files /\ open[g].first \in heads
  BY ContentsFacts
<1>2. /\ writing \in Made /\ open[writing].first = file /\ static_num = BlocksOf(s)
      /\ \A i \in 1..Len(s) : text[i] = s[i]
      /\ text[Len(s) + 1] = NUL
  BY <1>1 DEF Storing
<1>3. w \in Made /\ w \in Files /\ open[w].first = h /\ h \in heads
  BY <1>1, <1>2
<1>4. /\ fat1 \in FatType /\ heads \subseteq Block /\ Roots \subseteq Block /\ Linked(fat1, Roots)
      /\ h \in Roots
  BY <1>1, <1>3, MemoryFacts DEF Roots
<1>5. /\ s \in Seq(Character) /\ Len(s) \in Nat /\ Len(s) < WRITE_SIZE
      /\ \A i \in 1..Len(s) : s[i] # NUL
  BY <1>1, <1>3, OpenFields DEF FilesApart
<1>6. IsText(text, s)
  BY <1>1, <1>2, <1>5 DEF IsText, ContentsTypeOK
<1>7. static_num \in 1..MaxBlocks
  BY <1>2, <1>5, TextSize DEF BlocksOf
<1> QED BY <1>1, <1>2, <1>3, <1>4, <1>6, <1>7

(* Block k of the chain takes piece k of the text. *)
LEMMA PieceStored ==
  ASSUME Sound, pc = "write", NEW h, NEW s, NEW k,
         h = file, s = expected[writing], k = static_num - num,
         bytes' = [bytes EXCEPT ![cur] = chunk], fat1' \in FatType,
         \A b \in Chain(fat1, file) : b # cur => fat1'[b] = fat1[b]
  PROVE  /\ k \in Nat /\ num \in 1..static_num /\ cur \in Chain(fat1, file)
         /\ bytes' \in [Block -> [1..BLOCK_SIZE -> Character]]
         /\ \A b \in Block : b \notin Chain(fat1, file) => bytes'[b] = bytes[b]
         /\ HoldsIn(fat1', bytes', h, k + 1, s) /\ BlockAt(fat1', h, k) = cur
<1>1. /\ h \in Roots /\ fat1 \in FatType /\ Linked(fat1, Roots) /\ Roots \subseteq Block
      /\ IsText(text, s) /\ static_num \in 1..MaxBlocks /\ intact
  BY StoringText
<1>2. /\ num \in 1..static_num /\ cur = physics_block(file, static_num - num)
      /\ Holds(file, static_num - num, s)
  BY ContentsFacts DEF Storing
<1>3. k \in Nat /\ k < MaxBlocks
  BY <1>1, <1>2, Sizes
<1>4. cur = BlockAt(fat1, h, k) /\ HoldsIn(fat1, bytes, h, k, s)
  BY <1>2, PhysicsBlock, HoldsHere
<1>5. cur \in Block /\ cur \in Chain(fat1, file)
  <2>1. TypeOK /\ DiskInv
    BY ContentsFacts
  <2> QED BY <1>1, <2>1, MemoryFacts DEF Progress
<1>6. /\ chunk \in [1..BLOCK_SIZE -> Character]
      /\ \A i \in 1..BLOCK_SIZE : chunk[i] = text[k * BLOCK_SIZE + i]
  BY <1>1, <1>3, ChunkIs DEF IsText, chunk
<1>7. bytes \in [Block -> [1..BLOCK_SIZE -> Character]]
  BY ContentsFacts DEF ContentsTypeOK
<1>8. PICK c : c = chunk
  OBVIOUS
<1>9. /\ bytes' \in [Block -> [1..BLOCK_SIZE -> Character]]
      /\ bytes'[cur] = c /\ \A b \in Block : b # cur => bytes'[b] = bytes[b]
  BY <1>5, <1>6, <1>7, <1>8
<1>10. \A i \in 1..BLOCK_SIZE :
         k * BLOCK_SIZE + i <= Len(s) => bytes'[BlockAt(fat1, h, k)][i] = s[k * BLOCK_SIZE + i]
  <2> TAKE i \in 1..BLOCK_SIZE
  <2> HAVE k * BLOCK_SIZE + i <= Len(s)
  <2>1. k * BLOCK_SIZE + i \in 1..Len(s)
    <3>1. k * BLOCK_SIZE \in Nat
      BY <1>3, Sizes
    <3>2. Len(s) \in Nat
      BY <1>1, LenProperties DEF IsText
    <3> QED BY <3>1, <3>2
  <2>2. text[k * BLOCK_SIZE + i] = s[k * BLOCK_SIZE + i]
    BY <1>1, <2>1 DEF IsText
  <2>3. c[i] = text[k * BLOCK_SIZE + i]
    BY <1>6, <1>8
  <2> QED BY <1>4, <1>9, <2>2, <2>3
<1>11. \A b \in Chain(fat1, h) : b # BlockAt(fat1, h, k) => fat1'[b] = fat1[b] /\ bytes'[b] = bytes[b]
  <2>1. \A b \in Chain(fat1, h) : b \in Block
    BY <1>1, ChainOf
  <2> QED BY <1>4, <1>9, <2>1
<1>12. BlockAt(fat1, h, k) \in Block
  BY <1>4, <1>5
<1>13. HoldsIn(fat1', bytes', h, k + 1, s) /\ BlockAt(fat1', h, k) = BlockAt(fat1, h, k)
  <2>1. PICK F, G, B, C : F = fat1 /\ G = fat1' /\ B = bytes /\ C = bytes'
    OBVIOUS
  <2>2. /\ F \in FatType /\ G \in FatType /\ Roots \subseteq Block /\ Linked(F, Roots)
        /\ h \in Roots /\ k \in Nat /\ HoldsIn(F, B, h, k, s) /\ BlockAt(F, h, k) \in Block
    BY <1>1, <1>3, <1>4, <1>12, <2>1
  <2>3. PieceAdded(F, G, B, C, h, k, s)
    BY <1>10, <1>11, <2>1 DEF PieceAdded
  <2>5. HoldsIn(G, C, h, k + 1, s) /\ BlockAt(G, h, k) = BlockAt(F, h, k)
    BY <2>2, <2>3, HoldsMore
  <2> QED BY <2>1, <2>5
<1> QED BY <1>2, <1>3, <1>4, <1>5, <1>9, <1>13

(* The loop goes on: with the next block of the chain, or with a new one. *)
LEMMA StoreSound ==
  ASSUME Sound, TypeOK', [Next]_vars, store_block
  PROVE  ContentsInv'
<1>1. CASE pc' = "off"
  <2>1. pc = "write" /\ Forgotten
    BY <1>1 DEF store_block, write_next, write_extend
  <2>2. Dead /\ UNCHANGED image
    BY <1>1, <2>1 DEF store_block, write_next, write_extend
  <2> QED BY <2>1, <2>2, GoneSound
<1>2. CASE pc' # "off"
  <2>1. PICK w, h, s, k : w = writing /\ h = file /\ s = expected[writing] /\ k = static_num - num
    OBVIOUS
  <2>2. /\ pc = "write" /\ num > 1 /\ pc' = "write" /\ num' = num - 1
        /\ bytes' = [bytes EXCEPT ![cur] = chunk]
        /\ UNCHANGED <<open, text, writing, expected, file, static_num, heads, image, intact>>
    BY <1>2 DEF store_block, write_next, write_extend, Dead
  <2>3. fat1' \in FatType /\ fat1 \in FatType /\ cur \in Block /\ cur' \in Block /\ intact
    BY <2>2, ContentsFacts DEF TypeOK
  <2>4. cur' = fat1'[cur] /\ \A b \in Block : b # cur /\ fat1[b] # FREE => fat1'[b] = fat1[b]
    <3>1. CASE write_next
      BY <2>3, <3>1 DEF write_next
    <3>2. CASE write_extend
      <4> DEFINE next == get_free(fat1, 1)
      <4>1. /\ next # -1 /\ fat1[cur] = END
            /\ fat1' = [fat1 EXCEPT ![cur] = next, ![next] = END] /\ cur' = next
        BY <1>2, <3>2 DEF write_extend, Dead
      <4>2. next \in Block /\ fat1[next] = FREE
        BY <2>3, <4>1, GetFreeFindsFree
      <4> HIDE DEF next
      <4>3. fat1 \in [Block -> Block \cup {END}] /\ END # FREE
        BY <2>3, SystemBlocks DEF FatType
      <4> QED BY <2>3, <4>1, <4>2, <4>3
    <3> QED BY <3>1, <3>2 DEF store_block
  <2>5. /\ w \in Made /\ h \in Roots /\ Linked(fat1, Roots) /\ Roots \subseteq Block
        /\ IsText(text, s) /\ static_num = BlocksOf(s) /\ open[w].first = h
        /\ static_num \in 1..MaxBlocks
    BY <2>1, <2>2, StoringText
  <2>6. \A b \in Chain(fat1, file) : b # cur => fat1'[b] = fat1[b]
    <3>1. file \in Block /\ fat1[file] # FREE
      BY <2>1, <2>5, LinkedParts
    <3>2. \A b \in Chain(fat1, file) : b \in Block /\ fat1[b] # FREE
      BY <2>3, <2>5, <3>1, ChainAllocated, ChainOf
    <3> QED BY <2>4, <3>2
  <2>7. /\ k \in Nat /\ num \in 1..static_num
        /\ bytes' \in [Block -> [1..BLOCK_SIZE -> Character]]
        /\ \A b \in Block : b \notin Chain(fat1, file) => bytes'[b] = bytes[b]
        /\ HoldsIn(fat1', bytes', h, k + 1, s) /\ BlockAt(fat1', h, k) = cur
    BY <2>1, <2>2, <2>3, <2>6, PieceStored
  <2>8. /\ ContentsTypeOK' /\ Undamaged' /\ FilesApart' /\ Made' = Made
        /\ \A g \in Made : g # writing => Settled(g)'
    <3>1. ContentsTypeOK
      BY ContentsFacts
    <3> QED BY <2>2, <2>7, <3>1, LoopFrame DEF ContentsTypeOK
  <2>9. Storing'
    <3>1. /\ static_num' - num' = k + 1 /\ num' \in 1..static_num'
          /\ expected'[w] = s /\ file' = h /\ writing' = w /\ text' = text
      BY <2>1, <2>2, <2>5, <2>7
    <3>2. BlockAt(fat1', h, k + 1) = cur'
      <4>1. BlockAt(fat1', h, k + 1) = After(fat1', BlockAt(fat1', h, k))
        BY <2>3, <2>5, <2>7, BlockAtNext
      <4> QED BY <2>3, <2>4, <2>7, <4>1 DEF After
    <3>3. Holds(h, k + 1, s)' /\ physics_block(h, k + 1)' = cur'
      BY <2>7, <3>2, HoldsThere
    <3>4. /\ \A i \in 1..Len(s) : text[i] = s[i]
          /\ text[Len(s) + 1] = NUL
      BY <2>5 DEF IsText
    <3> QED BY <2>2, <2>5, <2>8, <3>1, <3>3, <3>4 DEF Storing
  <2> QED BY <2>2, <2>8, <2>9 DEF ContentsInv
<1> QED BY <1>1, <1>2

(* do_write returns: the file has its text's length and its blocks hold it. *)
LEMMA WrittenSettled ==
  ASSUME Sound, pc \in {"write", "trim"}, Written, pc' = "cmd", UNCHANGED expected,
         HoldsIn(fat1', bytes', file, static_num, expected[writing])
  PROVE  /\ SettledIn(fat1', bytes', open', expected', writing)
         /\ text' \in [1..WRITE_SIZE -> Character]
         /\ open' \in [Files -> [first : Block, length : 0..(WRITE_SIZE - 1), count : Nat]]
         /\ \A g \in Files : open'[g].first = open[g].first
         /\ \A g \in Files : g # writing => open'[g].length = open[g].length
<1>1. PICK w, h, s : w = writing /\ h = file /\ s = expected[writing]
  OBVIOUS
<1>2. /\ w \in Files /\ open[w].first = h /\ IsText(text, s) /\ static_num = BlocksOf(s)
  BY <1>1, StoringText
<1>3. strlen(text) = Len(s)
  BY <1>2, Strlen
<1>4. Len(s) \in 0..(WRITE_SIZE - 1)
  BY <1>2, LenProperties, Sizes DEF IsText
<1>5. open' = [open EXCEPT ![w].length = Len(s)] /\ text' = NoText
  BY <1>1, <1>3 DEF Written
<1>6. open \in [Files -> [first : Block, length : 0..(WRITE_SIZE - 1), count : Nat]]
  BY ContentsFacts DEF ContentsTypeOK
<1>7. /\ open' \in [Files -> [first : Block, length : 0..(WRITE_SIZE - 1), count : Nat]]
      /\ open'[w].length = Len(s)
      /\ \A g \in Files : open'[g].first = open[g].first
      /\ \A g \in Files : g # w => open'[g].length = open[g].length
  BY <1>2, <1>4, <1>5, <1>6
<1>8. SettledIn(fat1', bytes', open', expected', w)
  <2>1. expected'[w] = s /\ open'[w].first = h /\ HoldsIn(fat1', bytes', h, BlocksOf(s), s)
    BY <1>1, <1>2, <1>7
  <2> QED BY <1>7, <2>1 DEF SettledIn
<1> QED BY <1>1, <1>5, <1>7, <1>8, NoTextIs

(* The last block of the text is stored; a longer chain is cut there. *)
LEMMA LastSound ==
  ASSUME Sound, TypeOK', [Next]_vars, store_last
  PROVE  ContentsInv'
<1>1. PICK w, h, s, k : w = writing /\ h = file /\ s = expected[writing] /\ k = static_num - num
  OBVIOUS
<1>2. /\ pc = "write" /\ num = 1 /\ pc' \in {"cmd", "trim"} /\ Written
      /\ bytes' = [bytes EXCEPT ![cur] = chunk]
      /\ UNCHANGED <<expected, heads, image, intact>>
      /\ fat1' = fat1 \/ fat1' = [fat1 EXCEPT ![cur] = END]
      /\ pc' = "trim" => UNCHANGED <<file, static_num>>
  BY DEF store_last, write_last, Idle
<1>3. fat1' \in FatType /\ fat1 \in FatType
  BY ContentsFacts DEF TypeOK
<1>4. /\ w \in Made /\ h \in Roots /\ Linked(fat1, Roots) /\ Roots \subseteq Block
      /\ IsText(text, s) /\ static_num = BlocksOf(s) /\ open[w].first = h
      /\ static_num \in 1..MaxBlocks
  BY <1>1, <1>2, StoringText
<1>5. \A b \in Chain(fat1, file) : b # cur => fat1'[b] = fat1[b]
  <2>1. \A b \in Chain(fat1, file) : b \in Block
    BY <1>1, <1>3, <1>4, ChainOf
  <2>2. \A b \in Block : b # cur => fat1'[b] = fat1[b]
    BY <1>2, <1>3 DEF FatType
  <2> QED BY <2>1, <2>2
<1>6. /\ k \in Nat
      /\ bytes' \in [Block -> [1..BLOCK_SIZE -> Character]]
      /\ \A b \in Block : b \notin Chain(fat1, file) => bytes'[b] = bytes[b]
      /\ HoldsIn(fat1', bytes', h, k + 1, s)
  BY <1>1, <1>2, <1>3, <1>5, PieceStored
<1>7. k + 1 = static_num
  BY <1>1, <1>2, <1>4
<1>8. HoldsIn(fat1', bytes', h, static_num, s)
  BY <1>6, <1>7
<1>9. CASE pc' = "cmd"
  <2>1. /\ SettledIn(fat1', bytes', open', expected', writing)
        /\ text' \in [1..WRITE_SIZE -> Character]
        /\ open' \in [Files -> [first : Block, length : 0..(WRITE_SIZE - 1), count : Nat]]
        /\ \A g \in Files : open'[g].first = open[g].first
        /\ \A g \in Files : g # writing => open'[g].length = open[g].length
    BY <1>1, <1>2, <1>8, <1>9, WrittenSettled
  <2>2. /\ ContentsTypeOK' /\ Undamaged' /\ FilesApart' /\ Made' = Made
        /\ \A g \in Made : g # writing => Settled(g)'
    BY <1>2, <1>6, <1>9, <2>1, LoopFrame
  <2>3. \A g \in Made' : Settled(g)'
    <3> TAKE g \in Made'
    <3>1. CASE g = w
      <4>1. SettledIn(fat1', bytes', open', expected', g)
        BY <1>1, <2>1, <3>1
      <4> QED BY <4>1, SettledHere
    <3>2. CASE g # w
      BY <1>1, <2>2, <3>2
    <3> QED BY <3>1, <3>2
  <2> QED BY <1>9, <2>2, <2>3 DEF ContentsInv
<1>10. CASE pc' = "trim"
  <2>1. UNCHANGED <<open, text, writing, file, static_num>>
    BY <1>2, <1>10 DEF Written
  <2>2. /\ ContentsTypeOK' /\ Undamaged' /\ FilesApart' /\ Made' = Made
        /\ \A g \in Made : g # writing => Settled(g)'
    <3>1. ContentsTypeOK
      BY ContentsFacts
    <3> QED BY <1>2, <1>6, <1>10, <2>1, <3>1, LoopFrame DEF ContentsTypeOK
  <2>3. Storing'
    <3>1. Holds(h, static_num, s)'
      <4>1. PICK n : n = static_num
        OBVIOUS
      <4>2. HoldsIn(fat1', bytes', h, n, s) /\ static_num' = n
        BY <1>8, <2>1, <4>1
      <4>3. Holds(h, n, s)'
        BY <4>2, HoldsThere
      <4> QED BY <4>2, <4>3, HoldsThere
    <3>2. expected'[w] = s /\ file' = h /\ writing' = w /\ text' = text /\ static_num' = BlocksOf(s)
      BY <1>1, <1>2, <1>4, <2>1
    <3>3. /\ \A i \in 1..Len(s) : text[i] = s[i]
          /\ text[Len(s) + 1] = NUL
      BY <1>4 DEF IsText
    <3> QED BY <1>4, <1>10, <2>1, <2>2, <3>1, <3>2, <3>3 DEF Storing
  <2> QED BY <1>10, <2>1, <2>2, <2>3 DEF ContentsInv
<1> QED BY <1>2, <1>9, <1>10

(* The rest of the longer chain is freed, which none of the file's blocks  *)
(* is in any more.                                                         *)
LEMMA TrimSound ==
  ASSUME Sound, TypeOK', [Next]_vars, trim
  PROVE  ContentsInv'
<1>1. PICK w, h, s, n : w = writing /\ h = file /\ s = expected[writing] /\ n = static_num
  OBVIOUS
<1>2. /\ pc = "trim" /\ pc' \in {"cmd", "trim"} /\ Written
      /\ UNCHANGED <<bytes, expected, heads, image, intact>>
      /\ fat1' = [fat1 EXCEPT ![cur] = FREE]
      /\ pc' = "trim" => UNCHANGED <<file, static_num>>
  BY DEF trim, trim_step, Idle
<1>3. /\ w \in Made /\ w \in Files /\ h \in heads /\ heads \subseteq Block /\ fat1 \in FatType
      /\ Linked(fat1, Roots) /\ Roots \subseteq Block /\ h \in Roots
      /\ IsText(text, s) /\ n = BlocksOf(s) /\ n \in 1..MaxBlocks
      /\ open[w].first = h
  BY <1>1, <1>2, StoringText
<1>4. cur \in Block /\ cur \notin heads /\ Roots = heads \cup {cur}
  <2>1. TypeOK /\ DiskInv /\ intact
    BY ContentsFacts, <1>2
  <2> QED BY <1>2, <2>1, MemoryFacts
<1>5. fat1' \in FatType
  BY DEF TypeOK
<1>6. Sets(fat1', fat1, cur, FREE)
  BY <1>2, <1>3, <1>4 DEF Sets, FatType
<1>7. \A b \in Chain(fat1, h) : fat1'[b] = fat1[b]
  BY <1>3, <1>4, <1>5, <1>6, FileUntouched
<1>8. HoldsIn(fat1, bytes, h, n, s)
  <2>1. Holds(h, n, s)
    BY <1>1, <1>2, ContentsFacts DEF Storing
  <2> QED BY <2>1, HoldsHere
<1>9. HoldsIn(fat1', bytes', h, n, s)
  <2>1. \A b \in Chain(fat1, h) : fat1'[b] = fat1[b] /\ bytes'[b] = bytes[b]
    BY <1>2, <1>7
  <2>2. n \in Nat
    BY <1>3
  <2> QED BY <1>3, <1>5, <1>8, <2>1, <2>2, HoldsKept
<1>10. ContentsTypeOK /\ bytes' \in [Block -> [1..BLOCK_SIZE -> Character]]
  BY <1>2, ContentsFacts DEF ContentsTypeOK
<1>11. CASE pc' = "cmd"
  <2>1. /\ SettledIn(fat1', bytes', open', expected', writing)
        /\ text' \in [1..WRITE_SIZE -> Character]
        /\ open' \in [Files -> [first : Block, length : 0..(WRITE_SIZE - 1), count : Nat]]
        /\ \A g \in Files : open'[g].first = open[g].first
        /\ \A g \in Files : g # writing => open'[g].length = open[g].length
    BY <1>1, <1>2, <1>9, <1>11, WrittenSettled
  <2>2. /\ ContentsTypeOK' /\ Undamaged' /\ FilesApart' /\ Made' = Made
        /\ \A g \in Made : g # writing => Settled(g)'
    BY <1>2, <1>10, <1>11, <2>1, LoopFrame
  <2>3. \A g \in Made' : Settled(g)'
    <3> TAKE g \in Made'
    <3>1. CASE g = w
      <4>1. SettledIn(fat1', bytes', open', expected', g)
        BY <1>1, <2>1, <3>1
      <4> QED BY <4>1, SettledHere
    <3>2. CASE g # w
      BY <1>1, <2>2, <3>2
    <3> QED BY <3>1, <3>2
  <2> QED BY <1>11, <2>2, <2>3 DEF ContentsInv
<1>12. CASE pc' = "trim"
  <2>1. UNCHANGED <<open, text, writing, file, static_num>>
    BY <1>2, <1>12 DEF Written
  <2>2. /\ ContentsTypeOK' /\ Undamaged' /\ FilesApart' /\ Made' = Made
        /\ \A g \in Made : g # writing => Settled(g)'
    BY <1>2, <1>10, <1>12, <2>1, LoopFrame DEF ContentsTypeOK
  <2>3. Storing'
    <3>1. Holds(h, n, s)' /\ static_num' = n
      BY <1>1, <1>9, <2>1, HoldsThere
    <3>2. expected'[w] = s /\ file' = h /\ writing' = w /\ text' = text
      BY <1>1, <1>2, <2>1
    <3>3. /\ \A i \in 1..Len(s) : text[i] = s[i]
          /\ text[Len(s) + 1] = NUL
      BY <1>3 DEF IsText
    <3> QED BY <1>3, <1>12, <2>1, <2>2, <3>1, <3>2, <3>3 DEF Storing
  <2> QED BY <1>12, <2>1, <2>2, <2>3 DEF ContentsInv
<1> QED BY <1>2, <1>11, <1>12

(* Where nothing changes the invariant holds on. *)
LEMMA StutterSound ==
  ASSUME ContentsInv, UNCHANGED everything
  PROVE  ContentsInv'
<1>1. /\ UNCHANGED <<fat1, pc, cur, file, num, static_num, image, heads, intact>>
      /\ UNCHANGED <<bytes, open, text, writing, commands, expected>>
  BY DEF everything, vars, loopVars, contentVars
<1>2. Made' = Made
  BY <1>1 DEF Made
<1>3. ContentsTypeOK' /\ Undamaged' /\ FilesApart'
  BY <1>1, <1>2 DEF ContentsInv, ContentsTypeOK, Undamaged, FilesApart
<1>4. pc \in {"write", "trim"} => Storing'
  <2>1. PICK w, h, s, m, n : w = writing /\ h = file /\ s = expected[w] /\ m = static_num /\ n = m - num
    OBVIOUS
  <2>2. /\ \A k : physics_block(h, k)' = physics_block(h, k)
        /\ \A k : Holds(h, k, s)' <=> Holds(h, k, s)
    BY <1>1, HoldsThere, HoldsHere, PhysicsBlock
  <2>3. /\ writing' = w /\ file' = h /\ expected'[w] = s /\ static_num' = m
        /\ m - num' = n /\ static_num - num = n
    BY <1>1, <2>1
  <2> QED BY <1>1, <1>2, <2>1, <2>2, <2>3 DEF ContentsInv, Storing
<1>5. \A g \in Made : Settled(g)' <=> Settled(g)
  BY <1>1, SettledHere
<1> QED BY <1>1, <1>2, <1>3, <1>4, <1>5 DEF ContentsInv

(* Each command, and each iteration of its loops, keeps the invariant. *)
LEMMA NextSound ==
  ASSUME Sound, [ContentsNext]_everything
  PROVE  Sound'
<1>1. [Next]_vars
  BY StepDrivesDisk
<1>2. TypeOK' /\ DiskInv'
  <2>1. TypeOK /\ DiskInv
    BY ContentsFacts
  <2> QED BY <1>1, <2>1, NextTypeOK, NextDiskInv
<1>3. ASSUME ContentsNext PROVE ContentsInv'
  <2>1. CASE boot
    BY <2>1, BootSound
  <2>2. CASE \E f \in Files : my_create(f) \/ reopen(f)
    <3>1. PICK f \in Files : my_create(f) \/ reopen(f)
      BY <2>2
    <3>2. CASE my_create(f)
      BY <1>2, <3>2, CreateSound
    <3>3. CASE reopen(f)
      <4>1. /\ pc = "cmd" /\ f \in Made /\ open' = [open EXCEPT ![f].count = 0]
            /\ UNCHANGED <<vars, bytes, text, writing, expected>> /\ 0 \in Nat
        BY <3>3 DEF reopen, Typed
      <4> QED BY <4>1, CountSound
    <3> QED BY <3>1, <3>2, <3>3
  <2>3. CASE Reading
    BY <2>3, ReadingSound
  <2>4. CASE Writing
    BY <2>4, WritingGiven, WritingSound
  <2>5. CASE store_block
    BY <1>1, <1>2, <2>5, StoreSound
  <2>6. CASE store_last
    BY <1>1, <1>2, <2>6, LastSound
  <2>7. CASE trim
    BY <1>1, <1>2, <2>7, TrimSound
  <2> QED BY <1>3, <2>1, <2>2, <2>3, <2>4, <2>5, <2>6, <2>7 DEF ContentsNext
<1>4. ContentsInv'
  BY <1>3, StutterSound DEF Sound
<1> QED BY <1>2, <1>4 DEF Sound
-----------------------------------------------------------------------------
(* The theorems *)

(* Whatever is created, written, covered, appended to and read, with a     *)
(* process that may die in the middle, the invariant holds: each file has a *)
(* chain of its own, which holds its text in order; in the middle of       *)
(* do_write the blocks behind `cur' hold theirs (simplefs.c:881-952).      *)
THEOREM ContentsInductive == ContentsSpec => []Sound
<1>1. ContentsInit => Sound
  BY ContentsInitSound
<1>2. Sound /\ [ContentsNext]_everything => Sound'
  BY NextSound
<1> QED BY <1>1, <1>2, PTL DEF ContentsSpec

(* The invariant the run `contents' checks, for every disk and every size  *)
(* of block.                                                               *)
THEOREM EveryFileHolds == ContentsSpec => []ContentsInv
<1>1. Sound => ContentsInv
  BY DEF Sound
<1> QED BY <1>1, ContentsInductive, PTL

(* At the prompt the chain of every file holds, in order, the text that    *)
(* do_write composed for it last (simplefs.c:881-952), whatever the size   *)
(* of disk and block.                                                      *)
THEOREM TextStored == ContentsSpec => []StoredText
<1>1. Sound => StoredText
  <2>1. CASE Sound /\ pc = "cmd"
    BY <2>1, Prompt, ContentsFacts, StoredTextHere
  <2>2. CASE pc # "cmd"
    BY <2>2 DEF StoredText
  <2> QED BY <2>1, <2>2
<1> QED BY <1>1, ContentsInductive, PTL

(* What do_write composes is what the user asked for (simplefs.c:885-910): *)
(* of a write, of a cover within the text, of an append at its end.        *)
THEOREM WritesAreMeant == ContentsSpec => WritesMeant
<1> DEFINE Meaning ==
      \A f \in Files, input \in Inputs :
        /\ my_write(f, "w", 0, input) => expected'[f] = Meant("w", expected[f], 0, input)
        /\ \A at \in Positions :
             at <= Len(expected[f]) /\ my_write(f, "c", at, input) =>
               expected'[f] = Meant("c", expected[f], at, input)
        /\ open[f].count = open[f].length /\ my_write(f, "a", 0, input) =>
             expected'[f] = Meant("a", expected[f], 0, input)
<1>1. Sound => Meaning
  <2> SUFFICES ASSUME Sound, NEW f \in Files, NEW input \in Inputs
               PROVE  /\ my_write(f, "w", 0, input) => expected'[f] = Meant("w", expected[f], 0, input)
                      /\ \A at \in Positions :
                           at <= Len(expected[f]) /\ my_write(f, "c", at, input) =>
                             expected'[f] = Meant("c", expected[f], at, input)
                      /\ open[f].count = open[f].length /\ my_write(f, "a", 0, input) =>
                           expected'[f] = Meant("a", expected[f], 0, input)
    OBVIOUS
  <2>1. ASSUME NEW mode \in {"w", "a", "c"}, NEW at \in Nat, my_write(f, mode, at, input)
        PROVE  LET count == IF mode = "c" THEN at ELSE open[f].count
               IN  expected'[f] = Composes(mode, expected[f], count, input)
    <3>1. LET count == IF mode = "c" THEN at ELSE open[f].count
          IN  expected' = [expected EXCEPT ![f] = Composes(mode, expected[f], count, input)]
      BY <2>1, WritesText
    <3>2. DOMAIN expected = Files
      BY ContentsFacts DEF ContentsTypeOK
    <3> QED BY <3>1, <3>2
  <2>2. my_write(f, "w", 0, input) => expected'[f] = Meant("w", expected[f], 0, input)
    <3>1. ASSUME my_write(f, "w", 0, input)
          PROVE  expected'[f] = Composes("w", expected[f], open[f].count, input)
      BY <2>1, <3>1
    <3> QED BY <3>1 DEF Composes, Meant
  <2>3. ASSUME NEW at \in Positions, at <= Len(expected[f]), my_write(f, "c", at, input)
        PROVE  expected'[f] = Meant("c", expected[f], at, input)
    <3>1. expected'[f] = Composes("c", expected[f], at, input)
      BY <2>1, <2>3, PositionIs
    <3>2. expected[f] \in Seq(Character) /\ at \in Nat
      BY <2>3, PositionIs, ContentsFacts DEF ContentsTypeOK
    <3>3. ~(at > Len(expected[f]))
      BY <2>3, <3>2
    <3> QED BY <3>1, <3>3 DEF Composes, Meant
  <2>4. ASSUME open[f].count = open[f].length, my_write(f, "a", 0, input)
        PROVE  expected'[f] = Meant("a", expected[f], 0, input)
    <3>1. expected'[f] = Composes("a", expected[f], open[f].count, input)
      BY <2>1, <2>4
    <3>2. f \in Made /\ pc = "cmd"
      BY <2>4 DEF my_write, Typed
    <3>3. open[f].count = Len(expected[f]) /\ expected[f] \in Seq(Character)
      BY <2>4, <3>2, ContentsFacts DEF Settled, ContentsTypeOK
    <3>4. ~(Len(expected[f]) > Len(expected[f]))
          /\ SubSeq(expected[f], 1, Len(expected[f])) = expected[f]
      BY <3>3, SubSeqFull
    <3> QED BY <3>1, <3>3, <3>4 DEF Composes, Meant
  <2> QED BY <2>2, <2>3, <2>4
<1>2. Sound /\ [ContentsNext]_everything => [Meaning]_everything
  BY <1>1
<1>3. ContentsSpec => [][Meaning]_everything
  BY <1>2, ContentsInductive, PTL DEF ContentsSpec
<1> QED BY <1>3 DEF WritesMeant

(* do_read shows the whole text of a file, what it was asked for from a    *)
(* block's beginning or within a block, and never anything that is not the *)
(* beginning of what it was asked for (simplefs.c:1047-1084).              *)
THEOREM ReadsAreRight == ContentsSpec => []ReadsRight
<1>1. Sound => ReadsRight
  <2>1. CASE Sound /\ pc = "cmd"
    BY <2>1, Prompt, ContentsFacts, ReadsRightHere
  <2>2. CASE pc # "cmd"
    BY <2>2 DEF ReadsRight
  <2> QED BY <2>1, <2>2
<1> QED BY <1>1, ContentsInductive, PTL
=============================================================================
