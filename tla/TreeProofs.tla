----------------------------- MODULE TreeProofs -----------------------------
(***************************************************************************)
(* Theorems of module SimpleFS about what is on the disk, for disks,       *)
(* tables and paths of any size: the folders form a tree whose entries     *)
(* share out the areas of the disk, what is open is in it, and lengths     *)
(* agree with chains.                                                      *)
(***************************************************************************)
EXTENDS FsProofs
LOCAL INSTANCE SequencesExt

(* What FolderBlocks' walk adds to the folders it has seen. *)
Deeper(blocks, seen) == seen \cup UNION {Subfolders(blocks, b) : b \in seen}

LEMMA SubfoldersType ==
  ASSUME NEW blocks \in Blocks, NEW b \in Block
  PROVE  /\ Subfolders(blocks, b) \subseteq Block
         /\ \A c : c \in Subfolders(blocks, b) <=>
              \E s \in Slot : /\ blocks[b][s].used /\ blocks[b][s].attribute = Folder
                              /\ blocks[b][s].name \notin Dots /\ blocks[b][s].first = c
<1>1. \A s \in Slot : blocks[b][s] \in FcbType
  BY DEF Blocks
<1>2. \A s \in Slot : blocks[b][s].first \in Block
  BY <1>1, FcbFields
<1> QED BY <1>2 DEF Subfolders

LEMMA DeeperType ==
  ASSUME NEW blocks \in Blocks, NEW seen \in SUBSET Block
  PROVE  Deeper(blocks, seen) \in SUBSET Block /\ seen \subseteq Deeper(blocks, seen)
BY SubfoldersType DEF Deeper

(* The walk of FolderBlocks exists: its equation holds at each step. *)
LEMMA FolderWalk ==
  ASSUME NEW blocks \in Blocks
  PROVE  \E w \in [0..NumBlocks -> SUBSET Block] :
           /\ w[0] = {RootBlock}
           /\ \A i \in 1..NumBlocks : w[i] = Deeper(blocks, w[i - 1])
           /\ FolderBlocks(blocks) = w[NumBlocks]
<1> DEFINE down[n \in 0..NumBlocks] ==
             IF n = 0 THEN {RootBlock}
             ELSE LET above == down[n - 1]
                  IN  above \cup UNION {Subfolders(blocks, b) : b \in above}
           F == [s \in Nat \X SUBSET Block |-> Deeper(blocks, s[2])]
<1>1. F \in [Nat \X SUBSET Block -> SUBSET Block]
  BY DeeperType
<1>2. PICK w \in [0..NumBlocks -> SUBSET Block] :
        w[0] = {RootBlock} /\ \A i \in 1..NumBlocks : w[i] = F[<<i, w[i - 1]>>]
  <2>1. {RootBlock} \in SUBSET Block /\ NumBlocks \in Nat
    BY DiskSize, RootIsBlock
  <2> HIDE DEF F, down
  <2>2. \E w : Walks(w, NumBlocks, F, {RootBlock}, SUBSET Block)
    BY <1>1, <2>1, WalkExists
  <2> QED BY <2>2 DEF Walks
<1>3. \A i \in 1..NumBlocks : i - 1 \in 0..NumBlocks /\ i \in 0..NumBlocks /\ i # 0
  BY DiskSize
<1>4. ASSUME NEW i \in 1..NumBlocks PROVE w[i] = Deeper(blocks, w[i - 1])
  <2> HIDE DEF F
  <2>1. i \in Nat /\ i - 1 \in 0..NumBlocks
    BY <1>3
  <2>2. w[i - 1] \in SUBSET Block
    BY <2>1
  <2>3. w[i] = F[<<i, w[i - 1]>>]
    BY <1>2
  <2>4. F[<<i, w[i - 1]>>] = Deeper(blocks, w[i - 1])
    BY <2>1, <2>2 DEF F
  <2> QED BY <2>3, <2>4
<1>5. w = [n \in 0..NumBlocks |->
             IF n = 0 THEN {RootBlock}
             ELSE w[n - 1] \cup UNION {Subfolders(blocks, b) : b \in w[n - 1]}]
  <2>1. w = [n \in 0..NumBlocks |-> w[n]]
    BY <1>2
  <2>2. \A n \in 0..NumBlocks : n = 0 \/ n \in 1..NumBlocks
    BY DiskSize
  <2>3. \A n \in 0..NumBlocks :
          w[n] = IF n = 0 THEN {RootBlock}
                 ELSE w[n - 1] \cup UNION {Subfolders(blocks, b) : b \in w[n - 1]}
    BY <1>2, <1>4, <2>2 DEF Deeper
  <2> QED BY <2>1, <2>3
<1>6. down = CHOOSE f : f = [n \in 0..NumBlocks |->
             IF n = 0 THEN {RootBlock}
             ELSE f[n - 1] \cup UNION {Subfolders(blocks, b) : b \in f[n - 1]}]
  OBVIOUS
<1>7. FolderBlocks(blocks) = down[NumBlocks]
  BY DEF FolderBlocks
<1> HIDE DEF down
<1>8. down = [n \in 0..NumBlocks |->
             IF n = 0 THEN {RootBlock}
             ELSE down[n - 1] \cup UNION {Subfolders(blocks, b) : b \in down[n - 1]}]
  BY <1>5, <1>6
<1>9. ASSUME NEW i \in 0..NumBlocks PROVE down[i] = w[i]
  <2> DEFINE S == {n \in Nat : n <= NumBlocks => down[n] = w[n]}
  <2>1. 0 \in S
    <3>1. 0 \in 0..NumBlocks
      BY DiskSize
    <3>2. down[0] = {RootBlock}
      BY <1>8, <3>1, Zenon
    <3> QED BY <1>2, <3>2
  <2>2. ASSUME NEW n \in Nat, n \in S PROVE n + 1 \in S
    <3>1. SUFFICES ASSUME n + 1 <= NumBlocks PROVE down[n + 1] = w[n + 1]
      OBVIOUS
    <3>2. /\ n + 1 \in 1..NumBlocks /\ n + 1 \in 0..NumBlocks
          /\ (n + 1) - 1 = n /\ n + 1 # 0 /\ down[n] = w[n]
      BY <2>2, <3>1, DiskSize
    <3>3. down[n + 1] = Deeper(blocks, down[n])
      BY <1>8, <3>2 DEF Deeper
    <3>4. w[n + 1] = Deeper(blocks, w[n])
      BY <1>4, <3>2
    <3> QED BY <3>2, <3>3, <3>4
  <2> HIDE DEF S
  <2>3. \A n \in Nat : n \in S
    BY <2>1, <2>2, Induction
  <2>4. i \in Nat /\ i <= NumBlocks
    BY DiskSize
  <2> QED BY <2>3, <2>4 DEF S
<1>10. NumBlocks \in 0..NumBlocks
  BY DiskSize
<1> QED BY <1>2, <1>4, <1>7, <1>9, <1>10

(* Whether the folders in blocks of X are in X. *)
Inside(blocks, X) == \A b \in X : Subfolders(blocks, b) \subseteq X

(* The folders that can be reached are the least set with the root and     *)
(* what is in its members.                                                 *)
LEMMA FolderLeast ==
  ASSUME NEW blocks \in Blocks
  PROVE  /\ RootBlock \in FolderBlocks(blocks) /\ FolderBlocks(blocks) \subseteq Block
         /\ Inside(blocks, FolderBlocks(blocks))
         /\ \A X : RootBlock \in X /\ Inside(blocks, X) => FolderBlocks(blocks) \subseteq X
<1>1. PICK w \in [0..NumBlocks -> SUBSET Block] :
        /\ w[0] = {RootBlock}
        /\ \A i \in 1..NumBlocks : w[i] = Deeper(blocks, w[i - 1])
        /\ FolderBlocks(blocks) = w[NumBlocks]
  BY FolderWalk
<1> DEFINE G == [seen \in SUBSET Block |-> Deeper(blocks, seen)]
<1>2. ASSUME NEW i \in 1..NumBlocks PROVE w[i] = G[w[i - 1]] /\ w[i - 1] \subseteq w[i]
  <2>1. i - 1 \in 0..NumBlocks
    BY DiskSize
  <2>2. w[i - 1] \in SUBSET Block /\ w[i] = Deeper(blocks, w[i - 1])
    BY <1>1, <2>1
  <2> QED BY <2>2, DeeperType
<1>3. NumBlocks \in 0..NumBlocks
  BY DiskSize
<1>4. w[NumBlocks] \in SUBSET Block /\ G[w[NumBlocks]] = Deeper(blocks, w[NumBlocks])
  BY <1>3
<1> HIDE DEF G
<1>5. G[w[NumBlocks]] = w[NumBlocks] /\ {RootBlock} \subseteq w[NumBlocks]
  BY <1>1, <1>2, GrowthStops
<1>6. Inside(blocks, w[NumBlocks])
  BY <1>4, <1>5 DEF Deeper, Inside
<1>7. ASSUME NEW X, RootBlock \in X, Inside(blocks, X) PROVE w[NumBlocks] \subseteq X
  <2> DEFINE S == {n \in Nat : n <= NumBlocks => w[n] \subseteq X}
  <2>1. 0 \in S
    BY <1>1, <1>7
  <2>2. ASSUME NEW n \in Nat, n \in S PROVE n + 1 \in S
    <3>1. SUFFICES ASSUME n + 1 <= NumBlocks PROVE w[n + 1] \subseteq X
      OBVIOUS
    <3>2. n + 1 \in 1..NumBlocks /\ (n + 1) - 1 = n /\ w[n] \subseteq X
      BY <2>2, <3>1, DiskSize
    <3>3. w[n + 1] = Deeper(blocks, w[n])
      BY <1>1, <3>2
    <3> QED BY <1>7, <3>2, <3>3 DEF Deeper, Inside
  <2> HIDE DEF S
  <2>3. \A n \in Nat : n \in S
    BY <2>1, <2>2, Induction
  <2>4. NumBlocks \in S /\ NumBlocks \in Nat
    BY <2>3, DiskSize
  <2> QED BY <2>4 DEF S
<1> QED BY <1>1, <1>4, <1>5, <1>6, <1>7
-----------------------------------------------------------------------------
(* Trees *)

LEMMA ItemsIn ==
  ASSUME NEW blocks, NEW p
  PROVE  p \in Items(blocks) <=>
           /\ p \in FolderBlocks(blocks) \X Slot
           /\ Entry(blocks, p).used /\ Entry(blocks, p).name \notin Dots
BY DEF Items

LEMMA ItemsType ==
  ASSUME NEW blocks \in Blocks, NEW p \in FolderBlocks(blocks) \X Slot
  PROVE  /\ p \in Places /\ p[1] \in FolderBlocks(blocks) /\ p[1] \in Block /\ p[2] \in Slot
         /\ p = <<p[1], p[2]>>
         /\ Entry(blocks, p) \in FcbType /\ Entry(blocks, p).first \in Block
<1>1. p \in Places
  BY FolderLeast DEF Places
<1> QED BY <1>1, NowhereElse, EntryType

(* Where the folder of an item is, is a folder. *)
LEMMA ItemInside ==
  ASSUME NEW blocks \in Blocks, NEW p \in Items(blocks), Entry(blocks, p).attribute = Folder
  PROVE  Entry(blocks, p).first \in FolderBlocks(blocks)
<1>1. p \in FolderBlocks(blocks) \X Slot /\ Entry(blocks, p).used /\ Entry(blocks, p).name \notin Dots
  BY ItemsIn
<1>2. p[1] \in FolderBlocks(blocks) /\ p[1] \in Block /\ p[2] \in Slot
  BY <1>1, ItemsType
<1>3. Entry(blocks, p).first \in Subfolders(blocks, p[1])
  BY <1>1, <1>2, SubfoldersType DEF Entry
<1> QED BY <1>2, <1>3, FolderLeast DEF Inside

LEMMA FolderOfItem ==
  ASSUME NEW blocks \in Blocks, NEW b \in FolderBlocks(blocks), b # RootBlock
  PROVE  \E p \in Items(blocks) : Entry(blocks, p).attribute = Folder /\ Entry(blocks, p).first = b
<1> DEFINE X == {RootBlock} \cup
                {c \in FolderBlocks(blocks) : \E p \in Items(blocks) :
                   Entry(blocks, p).attribute = Folder /\ Entry(blocks, p).first = c}
<1>1. ASSUME NEW d \in X, NEW c \in Subfolders(blocks, d) PROVE c \in X
  <2>1. d \in FolderBlocks(blocks) /\ d \in Block
    BY FolderLeast
  <2>2. c \in FolderBlocks(blocks)
    BY <2>1, FolderLeast DEF Inside
  <2>3. PICK s \in Slot : /\ blocks[d][s].used /\ blocks[d][s].attribute = Folder
                          /\ blocks[d][s].name \notin Dots /\ blocks[d][s].first = c
    BY <2>1, SubfoldersType
  <2>4. Entry(blocks, <<d, s>>) = blocks[d][s] /\ <<d, s>> \in FolderBlocks(blocks) \X Slot
    BY <2>1 DEF Entry
  <2>5. <<d, s>> \in Items(blocks)
    BY <2>3, <2>4, ItemsIn
  <2> QED BY <2>2, <2>3, <2>4, <2>5
<1>2. RootBlock \in X /\ Inside(blocks, X)
  BY <1>1 DEF Inside
<1> HIDE DEF X
<1>3. b \in X
  BY <1>2, FolderLeast
<1> QED BY <1>3 DEF X

(* What a tree is, said of its folders and of the entries in them. *)
LEMMA TreeFacts ==
  ASSUME NEW blocks \in Blocks, NEW areas, SystemHeads \subseteq areas, Tree(blocks, areas)
  PROVE  /\ FolderBlocks(blocks) \subseteq areas
         /\ \A b \in FolderBlocks(blocks) : b # RootBlock => b \notin SystemHeads
         /\ \A b \in FolderBlocks(blocks) :
              /\ blocks[b][1].used /\ blocks[b][1].name = Dot /\ blocks[b][1].first = b
              /\ blocks[b][2].used /\ blocks[b][2].name = DotDot
              /\ blocks[b][2].first \in FolderBlocks(blocks)
         /\ \A p \in FolderBlocks(blocks) \X Slot : Entry(blocks, p).used =>
              /\ Entry(blocks, p).name \in Dots =>
                   /\ p[2] \in {1, 2} /\ Entry(blocks, p).attribute = Folder
              /\ Entry(blocks, p).name \notin Dots => p \in Items(blocks) /\ p[2] \notin {1, 2}
              /\ Entry(blocks, p).attribute = Folder => Entry(blocks, p).first \in FolderBlocks(blocks)
         /\ \A p \in Items(blocks) :
              /\ Entry(blocks, p).first \in areas \ SystemHeads
              /\ Entry(blocks, p).attribute # Folder => Entry(blocks, p).first \notin FolderBlocks(blocks)
         /\ \A p, q \in Items(blocks) : Entry(blocks, p).first = Entry(blocks, q).first => p = q
<1> DEFINE T == FolderBlocks(blocks)
<1>0. RootBlock \in T /\ T \subseteq Block /\ RootBlock \in SystemHeads
  BY FolderLeast DEF RootBlock, SystemHeads
<1>1. /\ \A p, q \in Items(blocks) : Entry(blocks, p).first = Entry(blocks, q).first => p = q
      /\ {Entry(blocks, p).first : p \in Items(blocks)} = areas \ SystemHeads
      /\ \A b \in T : blocks[b][1].used /\ blocks[b][1].name = Dot /\ blocks[b][1].first = b
      /\ \A p \in Items(blocks) : Entry(blocks, p).attribute = Folder =>
           LET up == blocks[Entry(blocks, p).first][2]
           IN  up.used /\ up.name = DotDot /\ up.first = p[1]
  BY DEF Tree, TreeOf
<1>2. /\ blocks[RootBlock][2].used /\ blocks[RootBlock][2].name = DotDot
      /\ blocks[RootBlock][2].first = RootBlock
      /\ \A p \in T \X Slot :
           Entry(blocks, p).used /\ Entry(blocks, p).name \in Dots =>
             p[2] \in {1, 2} /\ Entry(blocks, p).attribute = Folder
  BY DEF Tree, DotsFirst
<1>3. ASSUME NEW b \in T, b # RootBlock
      PROVE  /\ b \in areas \ SystemHeads
             /\ blocks[b][2].used /\ blocks[b][2].name = DotDot /\ blocks[b][2].first \in T
  <2>1. PICK p \in Items(blocks) : Entry(blocks, p).attribute = Folder /\ Entry(blocks, p).first = b
    BY <1>3, FolderOfItem
  <2>2. p[1] \in T
    BY ItemsIn, ItemsType
  <2> QED BY <1>1, <2>1, <2>2
<1>4. ASSUME NEW b \in T
      PROVE  blocks[b][2].used /\ blocks[b][2].name = DotDot /\ blocks[b][2].first \in T
  BY <1>0, <1>2, <1>3
<1>5. ASSUME NEW p \in T \X Slot, Entry(blocks, p).used, Entry(blocks, p).name \notin Dots
      PROVE  p \in Items(blocks) /\ p[2] \notin {1, 2}
  <2>1. p[1] \in T
    BY ItemsType
  <2>2. blocks[p[1]][1].name \in Dots /\ blocks[p[1]][2].name \in Dots
    BY <1>1, <1>4, <2>1 DEF Dots
  <2> QED BY <1>5, <2>2, ItemsIn DEF Entry
<1>6. ASSUME NEW p \in T \X Slot, Entry(blocks, p).used, Entry(blocks, p).attribute = Folder
      PROVE  Entry(blocks, p).first \in T
  <2>1. CASE Entry(blocks, p).name \notin Dots
    BY <1>5, <1>6, <2>1, ItemInside
  <2>2. CASE Entry(blocks, p).name \in Dots
    <3>1. p[2] = 1 \/ p[2] = 2
      BY <1>2, <1>6, <2>2
    <3>2. p[1] \in T
      BY ItemsType
    <3> QED BY <1>1, <1>4, <3>1, <3>2 DEF Entry
  <2> QED BY <2>1, <2>2
<1>7. ASSUME NEW p \in Items(blocks)
      PROVE  /\ Entry(blocks, p).first \in areas \ SystemHeads
             /\ Entry(blocks, p).attribute # Folder => Entry(blocks, p).first \notin T
  <2>1. Entry(blocks, p).first \in areas \ SystemHeads
    BY <1>1
  <2>2. SUFFICES ASSUME Entry(blocks, p).first \in T PROVE Entry(blocks, p).attribute = Folder
    BY <2>1
  <2>3. PICK q \in Items(blocks) :
          Entry(blocks, q).attribute = Folder /\ Entry(blocks, q).first = Entry(blocks, p).first
    BY <1>0, <2>1, <2>2, FolderOfItem
  <2> QED BY <1>1, <2>3
<1>8. \A b \in T : b \in areas /\ (b # RootBlock => b \notin SystemHeads)
  BY <1>0, <1>3
<1> QED BY <1>1, <1>2, <1>4, <1>5, <1>6, <1>7, <1>8

(* Entries that differ in nothing but the length. *)
Alike(e, f) ==
  e.name = f.name /\ e.exname = f.exname /\ e.attribute = f.attribute
  /\ e.first = f.first /\ e.used = f.used

(* A tree is one whatever becomes of the other blocks and of the lengths.  *)
LEMMA TreeAlike ==
  ASSUME NEW blocks \in Blocks, NEW others \in Blocks,
         \A b \in FolderBlocks(blocks), s \in Slot : Alike(blocks[b][s], others[b][s])
  PROVE  /\ FolderBlocks(others) = FolderBlocks(blocks)
         /\ Items(others) = Items(blocks)
         /\ \A p \in Items(blocks) : Alike(Entry(blocks, p), Entry(others, p))
         /\ \A areas : Tree(blocks, areas) => Tree(others, areas)
<1> DEFINE T == FolderBlocks(blocks)
<1>1. ASSUME NEW b \in T PROVE Subfolders(others, b) = Subfolders(blocks, b)
  <2>1. b \in Block
    BY FolderLeast
  <2>2. \A c : c \in Subfolders(others, b) <=> c \in Subfolders(blocks, b)
    BY <2>1, SubfoldersType DEF Alike
  <2> QED BY <2>2
<1>2. FolderBlocks(others) \subseteq T
  BY <1>1, FolderLeast DEF Inside
<1>3. T \subseteq FolderBlocks(others)
  <2>1. Inside(blocks, FolderBlocks(others))
    BY <1>1, <1>2, FolderLeast DEF Inside
  <2> QED BY <2>1, FolderLeast
<1>4. FolderBlocks(others) = T
  BY <1>2, <1>3
<1>5. ASSUME NEW p \in T \X Slot PROVE Alike(Entry(blocks, p), Entry(others, p))
  BY ItemsType DEF Entry
<1>6. Items(others) = Items(blocks)
  BY <1>4, <1>5 DEF Items, Alike
<1>7. \A p \in Items(blocks) : p \in T \X Slot
  BY ItemsIn
<1>8. ASSUME NEW areas, Tree(blocks, areas) PROVE Tree(others, areas)
  <2>0. RootBlock \in T
    BY FolderLeast
  <2>1. ASSUME NEW p \in Items(blocks), NEW q \in Items(blocks),
               Entry(others, p).first = Entry(others, q).first
        PROVE  p = q
    BY <1>5, <1>7, <1>8, <2>1 DEF Alike, Tree, TreeOf
  <2>2. {Entry(others, p).first : p \in Items(blocks)} = areas \ SystemHeads
    <3>1. {Entry(blocks, p).first : p \in Items(blocks)} = areas \ SystemHeads
      BY <1>8 DEF Tree, TreeOf
    <3>2. \A p \in Items(blocks) : Entry(others, p).first = Entry(blocks, p).first
      BY <1>5, <1>7 DEF Alike
    <3> QED BY <3>1, <3>2
  <2>3. ASSUME NEW b \in T PROVE others[b][1].used /\ others[b][1].name = Dot /\ others[b][1].first = b
    BY <1>8, FirstSlots DEF Alike, Tree, TreeOf
  <2>4. ASSUME NEW p \in Items(blocks), Entry(others, p).attribute = Folder
        PROVE  LET up == others[Entry(others, p).first][2]
               IN  up.used /\ up.name = DotDot /\ up.first = p[1]
    <3>1. Alike(Entry(blocks, p), Entry(others, p))
      BY <1>5, <1>7
    <3>2. Entry(blocks, p).first \in T
      BY <2>4, <3>1, ItemInside DEF Alike
    <3>3. Alike(blocks[Entry(blocks, p).first][2], others[Entry(blocks, p).first][2])
      BY <3>2, FirstSlots
    <3> QED BY <1>8, <2>4, <3>1, <3>3 DEF Alike, Tree, TreeOf
  <2>5. DotsFirst(others)
    <3>1. Alike(blocks[RootBlock][2], others[RootBlock][2])
      BY <2>0, FirstSlots
    <3> QED BY <1>4, <1>5, <1>8, <3>1 DEF Alike, Tree, DotsFirst
  <2> QED BY <1>4, <1>6, <2>1, <2>2, <2>3, <2>4, <2>5 DEF Tree, TreeOf
<1> QED BY <1>4, <1>5, <1>6, <1>7, <1>8
-----------------------------------------------------------------------------
(* Paths through folders *)

LEMMA FirstNames ==
  ASSUME NEW S, NEW path \in Seq(S), NEW n \in 0..Len(path)
  PROVE  /\ SubSeq(path, 1, n) \in Seq(S) /\ Len(SubSeq(path, 1, n)) = n
         /\ \A k \in 1..n : SubSeq(path, 1, n)[k] = path[k]
<1>1. Len(path) \in Nat /\ n \in Nat /\ n <= Len(path)
  OBVIOUS
<1>2. 1 \in Int /\ n \in Int /\ \A k \in 1..n : path[k] \in S
  BY <1>1
<1>3. /\ SubSeq(path, 1, n) \in Seq(S)
      /\ Len(SubSeq(path, 1, n)) = (IF 1 <= n THEN n - 1 + 1 ELSE 0)
      /\ \A k \in 1..(n - 1 + 1) : SubSeq(path, 1, n)[k] = path[1 + k - 1]
  BY <1>2, SubSeqProperties
<1>4. (IF 1 <= n THEN n - 1 + 1 ELSE 0) = n /\ n - 1 + 1 = n
  BY <1>1
<1>5. \A k \in 1..n : 1 + k - 1 = k
  BY <1>1
<1> QED BY <1>3, <1>4, <1>5

LEMMA PrefixFinds ==
  ASSUME NEW blocks \in Blocks, NEW S, NEW path \in Seq(S), NEW n \in 0..Len(path),
         NEW w, Follows(w, blocks, path)
  PROVE  find_fcb(blocks, SubSeq(path, 1, n)) = w[n]
<1> DEFINE front == SubSeq(path, 1, n)
<1>1. Len(front) = n /\ \A k \in 1..n : front[k] = path[k]
  BY FirstNames
<1>2. Len(path) \in Nat /\ Len(front) \in 0..Len(path)
  BY <1>1
<1> HIDE DEF front
<1>3. find_fcb(blocks, front) = w[Len(front)]
  BY <1>1, <1>2, PrefixWalk
<1> QED BY <1>1, <1>3 DEF front

(* What Through and IsFolder say of a path, along the walk of find_fcb. *)
LEMMA AlongFolders ==
  ASSUME blk \in Blocks, NEW S, NEW path \in Seq(S), NEW w, Follows(w, blk, path)
  PROVE  /\ Through(path) => \A n \in 0..(Len(path) - 1) : Entry(blk, w[n]).attribute = Folder
         /\ IsFolder(path) => Through(path) /\ Entry(blk, w[Len(path)]).attribute = Folder
<1>0. Len(path) \in Nat
  OBVIOUS
<1>1. ASSUME IsFolder(path), NEW n \in 0..Len(path) PROVE Entry(blk, w[n]).attribute = Folder
  BY <1>1, PrefixFinds DEF IsFolder
<1>2. ASSUME path # <<>>, NEW n \in 0..(Len(path) - 1)
      PROVE  find_fcb(blk, SubSeq(Front(path), 1, n)) = w[n]
  <2>1. /\ Front(path) \in Seq(S) /\ Len(Front(path)) = Len(path) - 1
        /\ \A k \in 1..(Len(path) - 1) : Front(path)[k] = path[k]
    BY <1>2, FrontLast
  <2>2. n \in 0..Len(Front(path)) /\ n \in 0..Len(path) /\ n \in Nat
    BY <1>0, <2>1
  <2> DEFINE up    == Front(path)
             front == SubSeq(up, 1, n)
  <2> HIDE DEF up
  <2>3. up \in Seq(S) /\ n \in 0..Len(up)
    BY <2>1, <2>2 DEF up
  <2>4. Len(front) = n /\ \A k \in 1..n : front[k] = up[k]
    BY <2>3, FirstNames
  <2>5. \A k \in 1..n : k \in 1..(Len(path) - 1)
    BY <1>0
  <2> HIDE DEF front
  <2>6. \A k \in 1..Len(front) : front[k] = path[k]
    BY <2>1, <2>4, <2>5 DEF up
  <2>7. find_fcb(blk, front) = w[Len(front)]
    BY <1>0, <2>2, <2>4, <2>6, PrefixWalk
  <2> QED BY <2>4, <2>7 DEF front, up
<1>3. ASSUME Through(path), NEW n \in 0..(Len(path) - 1) PROVE Entry(blk, w[n]).attribute = Folder
  <2>1. path # <<>>
    BY <1>3
  <2>2. n \in 0..Len(Front(path))
    BY <2>1, FrontLast
  <2> QED BY <1>2, <1>3, <2>1, <2>2 DEF Through, IsFolder
<1>4. ASSUME IsFolder(path) PROVE Through(path)
  <2>1. SUFFICES ASSUME path # <<>>, NEW n \in 0..Len(Front(path))
                 PROVE  Entry(blk, find_fcb(blk, SubSeq(Front(path), 1, n))).attribute = Folder
    BY DEF Through, IsFolder
  <2>2. n \in 0..(Len(path) - 1) /\ n \in 0..Len(path)
    BY <1>0, <2>1, FrontLast
  <2> QED BY <1>1, <1>2, <1>4, <2>1, <2>2
<1>5. Len(path) \in 0..Len(path)
  BY <1>0
<1> QED BY <1>1, <1>3, <1>4, <1>5

(* A path through folders ends at an entry in a folder. *)
LEMMA PathEnds ==
  ASSUME blk \in Blocks, NEW areas, SystemHeads \subseteq areas, Tree(blk, areas),
         NEW S, NEW path \in Seq(S), Through(path), find_fcb(blk, path) # Nowhere
  PROVE  /\ find_fcb(blk, path) \in FolderBlocks(blk) \X Slot
         /\ Entry(blk, find_fcb(blk, path)).used
         /\ path # <<>> => get_fullname(Entry(blk, find_fcb(blk, path))) = Last(path)
<1>0. Len(path) \in Nat
  OBVIOUS
<1>1. PICK w : Follows(w, blk, path) /\ find_fcb(blk, path) = w[Len(path)]
  BY <1>0, FindWalk
<1>2. \A n \in 0..(Len(path) - 1) : Entry(blk, w[n]).attribute = Folder
  BY <1>1, AlongFolders
<1> DEFINE T == FolderBlocks(blk)
           S1 == {n \in Nat : n <= Len(path) /\ w[n] # Nowhere =>
                   /\ w[n] \in T \X Slot /\ Entry(blk, w[n]).used
                   /\ n # 0 => get_fullname(Entry(blk, w[n])) = path[n]}
<1>3. RootBlock \in T /\ T \subseteq Block
  BY FolderLeast
<1>4. 0 \in S1
  <2>1. w[0] = <<RootBlock, 1>>
    BY <1>1 DEF Follows, RootPlace
  <2>2. blk[RootBlock][1].used
    BY <1>3, TreeFacts
  <2>3. w[0] \in T \X Slot /\ Entry(blk, w[0]).used
    BY <1>3, <2>1, <2>2, FirstSlots DEF Entry
  <2> QED BY <2>3
<1>5. ASSUME NEW n \in Nat, n \in S1 PROVE n + 1 \in S1
  <2>1. SUFFICES ASSUME n + 1 <= Len(path), w[n + 1] # Nowhere
                 PROVE  /\ w[n + 1] \in T \X Slot /\ Entry(blk, w[n + 1]).used
                        /\ get_fullname(Entry(blk, w[n + 1])) = path[n + 1]
    OBVIOUS
  <2>2. n + 1 \in 1..Len(path) /\ n \in 0..(Len(path) - 1) /\ (n + 1) - 1 = n /\ n <= Len(path)
    BY <1>0, <2>1
  <2>3. w[n + 1] = Descend(blk, path, n + 1, w[n])
    BY <1>1, <2>2 DEF Follows
  <2>4. w[n] # Nowhere
    BY <2>1, <2>3 DEF Descend
  <2>5. w[n] \in T \X Slot /\ Entry(blk, w[n]).used
    BY <1>5, <2>2, <2>4
  <2>6. Entry(blk, w[n]).first \in T
    BY <1>2, <2>2, <2>5, TreeFacts
  <2> DEFINE b == IF n + 1 = 1 THEN RootBlock ELSE Entry(blk, w[n]).first
  <2>7. b \in T /\ b \in Block
    BY <1>3, <2>6
  <2>8. w[n + 1] = InFolder(blk, b, path[n + 1])
    BY <2>3, <2>4 DEF Descend
  <2> HIDE DEF b
  <2>9. PICK s \in Slot : /\ w[n + 1] = <<b, s>>
                          /\ blk[b][s].used /\ get_fullname(blk[b][s]) = path[n + 1]
    BY <2>1, <2>7, <2>8, InFolderFinds
  <2> QED BY <2>7, <2>9 DEF Entry
<1> HIDE DEF S1
<1>6. \A n \in Nat : n \in S1
  BY <1>4, <1>5, Induction
<1>7. Len(path) \in S1
  BY <1>0, <1>6
<1>8. ASSUME path # <<>> PROVE Len(path) # 0 /\ Last(path) = path[Len(path)]
  <2>1. Len(path) > 0 /\ Last(path) = path[Len(path)]
    BY <1>8, FrontLast
  <2> QED BY <1>0, <2>1
<1> QED BY <1>0, <1>1, <1>7, <1>8 DEF S1
-----------------------------------------------------------------------------
(* Entries that come and go *)

(* Blocks that differ from a tree by an entry in a slot that was free, for *)
(* a block no area has, which is a folder of its own if the entry says so. *)
Grown(others, blocks, b, s, entry) ==
  /\ \A c \in FolderBlocks(blocks), t \in Slot :
       others[c][t] = IF c = b /\ t = s THEN entry ELSE blocks[c][t]
  /\ entry.attribute = Folder =>
       LET new == others[entry.first]
       IN  /\ new[1].used /\ new[1].name = Dot /\ new[1].first = entry.first
           /\ new[2].used /\ new[2].name = DotDot /\ new[2].first = b
           /\ new[1].attribute = Folder /\ new[2].attribute = Folder
           /\ \A t \in Slot \ {1, 2} : ~new[t].used

LEMMA TreeGrows ==
  ASSUME NEW blocks \in Blocks, NEW others \in Blocks, NEW areas, SystemHeads \subseteq areas,
         Tree(blocks, areas),
         NEW b \in FolderBlocks(blocks), NEW s \in Slot, ~blocks[b][s].used,
         NEW entry \in FcbType, entry.used, entry.name \notin Dots, entry.first \notin areas,
         Grown(others, blocks, b, s, entry)
  PROVE  /\ Items(others) = Items(blocks) \cup {<<b, s>>}
         /\ Entry(others, <<b, s>>) = entry
         /\ \A p \in Items(blocks) : Entry(others, p) = Entry(blocks, p) /\ p # <<b, s>>
         /\ FolderBlocks(others) =
              FolderBlocks(blocks) \cup (IF entry.attribute = Folder THEN {entry.first} ELSE {})
         /\ Tree(others, areas \cup {entry.first})
<1> DEFINE T == FolderBlocks(blocks)
           U == IF entry.attribute = Folder THEN {entry.first} ELSE {}
<1>0. /\ RootBlock \in T /\ T \subseteq Block /\ T \subseteq areas /\ U \cap T = {} /\ U \subseteq Block
      /\ b \in Block /\ entry.first \in Block /\ entry.first \notin T
  BY FolderLeast, TreeFacts, FcbFields
<1>1. \A c \in T, t \in Slot : others[c][t] = IF c = b /\ t = s THEN entry ELSE blocks[c][t]
  BY DEF Grown
<1>2. ASSUME NEW c \in T, NEW d \in Subfolders(others, c) PROVE d \in Subfolders(blocks, c) \cup U
  <2>1. c \in Block
    BY <1>0
  <2>2. PICK t \in Slot : /\ others[c][t].used /\ others[c][t].attribute = Folder
                          /\ others[c][t].name \notin Dots /\ others[c][t].first = d
    BY <2>1, SubfoldersType
  <2>3. CASE c = b /\ t = s
    BY <1>1, <2>2, <2>3
  <2>4. CASE ~(c = b /\ t = s)
    <3>1. others[c][t] = blocks[c][t]
      BY <1>1, <2>4
    <3> QED BY <2>1, <2>2, <3>1, SubfoldersType
  <2> QED BY <2>3, <2>4
<1>3. ASSUME NEW c \in T, NEW d \in Subfolders(blocks, c) PROVE d \in Subfolders(others, c)
  <2>1. c \in Block
    BY <1>0
  <2>2. PICK t \in Slot : /\ blocks[c][t].used /\ blocks[c][t].attribute = Folder
                          /\ blocks[c][t].name \notin Dots /\ blocks[c][t].first = d
    BY <2>1, SubfoldersType
  <2>3. others[c][t] = blocks[c][t]
    BY <1>1, <2>2
  <2> QED BY <2>1, <2>2, <2>3, SubfoldersType
<1>4. ASSUME NEW c \in U PROVE Subfolders(others, c) = {}
  <2>1. c = entry.first /\ entry.attribute = Folder
    OBVIOUS
  <2>2. \A t \in Slot : ~(others[c][t].used /\ others[c][t].name \notin Dots)
    BY <2>1 DEF Grown, Dots
  <2> QED BY <1>0, <2>1, <2>2, SubfoldersType
<1>5. others[b][s] = entry
  BY <1>1
<1>6. FolderBlocks(others) \subseteq T \cup U
  <2>1. Inside(others, T \cup U)
    <3>1. ASSUME NEW c \in T PROVE Subfolders(others, c) \subseteq T \cup U
      <4>1. Subfolders(blocks, c) \subseteq T
        BY FolderLeast DEF Inside
      <4> QED BY <1>2, <4>1
    <3> QED BY <1>4, <3>1 DEF Inside
  <2> QED BY <1>0, <2>1, FolderLeast
<1>7. T \subseteq FolderBlocks(others)
  <2> DEFINE X == T \cap FolderBlocks(others)
  <2>1. RootBlock \in X
    BY <1>0, FolderLeast
  <2>2. Inside(blocks, X)
    <3>1. SUFFICES ASSUME NEW c \in X PROVE Subfolders(blocks, c) \subseteq X
      BY DEF Inside
    <3>2. Subfolders(blocks, c) \subseteq T /\ Subfolders(others, c) \subseteq FolderBlocks(others)
      BY FolderLeast DEF Inside
    <3> QED BY <1>3, <3>2
  <2> QED BY <2>1, <2>2, FolderLeast
<1>8. U \subseteq FolderBlocks(others)
  <2>1. SUFFICES ASSUME entry.attribute = Folder PROVE entry.first \in FolderBlocks(others)
    OBVIOUS
  <2>2. entry.first \in Subfolders(others, b)
    BY <1>0, <1>5, <2>1, SubfoldersType
  <2> QED BY <1>7, <2>2, FolderLeast DEF Inside
<1>9. FolderBlocks(others) = T \cup U
  BY <1>6, <1>7, <1>8
<1>10. ASSUME NEW p \in (T \cup U) \X Slot PROVE Entry(others, p) =
         IF p = <<b, s>> THEN entry ELSE IF p[1] \in T THEN Entry(blocks, p) ELSE others[p[1]][p[2]]
  BY <1>1 DEF Entry
<1>11. ASSUME NEW p \in Items(blocks)
       PROVE  p \in T \X Slot /\ p[1] \in T /\ Entry(others, p) = Entry(blocks, p) /\ p # <<b, s>>
  <2>1. p \in T \X Slot /\ Entry(blocks, p).used /\ p[1] \in T
    BY ItemsIn
  <2>2. p # <<b, s>>
    BY <2>1 DEF Entry
  <2> QED BY <1>10, <2>1, <2>2
<1>12. ASSUME NEW p \in U \X Slot PROVE ~(Entry(others, p).used /\ Entry(others, p).name \notin Dots)
  BY DEF Grown, Entry, Dots
<1>13. Items(others) = Items(blocks) \cup {<<b, s>>}
  <2>1. ASSUME NEW p PROVE p \in Items(others) <=> p \in Items(blocks) \/ p = <<b, s>>
    <3>1. p \in Items(others) <=> /\ p \in (T \cup U) \X Slot
                                  /\ Entry(others, p).used /\ Entry(others, p).name \notin Dots
      BY <1>9, ItemsIn
    <3>2. CASE p = <<b, s>>
      BY <1>10, <3>1, <3>2
    <3>3. CASE p # <<b, s>>
      <4>1. CASE p \in T \X Slot
        <5>1. Entry(others, p) = Entry(blocks, p)
          BY <1>10, <3>3, <4>1
        <5> QED BY <3>1, <3>3, <4>1, <5>1, ItemsIn
      <4>2. CASE p \notin T \X Slot
        BY <1>12, <3>1, <3>3, <4>2, ItemsIn
      <4> QED BY <4>1, <4>2
    <3> QED BY <3>2, <3>3
  <2> QED BY <2>1
<1>14. Entry(others, <<b, s>>) = entry
  BY <1>5 DEF Entry
<1>15. Tree(others, areas \cup {entry.first})
  <2>1. ASSUME NEW p \in Items(others), NEW q \in Items(others),
               Entry(others, p).first = Entry(others, q).first
        PROVE  p = q
    <3>1. \A r \in Items(blocks) : Entry(others, r).first \in areas
      BY <1>11, TreeFacts
    <3>2. \A r \in Items(others) : r \in Items(blocks) \/ r = <<b, s>>
      BY <1>13
    <3>3. CASE p \in Items(blocks) /\ q \in Items(blocks)
      BY <1>11, <2>1, <3>3, TreeFacts
    <3> QED BY <1>14, <2>1, <3>1, <3>2, <3>3
  <2>2. {Entry(others, p).first : p \in Items(others)} = (areas \cup {entry.first}) \ SystemHeads
    <3>1. {Entry(blocks, p).first : p \in Items(blocks)} = areas \ SystemHeads
      BY DEF Tree, TreeOf
    <3>2. {Entry(others, p).first : p \in Items(others)}
            = {Entry(blocks, p).first : p \in Items(blocks)} \cup {entry.first}
      BY <1>11, <1>13, <1>14
    <3>3. entry.first \notin SystemHeads
      OBVIOUS
    <3> QED BY <3>1, <3>2, <3>3
  <2>3. ASSUME NEW c \in T \cup U
        PROVE  others[c][1].used /\ others[c][1].name = Dot /\ others[c][1].first = c
    <3>1. CASE c \in T
      <4>1. blocks[c][1].used /\ blocks[c][1].name = Dot /\ blocks[c][1].first = c
        BY <3>1, TreeFacts
      <4>2. others[c][1] = blocks[c][1]
        BY <1>1, <3>1, <4>1, FirstSlots
      <4> QED BY <4>1, <4>2
    <3>2. CASE c \in U
      BY <3>2 DEF Grown
    <3> QED BY <3>1, <3>2
  <2>4. ASSUME NEW p \in Items(others), Entry(others, p).attribute = Folder
        PROVE  LET up == others[Entry(others, p).first][2]
               IN  up.used /\ up.name = DotDot /\ up.first = p[1]
    <3>1. CASE p = <<b, s>>
      BY <1>14, <2>4, <3>1 DEF Grown
    <3>2. CASE p \in Items(blocks)
      <4>1. Entry(others, p) = Entry(blocks, p) /\ Entry(blocks, p).first \in T
        BY <1>11, <2>4, <3>2, ItemInside
      <4> DEFINE up == blocks[Entry(blocks, p).first][2]
      <4>2. up.used /\ up.name = DotDot /\ up.first = p[1]
        BY <2>4, <3>2, <4>1 DEF Tree, TreeOf
      <4>3. others[Entry(blocks, p).first][2] = up
        BY <1>1, <4>1, <4>2, FirstSlots
      <4> QED BY <4>1, <4>2, <4>3
    <3> QED BY <1>13, <3>1, <3>2
  <2>5. DotsFirst(others)
    <3>1. /\ blocks[RootBlock][2].used /\ blocks[RootBlock][2].name = DotDot
          /\ blocks[RootBlock][2].first = RootBlock
      BY DEF Tree, DotsFirst
    <3>2. others[RootBlock][2] = blocks[RootBlock][2]
      BY <1>0, <1>1, <3>1, FirstSlots
    <3>3. ASSUME NEW p \in (T \cup U) \X Slot, Entry(others, p).used, Entry(others, p).name \in Dots
          PROVE  p[2] \in {1, 2} /\ Entry(others, p).attribute = Folder
      <4>1. CASE p \in T \X Slot
        <5>1. p # <<b, s>> /\ p[1] \in T
          BY <1>14, <3>3, <4>1
        <5>2. Entry(others, p) = Entry(blocks, p)
          BY <1>10, <4>1, <5>1
        <5> QED BY <3>3, <4>1, <5>2 DEF Tree, DotsFirst
      <4>2. CASE p \in U \X Slot
        <5>1. p[1] = entry.first /\ entry.attribute = Folder /\ p[2] \in Slot
          BY <4>2
        <5>2. p[2] \in {1, 2}
          BY <3>3, <5>1 DEF Grown, Entry
        <5> QED BY <5>1, <5>2 DEF Grown, Entry
      <4> QED BY <4>1, <4>2
    <3> QED BY <1>9, <3>1, <3>2, <3>3 DEF DotsFirst
  <2> QED BY <1>9, <2>1, <2>2, <2>3, <2>4, <2>5 DEF Tree, TreeOf
<1> QED BY <1>9, <1>11, <1>13, <1>14, <1>15

(* Blocks that differ from a tree by an item that is gone, and by what a   *)
(* folder had in its block.                                                *)
Pruned(others, blocks, p) ==
  \A c \in FolderBlocks(blocks), t \in Slot :
    \/ c = Entry(blocks, p).first /\ Entry(blocks, p).attribute = Folder
    \/ IF <<c, t>> = p THEN ~others[c][t].used ELSE others[c][t] = blocks[c][t]

LEMMA TreeShrinks ==
  ASSUME NEW blocks \in Blocks, NEW others \in Blocks, NEW areas, SystemHeads \subseteq areas,
         Tree(blocks, areas), NEW p \in Items(blocks), Pruned(others, blocks, p),
         Entry(blocks, p).attribute = Folder =>
           \A t \in Slot \ {1, 2} : ~blocks[Entry(blocks, p).first][t].used
  PROVE  /\ Items(others) = Items(blocks) \ {p}
         /\ \A q \in Items(others) : Entry(others, q) = Entry(blocks, q)
         /\ FolderBlocks(others) \subseteq FolderBlocks(blocks)
         /\ Tree(others, areas \ {Entry(blocks, p).first})
<1> DEFINE T == FolderBlocks(blocks)
           first == Entry(blocks, p).first
           G == IF Entry(blocks, p).attribute = Folder THEN {first} ELSE {}
<1>0. /\ RootBlock \in T /\ T \subseteq Block /\ T \subseteq areas /\ RootBlock \notin G
      /\ p \in T \X Slot /\ p[1] \in T /\ p = <<p[1], p[2]>> /\ p[2] \in Slot
      /\ Entry(blocks, p).used /\ Entry(blocks, p).name \notin Dots /\ p[2] \notin {1, 2}
      /\ first \in areas \ SystemHeads
  <2>1. p \in T \X Slot /\ Entry(blocks, p).used /\ Entry(blocks, p).name \notin Dots
    BY ItemsIn
  <2>2. first \in areas \ SystemHeads /\ RootBlock \in SystemHeads
    BY TreeFacts DEF RootBlock, SystemHeads
  <2> QED BY <2>1, <2>2, ItemsType, FolderLeast, TreeFacts
<1>1. ASSUME NEW c \in T \ G, NEW t \in Slot
      PROVE  IF <<c, t>> = p THEN ~others[c][t].used ELSE others[c][t] = blocks[c][t]
  BY DEF Pruned
<1>2. ASSUME NEW c \in G PROVE Subfolders(blocks, c) = {}
  <2>1. c = first /\ Entry(blocks, p).attribute = Folder /\ c \in T
    BY ItemInside
  <2>2. blocks[c][1].name \in Dots /\ blocks[c][2].name \in Dots
    BY <2>1, TreeFacts DEF Dots
  <2>3. \A t \in Slot : ~(blocks[c][t].used /\ blocks[c][t].name \notin Dots)
    BY <2>1, <2>2
  <2> QED BY <1>0, <2>1, <2>3, SubfoldersType
<1>3. ASSUME NEW c \in T \ G, NEW d \in Subfolders(others, c)
      PROVE  d \in T \ G /\ d \in Subfolders(blocks, c)
  <2>1. c \in Block
    BY <1>0
  <2>2. PICK t \in Slot : /\ others[c][t].used /\ others[c][t].attribute = Folder
                          /\ others[c][t].name \notin Dots /\ others[c][t].first = d
    BY <2>1, SubfoldersType
  <2>3. <<c, t>> # p /\ others[c][t] = blocks[c][t]
    BY <1>1, <2>2
  <2>4. d \in Subfolders(blocks, c)
    BY <2>1, <2>2, <2>3, SubfoldersType
  <2>5. <<c, t>> \in Items(blocks) /\ Entry(blocks, <<c, t>>).first = d
    BY <2>2, <2>3, ItemsIn DEF Entry
  <2>6. d # first
    BY <2>3, <2>5, TreeFacts
  <2> QED BY <2>4, <2>6, FolderLeast DEF Inside
<1>4. ASSUME NEW c \in T \ G, NEW d \in Subfolders(blocks, c), d \notin G
      PROVE  d \in Subfolders(others, c)
  <2>1. c \in Block
    BY <1>0
  <2>2. PICK t \in Slot : /\ blocks[c][t].used /\ blocks[c][t].attribute = Folder
                          /\ blocks[c][t].name \notin Dots /\ blocks[c][t].first = d
    BY <2>1, SubfoldersType
  <2>3. <<c, t>> # p
    BY <1>4, <2>2 DEF Entry
  <2>4. others[c][t] = blocks[c][t]
    BY <1>1, <2>3
  <2> QED BY <2>1, <2>2, <2>4, SubfoldersType
<1>5. FolderBlocks(others) \subseteq T \ G
  <2>1. Inside(others, T \ G)
    BY <1>3 DEF Inside
  <2> QED BY <1>0, <2>1, FolderLeast
<1>6. T \subseteq FolderBlocks(others) \cup G
  <2> DEFINE X == FolderBlocks(others) \cup G
  <2>1. RootBlock \in X
    BY FolderLeast
  <2>2. Inside(blocks, X)
    <3>1. ASSUME NEW c \in FolderBlocks(others), c \notin G PROVE Subfolders(blocks, c) \subseteq X
      <4>1. c \in T \ G /\ Subfolders(others, c) \subseteq FolderBlocks(others)
        BY <1>5, FolderLeast DEF Inside
      <4> QED BY <1>4, <4>1
    <3> QED BY <1>2, <3>1 DEF Inside
  <2> HIDE DEF X
  <2>3. T \subseteq X
    BY <2>1, <2>2, FolderLeast
  <2> QED BY <2>3 DEF X
<1>7. FolderBlocks(others) = T \ G
  BY <1>5, <1>6
<1>8. ASSUME NEW q \in (T \ G) \X Slot
      PROVE  /\ q \in T \X Slot
             /\ q = p => ~Entry(others, q).used
             /\ q # p => Entry(others, q) = Entry(blocks, q)
  <2>1. q = <<q[1], q[2]>> /\ q[1] \in T \ G /\ q[2] \in Slot
    OBVIOUS
  <2> QED BY <1>1, <2>1 DEF Entry
<1>9. ASSUME NEW q \in Items(blocks), q # p PROVE q \in (T \ G) \X Slot
  <2>1. q \in T \X Slot /\ Entry(blocks, q).used /\ Entry(blocks, q).name \notin Dots
    BY ItemsIn
  <2>2. q[1] \in T /\ q[2] \in Slot /\ q = <<q[1], q[2]>> /\ q[2] \notin {1, 2}
    BY <2>1, ItemsType, TreeFacts
  <2>3. q[1] \notin G
    BY <2>1, <2>2 DEF Entry
  <2> QED BY <2>2, <2>3
<1>10. Items(others) = Items(blocks) \ {p}
  <2>1. ASSUME NEW q PROVE q \in Items(others) <=> q \in Items(blocks) /\ q # p
    <3>1. q \in Items(others) <=> /\ q \in (T \ G) \X Slot
                                  /\ Entry(others, q).used /\ Entry(others, q).name \notin Dots
      BY <1>7, ItemsIn
    <3> QED BY <1>8, <1>9, <3>1, ItemsIn
  <2> QED BY <2>1
<1>11. ASSUME NEW q \in Items(others) PROVE Entry(others, q) = Entry(blocks, q) /\ q \in Items(blocks)
  BY <1>8, <1>9, <1>10
<1>12. Tree(others, areas \ {first})
  <2>1. ASSUME NEW q \in Items(others), NEW r \in Items(others),
               Entry(others, q).first = Entry(others, r).first
        PROVE  q = r
    BY <1>11, <2>1, TreeFacts
  <2>2. {Entry(others, q).first : q \in Items(others)} = (areas \ {first}) \ SystemHeads
    <3>1. {Entry(blocks, q).first : q \in Items(blocks)} = areas \ SystemHeads
      BY DEF Tree, TreeOf
    <3>2. {Entry(others, q).first : q \in Items(others)}
            = {Entry(blocks, q).first : q \in Items(blocks) \ {p}}
      BY <1>10, <1>11
    <3>3. \A q \in Items(blocks) \ {p} : Entry(blocks, q).first # first
      BY TreeFacts
    <3>4. {Entry(blocks, q).first : q \in Items(blocks) \ {p}}
            = {Entry(blocks, q).first : q \in Items(blocks)} \ {first}
      BY <3>3
    <3> QED BY <3>1, <3>2, <3>4
  <2>3. ASSUME NEW c \in T \ G
        PROVE  others[c][1].used /\ others[c][1].name = Dot /\ others[c][1].first = c
    <3>1. <<c, 1>> # p
      BY <1>0
    <3>2. others[c][1] = blocks[c][1]
      BY <1>1, <3>1, FirstSlots
    <3> QED BY <3>2, TreeFacts
  <2>4. ASSUME NEW q \in Items(others), Entry(others, q).attribute = Folder
        PROVE  LET up == others[Entry(others, q).first][2]
               IN  up.used /\ up.name = DotDot /\ up.first = q[1]
    <3>1. q \in Items(blocks) /\ Entry(others, q) = Entry(blocks, q) /\ q # p
      BY <1>10, <1>11
    <3> DEFINE f == Entry(blocks, q).first
    <3>2. f \in T /\ f \notin G
      BY <2>4, <3>1, ItemInside, TreeFacts
    <3>3. <<f, 2>> # p
      BY <1>0
    <3>4. others[f][2] = blocks[f][2]
      BY <1>1, <3>2, <3>3, FirstSlots
    <3> QED BY <2>4, <3>1, <3>4 DEF Tree, TreeOf
  <2>5. DotsFirst(others)
    <3>1. others[RootBlock][2] = blocks[RootBlock][2]
      <4>1. <<RootBlock, 2>> # p
        BY <1>0
      <4> QED BY <1>0, <1>1, <4>1, FirstSlots
    <3>2. ASSUME NEW q \in (T \ G) \X Slot, Entry(others, q).used, Entry(others, q).name \in Dots
          PROVE  q[2] \in {1, 2} /\ Entry(others, q).attribute = Folder
      BY <1>8, <3>2 DEF Tree, DotsFirst
    <3> QED BY <1>7, <3>1, <3>2 DEF Tree, DotsFirst
  <2> QED BY <1>7, <2>1, <2>2, <2>3, <2>4, <2>5 DEF Tree, TreeOf
<1> QED BY <1>7, <1>10, <1>11, <1>12

(* A disk that was just formatted has the root and nothing in it. *)
LEMMA TreeFormatted ==
  ASSUME blk \in Blocks
  PROVE  Tree(FormattedBlocks, SystemHeads) /\ Items(FormattedBlocks) = {}
<1> DEFINE root == FormattedBlocks[RootBlock]
<1>1. FormattedBlocks \in Blocks
  BY FormattedType
<1>2. root = RootFolder
  BY RootIsBlock DEF FormattedBlocks, Blocks
<1> HIDE DEF root
<1>3. \A s \in Slot : root[s] = IF s = 1 THEN RootFolder[1] ELSE IF s = 2 THEN RootFolder[2]
                                ELSE NoEntry
  BY <1>2, FirstSlots DEF RootFolder, Blank
<1>4. /\ RootFolder[1].name = Dot /\ RootFolder[1].first = RootBlock /\ RootFolder[1].used
      /\ RootFolder[1].attribute = Folder
      /\ RootFolder[2].name = DotDot /\ RootFolder[2].first = RootBlock /\ RootFolder[2].used
      /\ RootFolder[2].attribute = Folder
  BY FirstSlots DEF RootFolder, Blank, FolderEntry, set_fcb
<1>5. /\ root[1].name = Dot /\ root[1].first = RootBlock /\ root[1].used /\ root[1].attribute = Folder
      /\ root[2].name = DotDot /\ root[2].first = RootBlock /\ root[2].used
      /\ root[2].attribute = Folder
      /\ \A s \in Slot \ {1, 2} : ~root[s].used
  BY <1>3, <1>4, FirstSlots DEF NoEntry
<1>6. Subfolders(FormattedBlocks, RootBlock) = {}
  <2>1. \A s \in Slot : ~(root[s].used /\ root[s].name \notin Dots)
    BY <1>5 DEF Dots
  <2> QED BY <1>1, <2>1, SubfoldersType, RootIsBlock DEF root
<1>7. FolderBlocks(FormattedBlocks) = {RootBlock}
  <2>1. Inside(FormattedBlocks, {RootBlock})
    BY <1>6 DEF Inside
  <2> QED BY <1>1, <2>1, FolderLeast
<1>8. Items(FormattedBlocks) = {}
  <2>1. \A p \in {RootBlock} \X Slot : Entry(FormattedBlocks, p) = root[p[2]] /\ p[2] \in Slot
    BY DEF Entry, root
  <2>2. \A p : p \notin Items(FormattedBlocks)
    BY <1>5, <1>7, <2>1, ItemsIn DEF Dots
  <2> QED BY <2>2
<1>9. \A p \in {RootBlock} \X Slot : Entry(FormattedBlocks, p) = root[p[2]] /\ p[2] \in Slot
  BY DEF Entry, root
<1>10. DotsFirst(FormattedBlocks)
  BY <1>5, <1>7, <1>9 DEF DotsFirst, root
<1> QED BY <1>5, <1>7, <1>8, <1>10 DEF Tree, TreeOf, root
-----------------------------------------------------------------------------
(* Closing changes lengths *)

AllAlike(blocks, others) == \A b \in Block, s \in Slot : Alike(blocks[b][s], others[b][s])

LEMMA FindAlike ==
  ASSUME NEW blocks \in Blocks, NEW others \in Blocks, AllAlike(blocks, others),
         NEW path, Len(path) \in Nat
  PROVE  find_fcb(others, path) = find_fcb(blocks, path)
<1>1. PICK v : Follows(v, blocks, path) /\ find_fcb(blocks, path) = v[Len(path)]
  BY FindWalk
<1>2. PICK w : Follows(w, others, path) /\ find_fcb(others, path) = w[Len(path)]
  BY FindWalk
<1>3. ASSUME NEW b \in Block, NEW name PROVE InFolder(others, b, name) = InFolder(blocks, b, name)
  <2>1. \A s \in Slot : /\ others[b][s].used = blocks[b][s].used
                        /\ get_fullname(others[b][s]) = get_fullname(blocks[b][s])
    BY DEF AllAlike, Alike, get_fullname
  <2> DEFINE g == {s \in Slot : others[b][s].used /\ get_fullname(others[b][s]) = name}
             h == {s \in Slot : blocks[b][s].used /\ get_fullname(blocks[b][s]) = name}
  <2>2. g = h
    BY <2>1
  <2>3. /\ InFolder(others, b, name) =
             IF g = {} THEN Nowhere ELSE <<b, CHOOSE s \in g : \A t \in g : s <= t>>
        /\ InFolder(blocks, b, name) =
             IF h = {} THEN Nowhere ELSE <<b, CHOOSE s \in h : \A t \in h : s <= t>>
    BY DEF InFolder
  <2> HIDE DEF g, h
  <2> QED BY <2>2, <2>3
<1>4. ASSUME NEW p \in Places \cup {Nowhere}, NEW n
      PROVE  Descend(others, path, n, p) = Descend(blocks, path, n, p)
  <2>1. CASE p = Nowhere
    BY <2>1 DEF Descend
  <2>2. CASE p \in Places
    <3>1. Entry(others, p).first = Entry(blocks, p).first /\ Entry(blocks, p).first \in Block
      BY <2>2, NowhereElse, EntryType DEF AllAlike, Alike, Entry
    <3> QED BY <1>3, <3>1, RootIsBlock DEF Descend
  <2> QED BY <2>1, <2>2
<1> DEFINE S == {n \in Nat : n <= Len(path) => v[n] = w[n]}
<1>5. 0 \in S
  BY <1>1, <1>2 DEF Follows
<1>6. ASSUME NEW n \in Nat, n \in S PROVE n + 1 \in S
  <2>1. SUFFICES ASSUME n + 1 <= Len(path) PROVE v[n + 1] = w[n + 1]
    OBVIOUS
  <2>2. v[n] = w[n] /\ (n + 1) - 1 = n /\ n + 1 \in 1..Len(path) /\ n \in 0..Len(path)
    BY <1>6, <2>1
  <2>3. /\ v[n + 1] = Descend(blocks, path, n + 1, v[n])
        /\ w[n + 1] = Descend(others, path, n + 1, w[n])
        /\ v[n] \in Places \cup {Nowhere}
    BY <1>1, <1>2, <2>2 DEF Follows
  <2> QED BY <1>4, <2>2, <2>3
<1> HIDE DEF S
<1>7. \A n \in Nat : n \in S
  BY <1>5, <1>6, Induction
<1> QED BY <1>1, <1>2, <1>7 DEF S

LEMMA EntryChanged ==
  ASSUME NEW blocks \in Blocks, NEW p \in Places, NEW fcb \in FcbType, NEW q \in Places
  PROVE  Entry([blocks EXCEPT ![p[1]][p[2]] = fcb], q) = IF q = p THEN fcb ELSE Entry(blocks, q)
<1>1. q[1] \in Block /\ q[2] \in Slot /\ q = <<q[1], q[2]>>
  BY NowhereElse
<1> DEFINE after == [blocks EXCEPT ![p[1]][p[2]] = fcb]
<1>2. \A b \in Block, s \in Slot : after[b][s] = IF <<b, s>> = p THEN fcb ELSE blocks[b][s]
  BY EntryReplaced
<1> HIDE DEF after
<1>3. Entry(after, q) = IF q = p THEN fcb ELSE Entry(blocks, q)
  BY <1>1, <1>2 DEF Entry
<1> QED BY <1>3 DEF after

Where(i) == find_fcb(blk, openfile_list[i].dir)

LEMMA SameButLength ==
  ASSUME NEW e \in FcbType, NEW f \in FcbType, [e EXCEPT !.length = f.length] = f
  PROVE  Alike(e, f)
<1> DEFINE g == [e EXCEPT !.length = f.length]
<1>1. e = [name |-> e.name, exname |-> e.exname, attribute |-> e.attribute,
           first |-> e.first, length |-> e.length, used |-> e.used]
  BY DEF FcbType
<1>2. g = [name |-> e.name, exname |-> e.exname, attribute |-> e.attribute,
           first |-> e.first, length |-> f.length, used |-> e.used]
  BY <1>1
<1>3. /\ g.name = e.name /\ g.exname = e.exname /\ g.attribute = e.attribute
      /\ g.first = e.first /\ g.used = e.used
  BY <1>2
<1> QED BY <1>3 DEF Alike

LEMMA AlikeEqual ==
  ASSUME NEW e \in FcbType, NEW f \in FcbType, Alike(e, f), e.length = f.length
  PROVE  e = f
<1>1. /\ e = [name |-> e.name, exname |-> e.exname, attribute |-> e.attribute,
              first |-> e.first, length |-> e.length, used |-> e.used]
      /\ f = [name |-> f.name, exname |-> f.exname, attribute |-> f.attribute,
              first |-> f.first, length |-> f.length, used |-> f.used]
  BY DEF FcbType
<1> QED BY <1>1 DEF Alike

(* What there is at the path of a slot that is not stale. *)
LEMMA NotStale ==
  ASSUME FsTypeOK, NEW i \in 1..MaxOpen, ~Stale(i), openfile_list[i].fcb_state = 1
  PROVE  /\ Where(i) \in Places /\ Through(openfile_list[i].dir)
         /\ Alike(Entry(blk, Where(i)), openfile_list[i].fcb)
         /\ ~openfile_list[i].used =>
              /\ Entry(blk, Where(i)) = openfile_list[i].fcb
              /\ OpenAs(openfile_list, openfile_list[i].fcb) = {}
<1>1. blk \in Blocks /\ openfile_list[i] \in UseropenType
  BY FsTypes DEF TableType
<1>2. openfile_list[i].fcb \in FcbType /\ Len(openfile_list[i].dir) \in Nat
  BY <1>1, SlotFields
<1>3. /\ Where(i) # Nowhere /\ Through(openfile_list[i].dir)
      /\ [Entry(blk, Where(i)) EXCEPT !.length = openfile_list[i].fcb.length] = openfile_list[i].fcb
      /\ ~openfile_list[i].used =>
              /\ Entry(blk, Where(i)) = openfile_list[i].fcb
              /\ OpenAs(openfile_list, openfile_list[i].fcb) = {}
  BY DEF Stale, Where
<1>4. Where(i) \in Places
  BY <1>1, <1>2, <1>3, FindType DEF Where
<1>5. Alike(Entry(blk, Where(i)), openfile_list[i].fcb)
  BY <1>1, <1>2, <1>3, <1>4, EntryType, SameButLength
<1> QED BY <1>3, <1>4, <1>5

(* The slots of fds up to n that write the entry at q. *)
Writers(fds, n, q) ==
  {i \in fds : i <= n /\ openfile_list[i].fcb_state = 1 /\ Where(i) = q}

ClosedTo(m, fds, n) ==
  /\ m.table = [i \in 1..MaxOpen |->
       IF i \in fds /\ i <= n THEN [openfile_list[i] EXCEPT !.used = FALSE] ELSE openfile_list[i]]
  /\ \A q \in Places :
       IF Writers(fds, n, q) = {} THEN Entry(m.blk, q) = Entry(blk, q)
       ELSE \E i \in Writers(fds, n, q) : Entry(m.blk, q) = openfile_list[i].fcb

LEMMA ClosedAlike ==
  ASSUME FsTypeOK, NEW fds, fds \subseteq 1..MaxOpen, \A i \in fds : ~Stale(i),
         NEW m, NEW n, ClosedTo(m, fds, n)
  PROVE  AllAlike(blk, m.blk)
<1>1. SUFFICES ASSUME NEW b \in Block, NEW s \in Slot PROVE Alike(blk[b][s], m.blk[b][s])
  BY DEF AllAlike
<1> DEFINE q == <<b, s>>
<1>2. q \in Places /\ Entry(m.blk, q) = m.blk[b][s] /\ Entry(blk, q) = blk[b][s]
  BY DEF Places, Entry
<1> HIDE DEF q
<1>3. CASE Writers(fds, n, q) = {}
  BY <1>2, <1>3 DEF ClosedTo, Alike
<1>4. CASE Writers(fds, n, q) # {}
  <2>1. PICK i \in Writers(fds, n, q) : Entry(m.blk, q) = openfile_list[i].fcb
    BY <1>2, <1>4 DEF ClosedTo
  <2>2. i \in 1..MaxOpen /\ ~Stale(i) /\ openfile_list[i].fcb_state = 1 /\ Where(i) = q
    BY <2>1 DEF Writers
  <2>3. Alike(Entry(blk, q), openfile_list[i].fcb)
    BY <2>2, NotStale
  <2> QED BY <1>2, <2>1, <2>3
<1> QED BY <1>3, <1>4

LEMMA CloseAllWrites ==
  ASSUME FsTypeOK, NEW fds, fds \subseteq 1..MaxOpen, \A i \in fds : ~Stale(i),
         CloseAll(blk, openfile_list, fds).ok
  PROVE  LET m == CloseAll(blk, openfile_list, fds)
         IN  ClosedTo(m, fds, MaxOpen) /\ AllAlike(blk, m.blk)
<1>1. blk \in Blocks /\ openfile_list \in TableType
  BY FsTypes
<1>2. PICK w : Closing(w, blk, openfile_list, fds) /\ CloseAll(blk, openfile_list, fds) = w[MaxOpen]
  BY <1>1, CloseWalk
<1>3. MaxOpen \in Nat /\ MaxOpen > 0 /\ w[MaxOpen].ok
  BY <1>2, MaxOpenAssumption
<1>4. \A n \in 0..MaxOpen : w[n] \in Memory
  BY <1>2 DEF Closing
<1>5. openfile_list = [i \in 1..MaxOpen |-> openfile_list[i]]
  BY <1>1 DEF TableType
<1> DEFINE S == {n \in Nat : n <= MaxOpen /\ w[n].ok => ClosedTo(w[n], fds, n)}
<1>6. 0 \in S
  <2>1. w[0].table = openfile_list /\ w[0].blk = blk
    BY <1>2 DEF Closing
  <2>2. \A i \in 1..MaxOpen : ~(i <= 0)
    BY <1>3
  <2>3. \A q : Writers(fds, 0, q) = {}
    BY <2>2 DEF Writers
  <2>4. openfile_list = [i \in 1..MaxOpen |-> IF i \in fds /\ i <= 0
          THEN [openfile_list[i] EXCEPT !.used = FALSE] ELSE openfile_list[i]]
    BY <1>5, <2>2
  <2>5. ClosedTo(w[0], fds, 0)
    BY <2>1, <2>3, <2>4 DEF ClosedTo
  <2> QED BY <2>5
<1>7. ASSUME NEW n \in Nat, n \in S PROVE n + 1 \in S
  <2> DEFINE k == n + 1
             m == w[n]
             after == w[k]
  <2>1. SUFFICES ASSUME k <= MaxOpen, after.ok PROVE ClosedTo(after, fds, k)
    OBVIOUS
  <2>2. k \in 1..MaxOpen /\ n \in 0..MaxOpen /\ k - 1 = n /\ m \in Memory
    BY <1>3, <1>4, <2>1
  <2>3. after = IF k \in fds THEN do_close(m, k) ELSE m
    BY <1>2, <2>2 DEF Closing
  <2>4. m.ok /\ ClosedTo(m, fds, n)
    <3>1. m.ok
      <4>1. do_close(m, k).ok => m.ok
        BY <2>2, CloseOne
      <4> QED BY <2>1, <2>3, <4>1
    <3> QED BY <1>7, <2>2, <3>1
  <2> HIDE DEF S, m, after, k
  <2>5. \A i \in 1..MaxOpen : (i <= k <=> i <= n \/ i = k) /\ ~(k <= n)
    BY <2>2 DEF k
  <2>6. CASE k \notin fds
    <3>1. after = m
      BY <2>3, <2>6
    <3>2. \A q : Writers(fds, k, q) = Writers(fds, n, q)
      BY <2>5, <2>6 DEF Writers
    <3>3. m.table = [i \in 1..MaxOpen |-> IF i \in fds /\ i <= k
            THEN [openfile_list[i] EXCEPT !.used = FALSE] ELSE openfile_list[i]]
      BY <2>4, <2>5, <2>6 DEF ClosedTo
    <3> QED BY <2>4, <3>1, <3>2, <3>3 DEF ClosedTo
  <2>7. CASE k \in fds
    <3>1. after = do_close(m, k)
      BY <2>3, <2>7
    <3>2. m.table[k] = openfile_list[k]
      BY <2>2, <2>4, <2>5 DEF ClosedTo
    <3>3. m.blk \in Blocks /\ openfile_list[k] \in UseropenType
      BY <1>1, <2>2, MemoryFields DEF TableType
    <3>4. AllAlike(blk, m.blk)
      BY <2>4, ClosedAlike
    <3>5. find_fcb(m.blk, openfile_list[k].dir) = Where(k)
      BY <1>1, <3>3, <3>4, SlotFields, FindAlike DEF Where
    <3>6. /\ after.table = [m.table EXCEPT ![k] = [openfile_list[k] EXCEPT !.used = FALSE]]
          /\ openfile_list[k].fcb_state = 0 => after.blk = m.blk
          /\ openfile_list[k].fcb_state = 1 =>
               /\ Where(k) \in Places
               /\ after.blk = [m.blk EXCEPT ![Where(k)[1]][Where(k)[2]] = openfile_list[k].fcb]
      <4>1. LET place == find_fcb(m.blk, m.table[k].dir)
            IN  /\ after.table = [m.table EXCEPT ![k] = [m.table[k] EXCEPT !.used = FALSE]]
                /\ m.table[k].fcb_state = 0 => after.blk = m.blk
                /\ m.table[k].fcb_state = 1 =>
                     /\ place \in Places
                     /\ after.blk = [m.blk EXCEPT ![place[1]][place[2]] = m.table[k].fcb]
        BY <2>1, <2>2, <3>1, CloseOne
      <4>2. find_fcb(m.blk, m.table[k].dir) = Where(k)
        BY <3>2, <3>5
      <4> QED BY <3>2, <4>1, <4>2
    <3>7. after.table = [i \in 1..MaxOpen |-> IF i \in fds /\ i <= k
            THEN [openfile_list[i] EXCEPT !.used = FALSE] ELSE openfile_list[i]]
      BY <2>2, <2>4, <2>5, <2>7, <3>6 DEF ClosedTo
    <3>8. ASSUME NEW q \in Places
          PROVE  IF Writers(fds, k, q) = {} THEN Entry(after.blk, q) = Entry(blk, q)
                 ELSE \E i \in Writers(fds, k, q) : Entry(after.blk, q) = openfile_list[i].fcb
      <4>1. CASE openfile_list[k].fcb_state = 1 /\ Where(k) = q
        <5>1. k \in Writers(fds, k, q)
          BY <2>2, <2>5, <2>7, <4>1 DEF Writers
        <5>2. openfile_list[k].fcb \in FcbType
          BY <3>3, SlotFields
        <5>3. Entry(after.blk, q) = openfile_list[k].fcb
          BY <3>3, <3>6, <4>1, <5>2, EntryChanged
        <5> QED BY <5>1, <5>3
      <4>2. CASE ~(openfile_list[k].fcb_state = 1 /\ Where(k) = q)
        <5>1. Writers(fds, k, q) = Writers(fds, n, q)
          BY <2>5, <4>2 DEF Writers
        <5>2. Entry(after.blk, q) = Entry(m.blk, q)
          <6>1. CASE openfile_list[k].fcb_state = 0
            BY <3>6, <6>1
          <6>2. CASE openfile_list[k].fcb_state = 1
            <7>1. openfile_list[k].fcb \in FcbType /\ Where(k) # q
              BY <3>3, <4>2, <6>2, SlotFields
            <7> QED BY <3>3, <3>6, <6>2, <7>1, EntryChanged
          <6> QED BY <3>3, <6>1, <6>2, SlotFields
        <5> QED BY <2>4, <5>1, <5>2 DEF ClosedTo
      <4> QED BY <4>1, <4>2
    <3> QED BY <3>7, <3>8 DEF ClosedTo
  <2> QED BY <2>6, <2>7
<1> HIDE DEF S
<1>8. \A n \in Nat : n \in S
  BY <1>6, <1>7, Induction
<1>9. ClosedTo(w[MaxOpen], fds, MaxOpen)
  BY <1>3, <1>8 DEF S
<1> QED BY <1>2, <1>9, ClosedAlike
-----------------------------------------------------------------------------
(* The block store under the commands *)

LEMMA DiskStepInv ==
  ASSUME TypeOK, DiskInv, DiskStep \/ UNCHANGED vars
  PROVE  DiskInv'
<1>1. TypeOK'
  BY DiskStepType
<1>2. CASE UNCHANGED vars
  BY <1>2 DEF vars, loopVars, DiskInv, MemorySound, ImageSound, Roots, Loops, Progress
<1>3. CASE DiskStep
  BY <1>1, <1>3, SaveSound, CommandSound, WriteSound, ReclaimSound DEF DiskStep
<1> QED BY <1>2, <1>3

(* What is known of a disk that nothing has damaged. *)
LEMMA SoundFacts ==
  ASSUME FsTypeOK, DiskInv, Sound, MemoryTree
  PROVE  /\ blk \in Blocks /\ openfile_list \in TableType /\ fat1 \in FatType
         /\ SystemHeads \subseteq heads /\ heads \subseteq Block /\ heads \subseteq Roots
         /\ Roots \subseteq Block /\ Linked(fat1, Roots) /\ SystemLayout(fat1)
         /\ FolderBlocks(blk) \subseteq heads /\ Tree(blk, heads)
         /\ \A p \in Items(blk) :
              /\ Entry(blk, p) \in FcbType /\ Entry(blk, p).first \in heads \ SystemHeads
              /\ Entry(blk, p).first \in Block /\ Entry(blk, p).first # RootBlock
              /\ fat1[Entry(blk, p).first] # FREE
         /\ \A i \in UsedSlots : i \in 1..MaxOpen /\ openfile_list[i] \in UseropenType
<1>1. TypeOK /\ blk \in Blocks /\ openfile_list \in TableType
  BY FsTypes
<1>2. /\ fat1 \in FatType /\ SystemHeads \subseteq heads /\ heads \subseteq Block
      /\ heads \subseteq Roots /\ Roots \subseteq Block /\ Linked(fat1, Roots) /\ SystemLayout(fat1)
  BY <1>1, MemoryFacts DEF Sound, Roots
<1>3. FolderBlocks(blk) \subseteq heads /\ Tree(blk, heads)
  BY <1>1, <1>2, TreeFacts DEF MemoryTree
<1>4. ASSUME NEW p \in Items(blk)
      PROVE  /\ Entry(blk, p) \in FcbType /\ Entry(blk, p).first \in heads \ SystemHeads
             /\ Entry(blk, p).first \in Block /\ Entry(blk, p).first # RootBlock
             /\ fat1[Entry(blk, p).first] # FREE
  <2>1. Entry(blk, p).first \in heads \ SystemHeads
    BY <1>1, <1>2, <1>3, TreeFacts
  <2>2. Entry(blk, p) \in FcbType
    BY <1>1, ItemsIn, ItemsType
  <2>3. \A r \in Roots : fat1[r] # FREE
    BY <1>2, LinkedParts
  <2> QED BY <1>2, <2>1, <2>2, <2>3 DEF RootBlock, SystemHeads
<1>5. \A i \in UsedSlots : i \in 1..MaxOpen /\ openfile_list[i] \in UseropenType
  BY <1>1 DEF UsedSlots, TableType
<1> QED BY <1>1, <1>2, <1>3, <1>4, <1>5

(* A slot in use with the first block of an item is the item's. *)
LEMMA SlotOfItem ==
  ASSUME FsTypeOK, DiskInv, Sound, MemoryTree, NEW i \in UsedSlots, NEW p \in Items(blk),
         openfile_list[i].fcb.first = Entry(blk, p).first
  PROVE  LET slot == openfile_list[i]
             fcb  == Entry(blk, p)
         IN  /\ fcb.attribute = slot.fcb.attribute
             /\ fcb.attribute = File =>
                  /\ fcb.name = slot.fcb.name
                  /\ slot.fcb_state = 0 => fcb.length = slot.fcb.length
<1>1. SlotLive(openfile_list[i])
  BY DEF MemoryTree, TableSound
<1>2. openfile_list[i].fcb.first # RootBlock
  BY SoundFacts
<1>3. PICK q \in Items(blk) :
        LET fcb == Entry(blk, q)
        IN  /\ fcb.first = openfile_list[i].fcb.first
            /\ fcb.attribute = openfile_list[i].fcb.attribute
            /\ fcb.attribute = File =>
                 /\ fcb.name = openfile_list[i].fcb.name
                 /\ openfile_list[i].fcb_state = 0 => fcb.length = openfile_list[i].fcb.length
  BY <1>1, <1>2 DEF SlotLive
<1>4. q = p
  BY <1>3, SoundFacts, TreeFacts
<1> QED BY <1>3, <1>4

LEMMA FilesIn ==
  ASSUME NEW blocks, NEW p
  PROVE  p \in Files(blocks) <=> p \in Items(blocks) /\ Entry(blocks, p).attribute = File
BY DEF Files

(* A step that leaves the slots as they are, the items that are open, and  *)
(* the lengths and chains of the files, but for a new one.                 *)
Carries ==
  /\ \A i \in 1..MaxOpen :
       /\ openfile_list'[i].used = openfile_list[i].used
       /\ openfile_list'[i].fcb = openfile_list[i].fcb
       /\ openfile_list'[i].fcb_state = openfile_list[i].fcb_state
  /\ \A i \in UsedSlots, p \in Items(blk) :
       openfile_list[i].fcb.first = Entry(blk, p).first =>
         p \in Items(blk') /\ Entry(blk', p) = Entry(blk, p)
  /\ \A p \in Files(blk') :
       LET fcb == Entry(blk', p)
       IN  \/ pc' \in {"write", "trim"} /\ fcb.first = file'
           \/ /\ p \in Files(blk) /\ fcb = Entry(blk, p)
              /\ Chain(fat1', fcb.first) = Chain(fat1, fcb.first)
              /\ ~(pc \in {"write", "trim"} /\ fcb.first = file)
           \/ /\ fcb.first \notin heads /\ fcb.length = 0
              /\ Chain(fat1', fcb.first) = {fcb.first}
  /\ pc' \notin Saving

LEMMA NoText == 0 \div BLOCK_SIZE + 1 = 1
BY BlockSizeAssumption

LEMMA SlotFirst ==
  ASSUME FsTypeOK, DiskInv, Sound, MemoryTree, NEW i \in UsedSlots
  PROVE  openfile_list[i].fcb.first \in heads
<1>1. SlotLive(openfile_list[i])
  BY DEF MemoryTree, TableSound
<1>2. RootBlock \in heads
  BY SoundFacts DEF RootBlock, SystemHeads
<1> QED BY <1>1, <1>2, SoundFacts DEF SlotLive

LEMMA Carried ==
  ASSUME FsTypeOK, DiskInv, Sound, MemoryTree, Carries
  PROVE  TableSound' /\ SizesSound'
<1>1. UsedSlots' = UsedSlots
  BY DEF Carries, UsedSlots
<1>2. \A i \in UsedSlots : i \in 1..MaxOpen /\ openfile_list'[i].fcb = openfile_list[i].fcb
                           /\ openfile_list'[i].fcb_state = openfile_list[i].fcb_state
  BY DEF Carries, UsedSlots
<1>3. ASSUME NEW i \in UsedSlots PROVE SlotLive(openfile_list[i])'
  <2>1. SlotLive(openfile_list[i])
    BY DEF MemoryTree, TableSound
  <2>2. CASE openfile_list[i].fcb.first = RootBlock
    BY <1>2, <2>2 DEF SlotLive
  <2>3. CASE openfile_list[i].fcb.first # RootBlock
    <3>1. PICK q \in Items(blk) :
            LET fcb == Entry(blk, q)
            IN  /\ fcb.first = openfile_list[i].fcb.first
                /\ fcb.attribute = openfile_list[i].fcb.attribute
                /\ fcb.attribute = File =>
                     /\ fcb.name = openfile_list[i].fcb.name
                     /\ openfile_list[i].fcb_state = 0 => fcb.length = openfile_list[i].fcb.length
      BY <2>1, <2>3 DEF SlotLive
    <3>2. q \in Items(blk') /\ Entry(blk', q) = Entry(blk, q)
      BY <3>1 DEF Carries
    <3> QED BY <1>2, <3>1, <3>2 DEF SlotLive
  <2> QED BY <2>2, <2>3
<1>4. ASSUME NEW i \in UsedSlots, NEW k \in UsedSlots,
             openfile_list'[i].fcb.attribute = File, openfile_list'[i].fcb.first # RootBlock,
             openfile_list'[k].fcb.first = openfile_list'[i].fcb.first
      PROVE  i = k
  BY <1>2, <1>4 DEF MemoryTree, TableSound
<1>5. TableSound'
  BY <1>1, <1>3, <1>4 DEF TableSound, Carries
<1>6. SizesSound'
  <2>1. SUFFICES ASSUME NEW p \in Files(blk')
                 PROVE  LET fcb == Entry(blk', p)
                            fds == {i \in UsedSlots' : openfile_list'[i].fcb.first = fcb.first}
                        IN  \/ pc' \in {"write", "trim"} /\ fcb.first = file'
                            \/ /\ fds = {} => Fits(fat1', fcb.first, fcb.length)
                               /\ \A i \in fds : Fits(fat1', fcb.first, openfile_list'[i].fcb.length)
    BY DEF SizesSound
  <2> DEFINE fcb == Entry(blk', p)
             fds == {i \in UsedSlots : openfile_list[i].fcb.first = fcb.first}
  <2>2. /\ {i \in UsedSlots' : openfile_list'[i].fcb.first = fcb.first} = fds
        /\ \A i \in fds : openfile_list'[i].fcb.length = openfile_list[i].fcb.length
    BY <1>1, <1>2
  <2>3. SUFFICES ASSUME ~(pc' \in {"write", "trim"} /\ fcb.first = file')
                 PROVE  /\ fds = {} => Fits(fat1', fcb.first, fcb.length)
                        /\ \A i \in fds : Fits(fat1', fcb.first, openfile_list[i].fcb.length)
    BY <2>2
  <2>4. CASE /\ p \in Files(blk) /\ fcb = Entry(blk, p)
             /\ Chain(fat1', fcb.first) = Chain(fat1, fcb.first)
             /\ ~(pc \in {"write", "trim"} /\ fcb.first = file)
    <3>1. /\ fds = {} => Fits(fat1, fcb.first, fcb.length)
          /\ \A i \in fds : Fits(fat1, fcb.first, openfile_list[i].fcb.length)
      BY <2>4 DEF MemoryTree, SizesSound
    <3> QED BY <2>4, <3>1 DEF Fits
  <2>5. CASE /\ fcb.first \notin heads /\ fcb.length = 0
             /\ Chain(fat1', fcb.first) = {fcb.first}
    <3>1. fds = {}
      BY <2>5, SlotFirst
    <3>2. Cardinality({fcb.first}) = 1
      BY FS_Singleton
    <3> QED BY <2>5, <3>1, <3>2, NoText DEF Fits
  <2> QED BY <2>3, <2>4, <2>5 DEF Carries
<1> QED BY <1>5, <1>6
-----------------------------------------------------------------------------
(* What each command, iteration, save and death does to the folders, the  *)
(* slots and the lengths *)

(* What the path of a command leads to, if it goes through folders. *)
LEMMA ArgPlace ==
  ASSUME FsTypeOK, DiskInv, Sound, MemoryTree,
         NEW arg \in Arguments, Exists(arg), Through(Path(arg))
  PROVE  /\ Place(arg) \in FolderBlocks(blk) \X Slot /\ Place(arg) \in Places
         /\ Fcb(arg) = Entry(blk, Place(arg)) /\ Fcb(arg) \in FcbType /\ Fcb(arg).used
         /\ Fcb(arg).attribute \in {Folder, File} /\ Fcb(arg).first \in Block
         /\ Fcb(arg).name \in Dots => Fcb(arg).attribute = Folder
         /\ Fcb(arg).name \notin Dots => Place(arg) \in Items(blk)
         /\ Fcb(arg).attribute = Folder => Fcb(arg).first \in FolderBlocks(blk)
         /\ Fcb(arg).attribute = File => Place(arg) \in Files(blk)
<1>1. blk \in Blocks /\ SystemHeads \subseteq heads /\ Tree(blk, heads)
  BY SoundFacts
<1>2. /\ Path(arg) \in PathType /\ Place(arg) \in Places
      /\ Fcb(arg) \in FcbType /\ Fcb(arg).first \in Block
  BY ArgumentFacts
<1>3. find_fcb(blk, Path(arg)) # Nowhere /\ Place(arg) = find_fcb(blk, Path(arg))
  BY DEF Exists, Place
<1>4. Place(arg) \in FolderBlocks(blk) \X Slot /\ Entry(blk, Place(arg)).used
  BY <1>1, <1>2, <1>3, PathEnds DEF PathType
<1>5. Fcb(arg) = Entry(blk, Place(arg))
  BY DEF Fcb
<1>6. /\ Fcb(arg).name \in Dots => Fcb(arg).attribute = Folder
      /\ Fcb(arg).name \notin Dots => Place(arg) \in Items(blk)
      /\ Fcb(arg).attribute = Folder => Fcb(arg).first \in FolderBlocks(blk)
  BY <1>1, <1>4, <1>5, TreeFacts
<1>7. Fcb(arg).attribute \in {Folder, File} /\ Folder # File
  BY <1>2, FcbFields DEF Folder, File
<1>8. Fcb(arg).attribute = File => Place(arg) \in Files(blk)
  BY <1>5, <1>6, <1>7, FilesIn
<1> QED BY <1>2, <1>4, <1>5, <1>6, <1>7, <1>8

LEMMA CountChanged ==
  ASSUME FsTypeOK, NEW i \in 1..MaxOpen, NEW n,
         openfile_list' = [openfile_list EXCEPT ![i].count = n]
  PROVE  \A k \in 1..MaxOpen :
           /\ openfile_list'[k].used = openfile_list[k].used
           /\ openfile_list'[k].fcb = openfile_list[k].fcb
           /\ openfile_list'[k].fcb_state = openfile_list[k].fcb_state
<1>1. openfile_list \in TableType
  BY FsTypes
<1>2. \A k \in 1..MaxOpen : openfile_list'[k] =
        IF k = i THEN [openfile_list[i] EXCEPT !.count = n] ELSE openfile_list[k]
  BY <1>1 DEF TableType
<1>3. openfile_list[i] \in UseropenType
  BY <1>1 DEF TableType
<1>4. LET slot == [openfile_list[i] EXCEPT !.count = n]
      IN  /\ slot.used = openfile_list[i].used /\ slot.fcb = openfile_list[i].fcb
          /\ slot.fcb_state = openfile_list[i].fcb_state
  BY <1>3 DEF UseropenType
<1> QED BY <1>2, <1>4

LEMMA ReadStays ==
  ASSUME FsTypeOK, DiskInv, Sound, MemoryTree, NEW arg \in Arguments, my_read(arg)
  PROVE  MemoryTree'
<1> DEFINE i == OpenFd(arg)
<1>1. /\ pc = "cmd" /\ UNCHANGED vars /\ blk' = blk /\ i \in 1..MaxOpen
      /\ \E n : openfile_list' = [openfile_list EXCEPT ![i].count = n]
  <2>1. openfile_list \in TableType /\ OpenAs(openfile_list, Fcb(arg)) # {}
    BY FsTypes DEF my_read, Opened
  <2>2. i \in 1..MaxOpen
    BY <2>1, OpenAsType DEF OpenFd
  <2> HIDE DEF i
  <2>3. \E n : openfile_list' = [openfile_list EXCEPT ![i].count = n]
    BY DEF my_read, i
  <2> QED BY <2>2, <2>3 DEF my_read, Typed, NoDisk
<1> HIDE DEF i
<1>2. \A k \in 1..MaxOpen :
        /\ openfile_list'[k].used = openfile_list[k].used
        /\ openfile_list'[k].fcb = openfile_list[k].fcb
        /\ openfile_list'[k].fcb_state = openfile_list[k].fcb_state
  BY <1>1, CountChanged
<1>3. pc' = "cmd" /\ fat1' = fat1 /\ heads' = heads
  BY <1>1 DEF vars
<1>4. Carries
  BY <1>1, <1>2, <1>3 DEF Carries, Saving
<1>5. TableSound' /\ SizesSound'
  BY <1>4, Carried
<1>6. Tree(blk', heads')
  BY <1>1, <1>3 DEF MemoryTree
<1> QED BY <1>3, <1>5, <1>6 DEF MemoryTree, DoWriteSound

LEMMA WriteBeginStays ==
  ASSUME FsTypeOK, DiskInv, Sound, MemoryTree,
         NEW arg \in Arguments, NEW mode \in {"w", "a", "c"}, NEW at \in Nat, NEW k \in Sizes,
         my_write(arg, mode, at, k), Sound'
  PROVE  MemoryTree'
<1> DEFINE i == OpenFd(arg)
<1>1. PICK count \in Nat, text \in 0..(MaxBlocks * BLOCK_SIZE - 1) :
        /\ i \in 1..MaxOpen /\ i \in OpenAs(openfile_list, Fcb(arg))
        /\ Typed /\ Exists(arg) /\ Fcb(arg).attribute # Folder
        /\ write_begin(openfile_list[i].fcb.first, text \div BLOCK_SIZE + 1)
        /\ openfile_list' = [openfile_list EXCEPT ![i].count = count]
        /\ fd' = i /\ length' = text
        /\ Untidy(Through(Path(arg)))
        /\ UNCHANGED <<blk, curdir, current_dir, saved>>
  BY WriteGiven
<1> HIDE DEF i
<1>2. /\ \A n \in 1..MaxOpen :
           /\ openfile_list'[n].used = openfile_list[n].used
           /\ openfile_list'[n].fcb = openfile_list[n].fcb
           /\ openfile_list'[n].fcb_state = openfile_list[n].fcb_state
      /\ openfile_list[i].used /\ openfile_list[i].fcb.first = Fcb(arg).first
  BY <1>1, CountChanged DEF OpenAs, IsOpenAs
<1>3. /\ pc = "cmd" /\ pc' = "write" /\ file' = Fcb(arg).first /\ fat1' = fat1 /\ heads' = heads
      /\ static_num' = length' \div BLOCK_SIZE + 1 /\ blk' = blk
  BY <1>1, <1>2 DEF write_begin, Typed
<1>4. Place(arg) \in Files(blk) /\ Fcb(arg) = Entry(blk, Place(arg))
  BY <1>1, ArgPlace DEF Untidy, Sound
<1>5. Carries
  BY <1>2, <1>3 DEF Carries, Saving
<1>6. TableSound' /\ SizesSound'
  BY <1>5, Carried
<1>7. DoWriteSound'
  <2>1. fd' \in UsedSlots' /\ openfile_list'[fd'].fcb.first = file'
    BY <1>1, <1>2, <1>3 DEF UsedSlots
  <2>2. file' \in {Entry(blk', p).first : p \in Files(blk')}
    BY <1>3, <1>4
  <2> QED BY <1>3, <2>1, <2>2 DEF DoWriteSound
<1>8. Tree(blk', heads')
  BY <1>3 DEF MemoryTree
<1> QED BY <1>6, <1>7, <1>8 DEF MemoryTree

(* A slot in use is of the root, or it is of an item.                      *)
LEMMA SlotItem ==
  ASSUME NEW slot, SlotLive(slot), slot.fcb.first # RootBlock
  PROVE  \E p \in Items(blk) :
           /\ Entry(blk, p).first = slot.fcb.first /\ Entry(blk, p).attribute = slot.fcb.attribute
           /\ Entry(blk, p).attribute = File =>
                /\ Entry(blk, p).name = slot.fcb.name
                /\ slot.fcb_state = 0 => Entry(blk, p).length = slot.fcb.length
BY DEF SlotLive

(* Opening what is not open gives it a slot of its own. *)
LEMMA OpeningStays ==
  ASSUME FsTypeOK, DiskInv, Sound, MemoryTree, pc = "cmd",
         NEW arg \in Arguments, Exists(arg), Through(Path(arg)),
         OpenAs(openfile_list, Fcb(arg)) = {},
         NEW i \in 1..MaxOpen, ~openfile_list[i].used, opened(i, arg),
         UNCHANGED <<blk, fat1, heads, pc>>
  PROVE  MemoryTree'
<1> DEFINE fcb == Fcb(arg)
           place == Place(arg)
<1>1. /\ fcb = Entry(blk, place) /\ fcb \in FcbType /\ fcb.used /\ fcb.attribute \in {Folder, File}
      /\ fcb.name \in Dots => fcb.attribute = Folder
      /\ fcb.name \notin Dots => place \in Items(blk)
      /\ fcb.attribute = Folder => fcb.first \in FolderBlocks(blk)
      /\ fcb.attribute = File => place \in Files(blk)
  BY ArgPlace
<1>2. openfile_list \in TableType /\ openfile_list[i] \in UseropenType
  BY FsTypes DEF TableType
<1>3. openfile_list'[i] = [openfile_list[i] EXCEPT !.fcb = fcb, !.dir = Path(arg), !.count = 0,
                                                   !.used = TRUE]
  BY <1>2 DEF opened, TableType
<1>4. \A k \in 1..MaxOpen : k # i => openfile_list'[k] = openfile_list[k]
  BY <1>2 DEF opened, TableType
<1>5. openfile_list'[i].fcb = fcb /\ openfile_list'[i].used
  BY <1>2, <1>3 DEF UseropenType
<1>6. UsedSlots' = UsedSlots \cup {i} /\ i \notin UsedSlots
  BY <1>4, <1>5 DEF UsedSlots
<1>7. \A k \in UsedSlots : k \in 1..MaxOpen /\ openfile_list'[k] = openfile_list[k] /\ k # i
  BY <1>4, <1>6 DEF UsedSlots
<1>8. blk' = blk
  OBVIOUS
<1> HIDE DEF fcb, place
<1>9. ASSUME NEW k \in UsedSlots, openfile_list[k].fcb.first = fcb.first,
             fcb.attribute = File \/ openfile_list[k].fcb.attribute = File
      PROVE  fcb.first = RootBlock
  <2>1. SUFFICES ASSUME fcb.first # RootBlock PROVE FALSE
    OBVIOUS
  <2>2. SlotLive(openfile_list[k])
    BY DEF MemoryTree, TableSound
  <2>3. PICK q \in Items(blk) : /\ Entry(blk, q).first = fcb.first
                                /\ Entry(blk, q).attribute = openfile_list[k].fcb.attribute
                                /\ Entry(blk, q).attribute = File =>
                                     Entry(blk, q).name = openfile_list[k].fcb.name
    BY <1>9, <2>1, <2>2, SlotItem
  <2>4. Entry(blk, q).attribute = File
    <3>1. CASE fcb.attribute = File
      <4>1. place \in Items(blk)
        BY <1>1, <3>1, FilesIn
      <4>2. q = place
        BY <1>1, <2>3, <4>1, SoundFacts, TreeFacts
      <4> QED BY <1>1, <3>1, <4>2
    <3> QED BY <1>9, <2>3, <3>1
  <2>5. fcb.first \notin FolderBlocks(blk)
    <3>1. Entry(blk, q).attribute # Folder
      BY <2>4 DEF File, Folder
    <3> QED BY <2>3, <3>1, SoundFacts, TreeFacts
  <2>6. place \in Items(blk)
    BY <1>1, <2>5, FilesIn
  <2>7. q = place
    BY <1>1, <2>3, <2>6, SoundFacts, TreeFacts
  <2>8. openfile_list[k].fcb.name = fcb.name /\ openfile_list[k].used
    BY <1>1, <2>3, <2>4, <2>7 DEF UsedSlots
  <2>9. k \in OpenAs(openfile_list, fcb)
    BY <1>2, <1>7, <1>9, <2>8 DEF OpenAs, IsOpenAs, TableType
  <2> QED BY <2>9 DEF fcb
<1>10. ASSUME NEW k \in UsedSlots' PROVE SlotLive(openfile_list[k])'
  <2>1. CASE k # i
    <3>1. SlotLive(openfile_list[k]) /\ openfile_list'[k] = openfile_list[k]
      BY <1>6, <1>7, <2>1 DEF MemoryTree, TableSound
    <3> QED BY <1>8, <3>1 DEF SlotLive
  <2>2. CASE k = i
    <3>1. CASE fcb.name \notin Dots
      BY <1>1, <1>5, <1>8, <2>2, <3>1 DEF SlotLive
    <3>2. CASE fcb.name \in Dots /\ fcb.first # RootBlock
      <4>1. PICK p \in Items(blk) : Entry(blk, p).attribute = Folder /\ Entry(blk, p).first = fcb.first
        BY <1>1, <3>2, SoundFacts, FolderOfItem
      <4>2. Folder # File
        BY DEF Folder, File
      <4> QED BY <1>1, <1>5, <1>8, <2>2, <3>2, <4>1, <4>2 DEF SlotLive
    <3>3. CASE fcb.first = RootBlock
      BY <1>5, <2>2, <3>3 DEF SlotLive
    <3> QED BY <3>1, <3>2, <3>3
  <2> QED BY <2>1, <2>2
<1>11. ASSUME NEW k \in UsedSlots', NEW n \in UsedSlots',
              openfile_list'[k].fcb.attribute = File, openfile_list'[k].fcb.first # RootBlock,
              openfile_list'[n].fcb.first = openfile_list'[k].fcb.first
       PROVE  k = n
  <2>1. CASE k \in UsedSlots /\ n \in UsedSlots
    BY <1>7, <1>11, <2>1 DEF MemoryTree, TableSound
  <2>2. CASE k \in UsedSlots /\ n = i
    BY <1>5, <1>7, <1>9, <1>11, <2>2
  <2>3. CASE n \in UsedSlots /\ k = i
    BY <1>5, <1>7, <1>9, <1>11, <2>3
  <2> QED BY <1>6, <2>1, <2>2, <2>3
<1>12. pc' = "cmd"
  OBVIOUS
<1>13. TableSound'
  BY <1>10, <1>11, <1>12 DEF TableSound, Saving
<1>14. SizesSound'
  <2>1. SUFFICES ASSUME NEW p \in Files(blk)
                 PROVE  LET e   == Entry(blk, p)
                            fds == {k \in UsedSlots' : openfile_list'[k].fcb.first = e.first}
                        IN  /\ fds = {} => Fits(fat1, e.first, e.length)
                            /\ \A k \in fds : Fits(fat1, e.first, openfile_list'[k].fcb.length)
    BY DEF SizesSound
  <2> DEFINE e == Entry(blk, p)
             fds == {k \in UsedSlots : openfile_list[k].fcb.first = e.first}
             after == {k \in UsedSlots' : openfile_list'[k].fcb.first = e.first}
  <2>2. /\ fds = {} => Fits(fat1, e.first, e.length)
        /\ \A k \in fds : Fits(fat1, e.first, openfile_list[k].fcb.length)
    BY <1>12 DEF MemoryTree, SizesSound
  <2>3. CASE fcb.first # e.first
    <3>1. after = fds
      BY <1>5, <1>6, <1>7, <2>3
    <3>2. \A k \in fds : openfile_list'[k] = openfile_list[k]
      BY <1>7
    <3> QED BY <2>2, <3>1, <3>2
  <2>4. CASE fcb.first = e.first
    <3>1. p \in Items(blk) /\ e.attribute = File /\ e.first # RootBlock
      BY FilesIn, SoundFacts
    <3>2. e.first \notin FolderBlocks(blk)
      <4>1. e.attribute # Folder
        BY <3>1 DEF File, Folder
      <4> QED BY <3>1, <4>1, SoundFacts, TreeFacts
    <3>3. place \in Items(blk) /\ fcb.attribute = File
      BY <1>1, <2>4, <3>2, FilesIn
    <3>4. place = p
      BY <1>1, <2>4, <3>1, <3>3, SoundFacts, TreeFacts
    <3>5. fds = {}
      BY <1>9, <2>4, <3>1, <3>3
    <3>6. \A k \in after : k = i
      BY <1>6, <1>7, <3>5
    <3>7. i \in after
      BY <1>5, <1>6, <2>4
    <3> QED BY <1>1, <1>5, <2>2, <3>4, <3>5, <3>6, <3>7
  <2> QED BY <2>3, <2>4
<1>15. Tree(blk', heads')
  BY DEF MemoryTree
<1> QED BY <1>12, <1>13, <1>14, <1>15 DEF MemoryTree, DoWriteSound

LEMMA NothingStays ==
  ASSUME MemoryTree, pc = "cmd",
         UNCHANGED <<blk, openfile_list, heads, fat1, pc>>
  PROVE  MemoryTree'
<1>1. UsedSlots' = UsedSlots /\ pc' = "cmd"
  BY DEF UsedSlots
<1>2. TableSound'
  BY <1>1 DEF MemoryTree, TableSound, SlotLive
<1>3. SizesSound'
  BY <1>1 DEF MemoryTree, SizesSound
<1> QED BY <1>1, <1>2, <1>3 DEF MemoryTree, DoWriteSound

LEMMA CdStays ==
  ASSUME FsTypeOK, DiskInv, Sound, MemoryTree, NEW arg \in Arguments, my_cd(arg), Sound'
  PROVE  MemoryTree'
<1> DEFINE i == get_useropen(openfile_list)
           open == OpenAs(openfile_list, Fcb(arg))
<1>1. /\ pc = "cmd" /\ Exists(arg) /\ UNCHANGED <<blk, heads, fat1, pc>>
      /\ \/ UNCHANGED openfile_list
         \/ open = {} /\ (i > 1 \/ i = 1) /\ opened(i, arg)
  <2>1. \/ UNCHANGED openfile_list
        \/ open = {} /\ (i > 1 \/ i = 1) /\ opened(i, arg)
    BY DEF my_cd
  <2> HIDE DEF i, open
  <2> QED BY <2>1 DEF my_cd, Typed, NoDisk, vars
<1>2. Through(Path(arg))
  BY DEF my_cd, Untidy, Sound
<1>3. openfile_list \in TableType
  BY FsTypes
<1>4. CASE UNCHANGED openfile_list
  BY <1>1, <1>4, NothingStays
<1>5. CASE open = {} /\ (i > 1 \/ i = 1) /\ opened(i, arg)
  <2>1. i # -1
    BY <1>5
  <2>2. i \in 1..MaxOpen /\ ~openfile_list[i].used
    BY <1>3, <2>1, UseropenFree
  <2> HIDE DEF i
  <2> QED BY <1>1, <1>2, <1>5, <2>2, OpeningStays
<1> QED BY <1>1, <1>4, <1>5

LEMMA OpenStays ==
  ASSUME FsTypeOK, DiskInv, Sound, MemoryTree, NEW arg \in Arguments, my_open(arg), Sound'
  PROVE  MemoryTree'
<1> DEFINE i == get_useropen(openfile_list)
<1>1. /\ pc = "cmd" /\ Exists(arg) /\ UNCHANGED <<blk, heads, fat1, pc>>
      /\ i # -1 /\ opened(i, arg)
  <2>1. i # -1 /\ opened(i, arg)
    BY DEF my_open
  <2> HIDE DEF i
  <2> QED BY <2>1 DEF my_open, Typed, NoDisk, vars
<1>2. Through(Path(arg)) /\ OpenAs(openfile_list, Fcb(arg)) = {}
  BY DEF my_open, Untidy, Sound
<1>3. openfile_list \in TableType
  BY FsTypes
<1>4. i \in 1..MaxOpen /\ ~openfile_list[i].used
  BY <1>1, <1>3, UseropenFree
<1> HIDE DEF i
<1> QED BY <1>1, <1>2, <1>4, OpeningStays

(* A slot that is to be saved and is not stale is of a file in a folder.   *)
LEMMA PlaceOfSlot ==
  ASSUME FsTypeOK, DiskInv, Sound, MemoryTree, NEW i \in 1..MaxOpen,
         ~Stale(i), openfile_list[i].fcb_state = 1, openfile_list[i].fcb.attribute = File
  PROVE  Where(i) \in Files(blk)
<1>1. /\ Where(i) \in Places /\ Through(openfile_list[i].dir)
      /\ Alike(Entry(blk, Where(i)), openfile_list[i].fcb)
  BY NotStale
<1>2. openfile_list[i].dir \in PathType
  BY FsTypes, SlotFields DEF TableType
<1>3. find_fcb(blk, openfile_list[i].dir) # Nowhere
  BY <1>1, NowhereElse DEF Where
<1>4. blk \in Blocks /\ SystemHeads \subseteq heads /\ Tree(blk, heads)
  BY SoundFacts
<1>5. Where(i) \in FolderBlocks(blk) \X Slot /\ Entry(blk, Where(i)).used
  BY <1>1, <1>2, <1>3, <1>4, PathEnds DEF PathType, Where
<1>6. Entry(blk, Where(i)).attribute = File /\ Entry(blk, Where(i)).attribute # Folder
  BY <1>1 DEF Alike, File, Folder
<1>7. Where(i) \in Items(blk)
  BY <1>4, <1>5, <1>6, TreeFacts
<1> QED BY <1>6, <1>7, FilesIn

(* What is known of a slot whose closing saves a file's entry. *)
LEMMA WriterOf ==
  ASSUME FsTypeOK, DiskInv, Sound, MemoryTree, NEW p \in Files(blk), NEW i \in 1..MaxOpen,
         ~Stale(i), openfile_list[i].fcb_state = 1, Where(i) = p
  PROVE  /\ openfile_list[i].fcb.first = Entry(blk, p).first
         /\ ~openfile_list[i].used =>
              /\ Entry(blk, p) = openfile_list[i].fcb
              /\ \A k \in UsedSlots : openfile_list[k].fcb.first # Entry(blk, p).first
<1>1. /\ Alike(Entry(blk, p), openfile_list[i].fcb)
      /\ ~openfile_list[i].used => /\ Entry(blk, p) = openfile_list[i].fcb
                                   /\ OpenAs(openfile_list, openfile_list[i].fcb) = {}
  BY NotStale
<1>2. p \in Items(blk) /\ Entry(blk, p).attribute = File
  BY FilesIn
<1>3. ASSUME ~openfile_list[i].used, NEW k \in UsedSlots,
             openfile_list[k].fcb.first = Entry(blk, p).first
      PROVE  FALSE
  <2>1. openfile_list[k].fcb.name = Entry(blk, p).name
    BY <1>2, <1>3, SlotOfItem
  <2>2. k \in 1..MaxOpen /\ openfile_list[k].used /\ openfile_list \in TableType
    BY FsTypes DEF UsedSlots
  <2>3. k \in OpenAs(openfile_list, openfile_list[i].fcb)
    BY <1>1, <1>3, <2>1, <2>2 DEF OpenAs, IsOpenAs, TableType
  <2> QED BY <1>1, <1>3, <2>3
<1> QED BY <1>1, <1>3 DEF Alike

(* A file is open in one slot at most. *)
LEMMA OneSlot ==
  ASSUME FsTypeOK, DiskInv, Sound, MemoryTree, NEW p \in Files(blk),
         NEW i \in UsedSlots, openfile_list[i].fcb.first = Entry(blk, p).first,
         NEW k \in UsedSlots, openfile_list[k].fcb.first = Entry(blk, p).first
  PROVE  i = k
<1>1. p \in Items(blk) /\ Entry(blk, p).attribute = File
  BY FilesIn
<1>2. openfile_list[i].fcb.attribute = File /\ openfile_list[i].fcb.first # RootBlock
  BY <1>1, SlotOfItem, SoundFacts
<1> QED BY <1>2 DEF MemoryTree, TableSound

(* A table with fewer slots in use, on a tree of the same items.           *)
LEMMA FewerSlots ==
  ASSUME FsTypeOK, DiskInv, Sound, MemoryTree, pc = "cmd",
         NEW fds, fds \subseteq 1..MaxOpen,
         openfile_list' = [i \in 1..MaxOpen |->
           IF i \in fds THEN [openfile_list[i] EXCEPT !.used = FALSE] ELSE openfile_list[i]],
         blk' \in Blocks, AllAlike(blk, blk'),
         \A p \in Files(blk) : \A i \in UsedSlots :
           openfile_list[i].fcb.first = Entry(blk, p).first =>
             IF i \in fds THEN Entry(blk', p).length = openfile_list[i].fcb.length
                          ELSE Entry(blk', p).length = Entry(blk, p).length,
         \A p \in Files(blk) :
           (\A i \in UsedSlots : openfile_list[i].fcb.first # Entry(blk, p).first)
             => Entry(blk', p).length = Entry(blk, p).length,
         UNCHANGED <<heads, fat1>>,
         pc' = "cmd" \/ (pc' = "exiting" /\ fds = 1..MaxOpen)
  PROVE  MemoryTree'
<1>1. \A i \in 1..MaxOpen :
        /\ i \in fds => ~openfile_list'[i].used
        /\ i \notin fds => openfile_list'[i] = openfile_list[i]
  BY FsTypes DEF TableType, UseropenType
<1>2. UsedSlots' = UsedSlots \ fds
  BY <1>1 DEF UsedSlots
<1>3. \A i \in UsedSlots' : i \in UsedSlots /\ i \notin fds /\ openfile_list'[i] = openfile_list[i]
  BY <1>1, <1>2 DEF UsedSlots
<1>4. blk \in Blocks /\ SystemHeads \subseteq heads /\ Tree(blk, heads)
  BY SoundFacts
<1>5. \A b \in FolderBlocks(blk), s \in Slot : Alike(blk[b][s], blk'[b][s])
  <2>1. FolderBlocks(blk) \subseteq Block
    BY <1>4, FolderLeast
  <2> QED BY <2>1 DEF AllAlike
<1>6. /\ Items(blk') = Items(blk) /\ Tree(blk', heads)
      /\ \A p \in Items(blk) : Alike(Entry(blk, p), Entry(blk', p))
  BY <1>4, <1>5, TreeAlike
<1>7. \A p : p \in Files(blk') <=> p \in Files(blk)
  BY <1>6, FilesIn DEF Alike
<1>8. ASSUME NEW i \in UsedSlots' PROVE SlotLive(openfile_list[i])'
  <2>1. i \in UsedSlots /\ i \notin fds /\ openfile_list'[i] = openfile_list[i]
    BY <1>3
  <2>2. SlotLive(openfile_list[i])
    BY <2>1 DEF MemoryTree, TableSound
  <2>3. CASE openfile_list[i].fcb.first = RootBlock
    BY <2>1, <2>3 DEF SlotLive
  <2>4. CASE openfile_list[i].fcb.first # RootBlock
    <3>1. PICK q \in Items(blk) :
            /\ Entry(blk, q).first = openfile_list[i].fcb.first
            /\ Entry(blk, q).attribute = openfile_list[i].fcb.attribute
            /\ Entry(blk, q).attribute = File =>
                 /\ Entry(blk, q).name = openfile_list[i].fcb.name
                 /\ openfile_list[i].fcb_state = 0 =>
                      Entry(blk, q).length = openfile_list[i].fcb.length
      BY <2>2, <2>4, SlotItem
    <3>2. q \in Items(blk') /\ Alike(Entry(blk, q), Entry(blk', q))
      BY <1>6
    <3>3. Entry(blk, q).attribute = File => Entry(blk', q).length = Entry(blk, q).length
      BY <2>1, <3>1, FilesIn
    <3> QED BY <2>1, <3>1, <3>2, <3>3 DEF SlotLive, Alike
  <2> QED BY <2>3, <2>4
<1>9. TableSound'
  <2>1. ASSUME NEW i \in UsedSlots', NEW k \in UsedSlots',
               openfile_list'[i].fcb.attribute = File, openfile_list'[i].fcb.first # RootBlock,
               openfile_list'[k].fcb.first = openfile_list'[i].fcb.first
        PROVE  i = k
    <3>1. /\ i \in UsedSlots /\ openfile_list'[i] = openfile_list[i]
          /\ k \in UsedSlots /\ openfile_list'[k] = openfile_list[k]
      BY <1>3
    <3> QED BY <2>1, <3>1 DEF MemoryTree, TableSound
  <2>2. pc' \in Saving => UsedSlots' = {}
    BY <1>2 DEF Saving, UsedSlots
  <2> QED BY <1>8, <2>1, <2>2 DEF TableSound
<1>10. SizesSound'
  <2>1. SUFFICES ASSUME NEW p \in Files(blk)
                 PROVE  LET e    == Entry(blk', p)
                            left == {i \in UsedSlots' : openfile_list'[i].fcb.first = e.first}
                        IN  /\ left = {} => Fits(fat1, e.first, e.length)
                            /\ \A i \in left : Fits(fat1, e.first, openfile_list'[i].fcb.length)
    BY <1>7 DEF SizesSound
  <2> DEFINE e == Entry(blk, p)
             all == {i \in UsedSlots : openfile_list[i].fcb.first = e.first}
             left == {i \in UsedSlots' : openfile_list'[i].fcb.first = e.first}
  <2>2. /\ all = {} => Fits(fat1, e.first, e.length)
        /\ \A i \in all : Fits(fat1, e.first, openfile_list[i].fcb.length)
    BY DEF MemoryTree, SizesSound
  <2>3. Entry(blk', p).first = e.first
    BY <1>6, FilesIn DEF Alike
  <2>4. left = {i \in all : i \notin fds}
    BY <1>2, <1>3
  <2>5. ASSUME NEW i \in left PROVE Fits(fat1, e.first, openfile_list'[i].fcb.length)
    BY <1>3, <2>2, <2>4
  <2>6. ASSUME left = {} PROVE Fits(fat1, e.first, Entry(blk', p).length)
    <3>1. CASE all = {}
      <4>1. Entry(blk', p).length = e.length
        BY <3>1
      <4> QED BY <2>2, <3>1, <4>1
    <3>2. CASE all # {}
      <4>1. PICK i \in all : i \in fds
        BY <2>4, <2>6, <3>2
      <4>2. Entry(blk', p).length = openfile_list[i].fcb.length
        BY <4>1
      <4> QED BY <2>2, <4>1, <4>2
    <3> QED BY <3>1, <3>2
  <2> QED BY <2>3, <2>5, <2>6
<1> QED BY <1>6, <1>9, <1>10 DEF MemoryTree, DoWriteSound

LEMMA CloseAllStays ==
  ASSUME FsTypeOK, DiskInv, Sound, MemoryTree, close_all, Sound'
  PROVE  MemoryTree'
<1> DEFINE fds == {i \in 1..MaxOpen : i # curdir /\ openfile_list[i].used}
           Kept(i) == Entry(blk, find_fcb(blk, openfile_list[i].dir)) = openfile_list[i].fcb
<1>1. /\ openfile_list' = [i \in 1..MaxOpen |->
           IF i \in fds THEN [openfile_list[i] EXCEPT !.used = FALSE] ELSE openfile_list[i]]
      /\ \A i \in fds : openfile_list[i].fcb_state = 1 => ~Stale(i) /\ Kept(i)
      /\ fds \subseteq 1..MaxOpen
  BY DEF close_all, Untidy, Sound
<1>2. pc = "cmd" /\ pc' = "cmd" /\ UNCHANGED <<blk, heads, fat1>>
  BY DEF close_all, Typed, NoDisk, vars
<1>3. ASSUME NEW p \in Files(blk), NEW i \in UsedSlots,
             openfile_list[i].fcb.first = Entry(blk, p).first, i \in fds
      PROVE  Entry(blk, p).length = openfile_list[i].fcb.length
  <2>1. p \in Items(blk) /\ Entry(blk, p).attribute = File
    BY FilesIn
  <2>2. /\ openfile_list[i].fcb.attribute = File
        /\ openfile_list[i].fcb_state = 0 => Entry(blk, p).length = openfile_list[i].fcb.length
    BY <1>3, <2>1, SlotOfItem
  <2>3. i \in 1..MaxOpen /\ openfile_list[i].fcb_state \in {0, 1}
    BY SoundFacts, SlotFields
  <2>4. CASE openfile_list[i].fcb_state = 1
    <3>1. ~Stale(i) /\ Entry(blk, Where(i)) = openfile_list[i].fcb
      BY <1>1, <1>3, <2>4 DEF Where
    <3>2. Where(i) \in Files(blk)
      BY <2>2, <2>3, <2>4, <3>1, PlaceOfSlot
    <3>3. Where(i) = p
      BY <1>3, <2>1, <3>1, <3>2, FilesIn, SoundFacts, TreeFacts
    <3> QED BY <3>1, <3>3
  <2> QED BY <2>2, <2>3, <2>4
<1> HIDE DEF fds
<1>4. AllAlike(blk, blk') /\ blk' \in Blocks
  BY <1>2, FsTypes DEF AllAlike, Alike
<1>5. \A p : Entry(blk', p) = Entry(blk, p)
  BY <1>2
<1> QED BY <1>1, <1>2, <1>3, <1>4, <1>5, FewerSlots

(* do_close, for slots that are not stale and among them, of each file     *)
(* that is open in one of them, the one in use.                            *)
LEMMA SavingStays ==
  ASSUME FsTypeOK, DiskInv, Sound, MemoryTree, pc = "cmd",
         NEW fds, fds \subseteq 1..MaxOpen, \A i \in fds : ~Stale(i),
         CloseAll(blk, openfile_list, fds).ok,
         blk' = CloseAll(blk, openfile_list, fds).blk,
         openfile_list' = CloseAll(blk, openfile_list, fds).table,
         UNCHANGED <<heads, fat1>>,
         pc' = "cmd" \/ (pc' = "exiting" /\ fds = 1..MaxOpen)
  PROVE  MemoryTree'
<1> DEFINE m == CloseAll(blk, openfile_list, fds)
<1>1. ClosedTo(m, fds, MaxOpen) /\ AllAlike(blk, m.blk) /\ m \in Memory
  BY CloseAllWrites, CloseAllType
<1>2. blk' = m.blk /\ openfile_list' = m.table
  OBVIOUS
<1> HIDE DEF m
<1>3. MaxOpen \in Nat /\ \A i \in 1..MaxOpen : i <= MaxOpen
  BY MaxOpenAssumption
<1>4. openfile_list' = [i \in 1..MaxOpen |->
        IF i \in fds THEN [openfile_list[i] EXCEPT !.used = FALSE] ELSE openfile_list[i]]
  BY <1>1, <1>2, <1>3 DEF ClosedTo
<1>5. blk' \in Blocks /\ AllAlike(blk, blk')
  BY <1>1, <1>2, MemoryFields
<1> DEFINE W(p) == Writers(fds, MaxOpen, p)
<1>6. ASSUME NEW p \in Files(blk)
      PROVE  /\ p \in Places
             /\ W(p) = {} => Entry(blk', p) = Entry(blk, p)
             /\ W(p) # {} => \E i \in W(p) : Entry(blk', p) = openfile_list[i].fcb
             /\ \A i \in W(p) : /\ i \in fds /\ i \in 1..MaxOpen /\ ~Stale(i)
                                /\ openfile_list[i].fcb_state = 1 /\ Where(i) = p
  <2>1. p \in Places
    BY FilesIn, ItemsIn, ItemsType, SoundFacts
  <2> QED BY <1>1, <1>2, <2>1 DEF ClosedTo, Writers
<1>7. ASSUME NEW p \in Files(blk), NEW i \in W(p)
      PROVE  /\ openfile_list[i].fcb.first = Entry(blk, p).first
             /\ i \notin UsedSlots =>
                  /\ Entry(blk, p) = openfile_list[i].fcb
                  /\ \A k \in UsedSlots : openfile_list[k].fcb.first # Entry(blk, p).first
  <2>1. i \in fds /\ i \in 1..MaxOpen /\ ~Stale(i) /\ openfile_list[i].fcb_state = 1 /\ Where(i) = p
    BY <1>6
  <2> HIDE DEF W
  <2> QED BY <2>1, WriterOf DEF UsedSlots
<1>8. ASSUME NEW p \in Files(blk), NEW i \in UsedSlots,
             openfile_list[i].fcb.first = Entry(blk, p).first
      PROVE  IF i \in fds THEN Entry(blk', p).length = openfile_list[i].fcb.length
                          ELSE Entry(blk', p).length = Entry(blk, p).length
  <2>1. ASSUME NEW j \in W(p) PROVE j = i /\ i \in fds
    <3>1. j \in UsedSlots /\ openfile_list[j].fcb.first = Entry(blk, p).first
      BY <1>7, <1>8
    <3>2. j \in fds
      BY <1>6
    <3> HIDE DEF W
    <3> QED BY <1>8, <3>1, <3>2, OneSlot
  <2>2. CASE W(p) # {}
    <3>1. PICK j \in W(p) : Entry(blk', p) = openfile_list[j].fcb
      BY <1>6, <2>2
    <3> QED BY <2>1, <3>1
  <2>3. CASE W(p) = {}
    <3>1. Entry(blk', p) = Entry(blk, p)
      BY <1>6, <2>3
    <3>2. p \in Items(blk) /\ Entry(blk, p).attribute = File
      BY FilesIn
    <3>3. /\ openfile_list[i].fcb.attribute = File
          /\ openfile_list[i].fcb_state = 0 => Entry(blk, p).length = openfile_list[i].fcb.length
      BY <1>8, <3>2, SlotOfItem
    <3>4. i \in 1..MaxOpen /\ openfile_list[i].fcb_state \in {0, 1}
      BY SoundFacts, SlotFields
    <3>5. ASSUME i \in fds, openfile_list[i].fcb_state = 1 PROVE FALSE
      <4>1. Where(i) \in Files(blk) /\ ~Stale(i)
        BY <3>3, <3>4, <3>5, PlaceOfSlot
      <4>2. Alike(Entry(blk, Where(i)), openfile_list[i].fcb)
        BY <3>4, <3>5, <4>1, NotStale
      <4>3. Where(i) = p
        BY <1>8, <3>2, <4>1, <4>2, FilesIn, SoundFacts, TreeFacts DEF Alike
      <4>4. i \in W(p)
        BY <1>3, <3>4, <3>5, <4>3 DEF Writers
      <4> QED BY <2>3, <4>4
    <3> QED BY <3>1, <3>3, <3>4, <3>5
  <2> QED BY <2>2, <2>3
<1>9. ASSUME NEW p \in Files(blk),
             \A i \in UsedSlots : openfile_list[i].fcb.first # Entry(blk, p).first
      PROVE  Entry(blk', p).length = Entry(blk, p).length
  <2>1. CASE W(p) # {}
    <3>1. PICK j \in W(p) : Entry(blk', p) = openfile_list[j].fcb
      BY <1>6, <2>1
    <3>2. j \notin UsedSlots
      BY <1>7, <1>9
    <3> QED BY <1>7, <3>1, <3>2
  <2>2. CASE W(p) = {}
    BY <1>6, <2>2
  <2> QED BY <2>1, <2>2
<1> HIDE DEF W
<1> QED BY <1>4, <1>5, <1>8, <1>9, FewerSlots

LEMMA CloseStays ==
  ASSUME FsTypeOK, DiskInv, Sound, MemoryTree, NEW arg \in Arguments, my_close(arg), Sound'
  PROVE  MemoryTree'
<1> DEFINE fds == OpenAs(openfile_list, Fcb(arg))
<1>1. /\ CloseAll(blk, openfile_list, fds).ok
      /\ blk' = CloseAll(blk, openfile_list, fds).blk
      /\ openfile_list' = CloseAll(blk, openfile_list, fds).table
      /\ \A i \in fds : ~Stale(i)
  BY DEF my_close, Untidy, Sound
<1>2. fds \subseteq 1..MaxOpen
  BY FsTypes, OpenAsType
<1> HIDE DEF fds
<1>3. pc = "cmd" /\ pc' = "cmd" /\ UNCHANGED <<heads, fat1>>
  BY DEF my_close, Typed, NoDisk, vars
<1> QED BY <1>1, <1>2, <1>3, SavingStays

LEMMA ExitStays ==
  ASSUME FsTypeOK, DiskInv, Sound, MemoryTree, exit, Sound'
  PROVE  MemoryTree'
<1> DEFINE fds == 1..MaxOpen
<1>1. /\ CloseAll(blk, openfile_list, fds).ok
      /\ blk' = CloseAll(blk, openfile_list, fds).blk
      /\ openfile_list' = CloseAll(blk, openfile_list, fds).table
      /\ \A i \in fds : ~Stale(i)
  BY DEF exit, Untidy, Sound
<1>2. pc = "cmd" /\ pc' = "exiting" /\ UNCHANGED <<heads, fat1>>
  BY DEF exit, Typed, my_exit_sys
<1> QED BY <1>1, <1>2, SavingStays
-----------------------------------------------------------------------------
(* Files and folders that are made and removed *)

(* The names of the entries that the user makes are not "." and "..".      *)
LEMMA NewNames ==
  ASSUME NEW name \in Names, NEW first \in Block
  PROVE  /\ FileEntry(name, first).name \notin Dots /\ FileEntry(name, first).used
         /\ FileEntry(name, first).attribute = File /\ FileEntry(name, first).first = first
         /\ FileEntry(name, first).length = 0
         /\ FolderEntry(name, first).name \notin Dots /\ FolderEntry(name, first).used
         /\ FolderEntry(name, first).attribute = Folder /\ FolderEntry(name, first).first = first
         /\ File # Folder
<1>1. name[1] # "." /\ name[1] # ".."
  BY NamesAssumption
<1>2. Dot[1] = "." /\ DotDot[1] = ".." /\ <<name[1], Nothing>>[1] = name[1]
  BY DEF Dot, DotDot
<1>3. name \notin Dots /\ <<name[1], Nothing>> \notin Dots
  BY <1>1, <1>2 DEF Dots
<1> QED BY <1>3 DEF FileEntry, FolderEntry, set_fcb, File, Folder

(* The first two entries of a new folder. *)
LEMMA NewFolder ==
  ASSUME NEW blocks \in Blocks, NEW first \in Block, NEW second \in Block
  PROVE  LET new == init_folder(blocks, first, second)
         IN  /\ new[1].used /\ new[1].name = Dot /\ new[1].first = second
             /\ new[2].used /\ new[2].name = DotDot /\ new[2].first = first
             /\ new[1].attribute = Folder /\ new[2].attribute = Folder
             /\ \A t \in Slot \ {1, 2} : ~new[t].used
<1> DEFINE new == init_folder(blocks, first, second)
           up  == [FolderEntry(DotDot, first) EXCEPT !.length = blocks[first][1].length]
<1>1. \A t \in Slot : new[t] = IF t = 2 THEN up ELSE IF t = 1 THEN FolderEntry(Dot, second) ELSE NoEntry
  BY FirstSlots DEF init_folder, Blank
<1>2. up.used /\ up.name = DotDot /\ up.first = first /\ up.attribute = Folder
  BY DEF FolderEntry, set_fcb
<1>3. ~NoEntry.used
  BY DEF NoEntry
<1> HIDE DEF new, up
<1>4. /\ new[1] = FolderEntry(Dot, second) /\ new[2] = up
      /\ \A t \in Slot \ {1, 2} : new[t] = NoEntry
  <2>1. 1 \in Slot /\ 2 \in Slot
    BY FirstSlots
  <2>2. new[1] = FolderEntry(Dot, second)
    BY <1>1, <2>1
  <2>3. new[2] = up
    BY <1>1, <2>1
  <2>4. \A t \in Slot \ {1, 2} : new[t] = NoEntry
    BY <1>1
  <2> QED BY <2>2, <2>3, <2>4
<1>5. /\ new[1].used /\ new[1].name = Dot /\ new[1].first = second /\ new[1].attribute = Folder
  BY <1>4 DEF FolderEntry, set_fcb
<1> QED BY <1>2, <1>3, <1>4, <1>5 DEF new

(* An entry for a block that was free, made in a folder. *)
LEMMA EnteringStays ==
  ASSUME FsTypeOK, DiskInv, Sound, MemoryTree, pc = "cmd", pc' = "cmd",
         NEW parent \in PathType, HasRoom(parent), IsFolder(parent),
         NEW entry \in FcbType, entry.used, entry.name \notin Dots,
         entry.attribute = File => entry.length = 0,
         entry.first = get_free(fat1, 1), get_free(fat1, 1) # -1,
         fat1' = set_free_allocate(fat1, entry.first, 1), heads' = heads \cup {entry.first},
         UNCHANGED openfile_list,
         blk' \in Blocks,
         \A c \in Block \ {entry.first} : blk'[c] = Enter(parent, entry)[c],
         entry.attribute = File => blk' = Enter(parent, entry),
         entry.attribute = Folder =>
           blk'[entry.first] = init_folder(Enter(parent, entry),
                                           Entry(blk, find_fcb(blk, parent)).first, entry.first)
  PROVE  MemoryTree'
<1> DEFINE place == find_fcb(blk, parent)
           b     == Entry(blk, place).first
           new   == entry.first
           T     == FolderBlocks(blk)
<1>1. /\ blk \in Blocks /\ fat1 \in FatType /\ SystemHeads \subseteq heads /\ Tree(blk, heads)
      /\ heads \subseteq Roots /\ Roots \subseteq Block /\ Linked(fat1, Roots) /\ T \subseteq heads
      /\ T \subseteq Block
  BY SoundFacts, FolderLeast
<1>2. Len(parent) \in Nat /\ parent \in Seq(Names \cup Dots)
  BY DEF PathType
<1>3. place \in Places /\ b \in Block /\ Enter(parent, entry) \in Blocks
  BY <1>1, <1>2, EnterWhere
<1>4. PICK s \in Slot : ~blk[b][s].used /\ Enter(parent, entry) = [blk EXCEPT ![b][s] = entry]
  BY <1>1, <1>2, EnterWhere
<1>5. b \in T
  <2>1. PICK w : Follows(w, blk, parent) /\ place = w[Len(parent)]
    BY <1>1, <1>2, FindWalk
  <2>2. Through(parent) /\ Entry(blk, place).attribute = Folder
    BY <1>1, <1>2, <2>1, AlongFolders
  <2>3. place # Nowhere
    BY <1>3, NowhereElse
  <2>4. place \in T \X Slot /\ Entry(blk, place).used
    BY <1>1, <1>2, <2>2, <2>3, PathEnds
  <2> HIDE DEF place
  <2> QED BY <1>1, <2>2, <2>4, TreeFacts
<1>6. new \in Block /\ fat1[new] = FREE
  BY <1>1, GetFreeFindsFree
<1>7. new \notin heads /\ new \notin T
  BY <1>1, <1>6, LinkedParts
<1> HIDE DEF place, b
<1>8. \A c \in Block, t \in Slot :
        Enter(parent, entry)[c][t] = IF c = b /\ t = s THEN entry ELSE blk[c][t]
  BY <1>1, <1>3, <1>4 DEF Blocks
<1>9. Grown(blk', blk, b, s, entry)
  <2>1. \A c \in T, t \in Slot : blk'[c][t] = IF c = b /\ t = s THEN entry ELSE blk[c][t]
    BY <1>1, <1>7, <1>8
  <2>2. ASSUME entry.attribute = Folder
        PROVE  LET folder == blk'[entry.first]
               IN  /\ folder[1].used /\ folder[1].name = Dot /\ folder[1].first = entry.first
                   /\ folder[2].used /\ folder[2].name = DotDot /\ folder[2].first = b
                   /\ folder[1].attribute = Folder /\ folder[2].attribute = Folder
                   /\ \A t \in Slot \ {1, 2} : ~folder[t].used
    <3>1. blk'[entry.first] = init_folder(Enter(parent, entry), b, entry.first)
      BY <2>2 DEF b, place
    <3> QED BY <1>3, <1>6, <3>1, NewFolder
  <2> QED BY <2>1, <2>2 DEF Grown
<1>10. /\ Items(blk') = Items(blk) \cup {<<b, s>>}
       /\ Entry(blk', <<b, s>>) = entry
       /\ \A p \in Items(blk) : Entry(blk', p) = Entry(blk, p) /\ p # <<b, s>>
       /\ Tree(blk', heads \cup {entry.first})
  <2> HIDE DEF T, new
  <2>1. b \in FolderBlocks(blk) /\ entry.first \notin heads /\ ~blk[b][s].used
    BY <1>4, <1>5, <1>7 DEF T, new
  <2> QED BY <1>1, <1>9, <2>1, TreeGrows
<1>11. /\ fat1' \in FatType
       /\ \A c \in Block : fat1'[c] = IF c = new THEN END ELSE fat1[c]
  BY <1>1, <1>6, AllocateOne
<1>12. ASSUME NEW p \in Items(blk)
       PROVE  Chain(fat1', Entry(blk, p).first) = Chain(fat1, Entry(blk, p).first)
  <2> DEFINE f == Entry(blk, p).first
  <2>1. f \in Block /\ fat1[f] # FREE
    BY SoundFacts
  <2> HIDE DEF f
  <2>2. \A c \in Chain(fat1, f) : fat1[c] # FREE /\ c \in Block
    BY <1>1, <2>1, ChainAllocated, ChainOf
  <2>3. \A c \in Chain(fat1, f) : fat1'[c] = fat1[c]
    BY <1>6, <1>11, <2>2
  <2>4. Chain(fat1', f) = Chain(fat1, f)
    BY <1>1, <1>11, <2>1, <2>3, ChainSame
  <2> QED BY <2>4 DEF f
<1>13. Chain(fat1', new) = {new}
  BY <1>6, <1>11, ChainOfOne
<1>14. Carries
  <2>1. ASSUME NEW p \in Files(blk')
        PROVE  LET fcb == Entry(blk', p)
               IN  \/ /\ p \in Files(blk) /\ fcb = Entry(blk, p)
                      /\ Chain(fat1', fcb.first) = Chain(fat1, fcb.first)
                   \/ /\ fcb.first \notin heads /\ fcb.length = 0
                      /\ Chain(fat1', fcb.first) = {fcb.first}
    <3>1. p \in Items(blk') /\ Entry(blk', p).attribute = File
      BY FilesIn
    <3>2. CASE p \in Items(blk)
      BY <1>10, <1>12, <3>1, <3>2, FilesIn
    <3>3. CASE p = <<b, s>>
      BY <1>7, <1>10, <1>13, <3>1, <3>3
    <3> QED BY <1>10, <3>1, <3>2, <3>3
  <2> QED BY <1>10, <2>1 DEF Carries, Saving
<1>15. TableSound' /\ SizesSound'
  BY <1>14, Carried
<1> QED BY <1>10, <1>15 DEF MemoryTree, DoWriteSound

LEMMA CreateStays ==
  ASSUME FsTypeOK, FsTypeOK', DiskInv, Sound, MemoryTree, NEW arg \in Arguments, my_create(arg), Sound'
  PROVE  MemoryTree'
<1> DEFINE path   == Path(arg)
           parent == Front(path)
           new    == get_free(fat1, 1)
           entry  == FileEntry(Last(path), new)
<1>1. /\ path # <<>> /\ Last(path) \in Names /\ HasRoom(parent) /\ IsFolder(parent)
      /\ blk' = Enter(parent, entry) /\ allocate /\ UNCHANGED openfile_list
  BY DEF my_create, Untidy, Sound, tableVars
<1>2. /\ pc = "cmd" /\ pc' = "cmd" /\ new # -1
      /\ fat1' = set_free_allocate(fat1, new, 1) /\ heads' = heads \cup {new}
  BY <1>1 DEF allocate
<1>3. fat1 \in FatType /\ blk' \in Blocks
  BY SoundFacts DEF FsTypeOK, Blocks
<1>4. new \in Block
  BY <1>2, <1>3, GetFreeFindsFree
<1>5. parent \in PathType
  BY <1>1, ArgumentFacts, FrontLast DEF PathType
<1> HIDE DEF path, parent, new
<1>6. /\ entry \in FcbType /\ entry.used /\ entry.name \notin Dots /\ entry.attribute = File
      /\ entry.length = 0 /\ entry.first = new /\ entry.attribute # Folder
  BY <1>1, <1>4, EntryMadeType, NewNames
<1> HIDE DEF entry
<1>7. new = get_free(fat1, 1)
  BY DEF new
<1> QED BY <1>1, <1>2, <1>3, <1>5, <1>6, <1>7, EnteringStays

LEMMA MkdirStays ==
  ASSUME FsTypeOK, FsTypeOK', DiskInv, Sound, MemoryTree, NEW arg \in Arguments, my_mkdir(arg), Sound'
  PROVE  MemoryTree'
<1> DEFINE path  == Path(arg)
           new   == get_free(fat1, 1)
           entry == FolderEntry(Last(path), new)
<1>1. path # <<>> /\ Last(path) \in Names /\ allocate /\ UNCHANGED openfile_list
  BY DEF my_mkdir, tableVars
<1>2. PICK parent \in Parpaths(path) :
        LET first   == Entry(blk, find_fcb(blk, parent)).first
            entered == Enter(parent, entry)
        IN  /\ HasRoom(parent)
            /\ blk' = [entered EXCEPT ![new] = init_folder(entered, first, new)]
            /\ Untidy(IsFolder(parent))
  BY DEF my_mkdir
<1>3. IsFolder(parent)
  BY <1>2 DEF Untidy, Sound
<1>4. /\ pc = "cmd" /\ pc' = "cmd" /\ new # -1
      /\ fat1' = set_free_allocate(fat1, new, 1) /\ heads' = heads \cup {new}
  BY <1>1 DEF allocate
<1>5. fat1 \in FatType /\ blk' \in Blocks /\ blk \in Blocks
  BY SoundFacts DEF FsTypeOK, Blocks
<1>6. new \in Block
  BY <1>4, <1>5, GetFreeFindsFree
<1>7. parent \in PathType
  <2>1. path \in PathType
    BY ArgumentFacts
  <2> QED BY <1>1, <1>2, <2>1, ParpathsType
<1> HIDE DEF path, new
<1>8. /\ entry \in FcbType /\ entry.used /\ entry.name \notin Dots /\ entry.attribute = Folder
      /\ entry.first = new /\ entry.attribute # File
  BY <1>1, <1>6, EntryMadeType, NewNames, BlockSizeAssumption
<1> HIDE DEF entry
<1> DEFINE first   == Entry(blk, find_fcb(blk, parent)).first
           entered == Enter(parent, entry)
<1>9. entered \in Blocks
  <2>1. Len(parent) \in Nat
    BY <1>7 DEF PathType
  <2> QED BY <1>2, <1>5, <1>8, <2>1, EnterWhere
<1>10. blk' = [entered EXCEPT ![new] = init_folder(entered, first, new)]
  BY <1>2
<1> HIDE DEF first, entered
<1>11. /\ \A c \in Block \ {new} : blk'[c] = entered[c]
       /\ blk'[new] = init_folder(entered, first, new)
  BY <1>6, <1>9, <1>10 DEF Blocks
<1>12. /\ \A c \in Block \ {entry.first} : blk'[c] = Enter(parent, entry)[c]
       /\ blk'[entry.first] = init_folder(Enter(parent, entry),
                                          Entry(blk, find_fcb(blk, parent)).first, entry.first)
  BY <1>8, <1>11 DEF entered, first
<1>13. new = get_free(fat1, 1) /\ HasRoom(parent)
  BY <1>2 DEF new
<1> QED BY <1>1, <1>3, <1>4, <1>5, <1>7, <1>8, <1>12, <1>13, EnteringStays

(* An item that is not open is removed. *)
LEMMA RemovingStays ==
  ASSUME FsTypeOK, DiskInv, Sound, MemoryTree, pc = "cmd", pc' = "reclaim",
         NEW p \in Items(blk), blk' \in Blocks, Pruned(blk', blk, p),
         Entry(blk, p).attribute = Folder =>
           \A t \in Slot \ {1, 2} : ~blk[Entry(blk, p).first][t].used,
         \A i \in UsedSlots : openfile_list[i].fcb.first # Entry(blk, p).first,
         heads' = heads \ {Entry(blk, p).first}, UNCHANGED <<fat1, openfile_list>>
  PROVE  MemoryTree'
<1>1. blk \in Blocks /\ SystemHeads \subseteq heads /\ Tree(blk, heads)
  BY SoundFacts
<1>2. /\ Items(blk') = Items(blk) \ {p}
      /\ \A q \in Items(blk') : Entry(blk', q) = Entry(blk, q)
      /\ Tree(blk', heads \ {Entry(blk, p).first})
  BY <1>1, TreeShrinks
<1>3. ASSUME NEW q \in Files(blk') PROVE q \in Files(blk) /\ Entry(blk', q) = Entry(blk, q)
  BY <1>2, FilesIn
<1>4. ASSUME NEW i \in UsedSlots, NEW q \in Items(blk),
             openfile_list[i].fcb.first = Entry(blk, q).first
      PROVE  q \in Items(blk') /\ Entry(blk', q) = Entry(blk, q)
  BY <1>2, <1>4
<1>5. Carries
  BY <1>3, <1>4 DEF Carries, Saving
<1>6. TableSound' /\ SizesSound'
  BY <1>5, Carried
<1> QED BY <1>2, <1>6 DEF MemoryTree, DoWriteSound

LEMMA RmStays ==
  ASSUME FsTypeOK, FsTypeOK', DiskInv, Sound, MemoryTree, NEW arg \in Arguments, my_rm(arg), Sound'
  PROVE  MemoryTree'
<1> DEFINE p == Place(arg)
<1>1. /\ pc = "cmd" /\ Exists(arg) /\ Fcb(arg).attribute # Folder
      /\ OpenAs(openfile_list, Fcb(arg)) = {} /\ Through(Path(arg))
      /\ blk' = [blk EXCEPT ![p[1]][p[2]] = NoEntry]
      /\ reclaim_begin(Fcb(arg).first) /\ UNCHANGED openfile_list
  BY DEF my_rm, Typed, Untidy, Sound, tableVars
<1>2. /\ pc' = "reclaim" /\ UNCHANGED <<fat1, openfile_list>> /\ heads' = heads \ {Fcb(arg).first}
  BY <1>1 DEF reclaim_begin
<1>3. /\ p \in Files(blk) /\ Fcb(arg) = Entry(blk, p) /\ p \in Places
      /\ blk \in Blocks /\ blk' \in Blocks /\ FolderBlocks(blk) \subseteq Block
      /\ openfile_list \in TableType
  BY <1>1, ArgPlace, FsTypes, FolderLeast DEF FsTypeOK, Blocks
<1> HIDE DEF p
<1>4. p \in Items(blk) /\ Entry(blk, p).attribute = File /\ Entry(blk, p).attribute # Folder
  BY <1>1, <1>3, FilesIn
<1>5. \A c \in Block, t \in Slot : blk'[c][t] = IF <<c, t>> = p THEN NoEntry ELSE blk[c][t]
  BY <1>1, <1>3, EntryReplaced, EntryTypes
<1>6. Pruned(blk', blk, p)
  <2>1. ~NoEntry.used
    BY DEF NoEntry
  <2> QED BY <1>3, <1>5, <2>1 DEF Pruned
<1>7. ASSUME NEW i \in UsedSlots, openfile_list[i].fcb.first = Entry(blk, p).first PROVE FALSE
  <2>1. openfile_list[i].fcb.name = Entry(blk, p).name
    BY <1>4, <1>7, SlotOfItem
  <2>2. i \in 1..MaxOpen /\ openfile_list[i].used
    BY DEF UsedSlots
  <2>3. i \in OpenAs(openfile_list, Fcb(arg))
    BY <1>3, <1>7, <2>1, <2>2 DEF OpenAs, IsOpenAs, TableType
  <2> QED BY <1>1, <2>3
<1>8. heads' = heads \ {Entry(blk, p).first}
  BY <1>2, <1>3
<1> QED BY <1>1, <1>2, <1>3, <1>4, <1>6, <1>7, <1>8, RemovingStays

LEMMA RmdirStays ==
  ASSUME FsTypeOK, FsTypeOK', DiskInv, Sound, MemoryTree, NEW arg \in Arguments, my_rmdir(arg), Sound'
  PROVE  MemoryTree'
<1> DEFINE p     == Place(arg)
           first == Fcb(arg).first
<1>1. /\ pc = "cmd" /\ Exists(arg) /\ Fcb(arg).attribute # File
      /\ Through(Path(arg)) /\ Fcb(arg).name \notin {Dot, DotDot}
      /\ \A s \in 3..Slots : ~blk[first][s].used
      /\ \A i \in 1..MaxOpen : openfile_list[i].used => openfile_list[i].fcb.first # first
      /\ blk' = [blk EXCEPT ![p[1]][p[2]] = NoEntry,
                            ![first][1] = NoEntry, ![first][2] = NoEntry]
      /\ reclaim_begin(first) /\ UNCHANGED openfile_list
  BY DEF my_rmdir, Typed, Untidy, Sound, tableVars
<1>2. pc' = "reclaim" /\ UNCHANGED <<fat1, openfile_list>> /\ heads' = heads \ {first}
  BY <1>1 DEF reclaim_begin
<1>3. /\ p \in Items(blk) /\ first = Entry(blk, p).first /\ p \in Places /\ first \in Block
      /\ Entry(blk, p).attribute = Folder
      /\ blk \in Blocks /\ blk' \in Blocks /\ FolderBlocks(blk) \subseteq Block
  BY <1>1, ArgPlace, FsTypes, FolderLeast DEF FsTypeOK, Blocks, Dots
<1>4. p[1] \in Block /\ p[2] \in Slot /\ p = <<p[1], p[2]>>
  BY <1>3, NowhereElse
<1> HIDE DEF p, first
<1>5. ASSUME NEW c \in Block, c # first, NEW t \in Slot
      PROVE  blk'[c][t] = IF <<c, t>> = p THEN NoEntry ELSE blk[c][t]
  <2> DEFINE one == [blk EXCEPT ![p[1]][p[2]] = NoEntry]
             two == [one EXCEPT ![first][1] = NoEntry]
  <2>1. one \in Blocks /\ \A d \in Block, u \in Slot :
          one[d][u] = IF <<d, u>> = p THEN NoEntry ELSE blk[d][u]
    BY <1>3, EntryReplaced, EntryTypes
  <2>2. blk' = [two EXCEPT ![first][2] = NoEntry]
    BY <1>1
  <2> HIDE DEF one
  <2>3. two \in [Block -> [Slot -> FcbType]] /\ two[c] = one[c]
    BY <1>3, <1>5, <2>1, FirstSlots, EntryTypes DEF Blocks
  <2> HIDE DEF two
  <2>4. blk'[c] = two[c]
    BY <1>3, <1>5, <2>2, <2>3
  <2> QED BY <2>1, <2>3, <2>4
<1>6. Pruned(blk', blk, p)
  <2>1. ~NoEntry.used
    BY DEF NoEntry
  <2> QED BY <1>3, <1>5, <2>1 DEF Pruned
<1>7. \A t \in Slot \ {1, 2} : ~blk[Entry(blk, p).first][t].used
  <2>1. \A t \in Slot \ {1, 2} : t \in 3..Slots
    BY SlotsAssumption DEF Slot
  <2> QED BY <1>1, <1>3, <2>1
<1>8. \A i \in UsedSlots : openfile_list[i].fcb.first # Entry(blk, p).first
  BY <1>1, <1>3 DEF UsedSlots
<1>9. heads' = heads \ {Entry(blk, p).first}
  BY <1>2, <1>3
<1> QED BY <1>1, <1>2, <1>3, <1>6, <1>7, <1>8, <1>9, RemovingStays
-----------------------------------------------------------------------------
(* The loops *)

(* What do_write stores goes into the file, and what it links is the file. *)
LEMMA LoopKeepsTree ==
  ASSUME FsTypeOK, FsTypeOK', DiskInv, Sound, MemoryTree, pc \in {"write", "trim"},
         write_next \/ write_extend \/ write_last \/ trim_step, heads' = heads,
         blk' \in Blocks, \A c \in Block : c # cur \/ pc = "trim" => blk'[c] = blk[c]
  PROVE  /\ Items(blk') = Items(blk) /\ Tree(blk', heads')
         /\ \A p \in Items(blk) : Entry(blk', p) = Entry(blk, p)
         /\ \A p \in Files(blk) : Entry(blk, p).first # file =>
              Chain(fat1', Entry(blk, p).first) = Chain(fat1, Entry(blk, p).first)
<1>1. /\ blk \in Blocks /\ fat1 \in FatType /\ SystemHeads \subseteq heads /\ Tree(blk, heads)
      /\ heads \subseteq Block /\ heads \subseteq Roots /\ Roots \subseteq Block
      /\ Linked(fat1, Roots) /\ FolderBlocks(blk) \subseteq heads
  BY SoundFacts
<1>2. TypeOK /\ TypeOK' /\ fat1' \in FatType /\ intact
  BY FsTypes DEF FsTypeOK, TypeOK, Sound
<1>3. PICK q \in Files(blk) : Entry(blk, q).first = file
  BY DEF MemoryTree, DoWriteSound
<1>4. file \in Block /\ file \notin FolderBlocks(blk)
  <2>1. q \in Items(blk) /\ Entry(blk, q).attribute # Folder
    BY FilesIn DEF File, Folder
  <2> QED BY <1>1, <1>3, <2>1, SoundFacts, TreeFacts
<1>5. ASSUME pc = "write" PROVE cur \notin FolderBlocks(blk)
  <2>1. cur \in Chain(fat1, file)
    BY <1>2, <1>5, MemoryFacts DEF Progress
  <2>2. ASSUME NEW b \in FolderBlocks(blk) PROVE b \notin Chain(fat1, file)
    BY <1>1, <1>4, RootAlone
  <2> QED BY <2>1, <2>2
<1>6. \A b \in FolderBlocks(blk) : blk'[b] = blk[b] /\ b \in Block
  BY <1>1, <1>5
<1>7. \A b \in FolderBlocks(blk), s \in Slot : Alike(blk[b][s], blk'[b][s])
  BY <1>6 DEF Alike
<1>8. Items(blk') = Items(blk) /\ Tree(blk', heads)
  BY <1>1, <1>7, TreeAlike
<1>9. ASSUME NEW p \in Items(blk) PROVE Entry(blk', p) = Entry(blk, p)
  <2>1. p[1] \in FolderBlocks(blk)
    BY <1>1, ItemsIn, ItemsType
  <2> QED BY <1>6, <2>1 DEF Entry
<1>10. ASSUME NEW p \in Files(blk), Entry(blk, p).first # file
       PROVE  Chain(fat1', Entry(blk, p).first) = Chain(fat1, Entry(blk, p).first)
  <2> DEFINE h == Entry(blk, p).first
  <2>1. h \in Block /\ h \in heads' \ {file}
    BY <1>10, FilesIn, SoundFacts
  <2>2. [Next]_vars /\ pc \in Loops
    BY DEF Next, Step, Loops
  <2> HIDE DEF h
  <2>3. \A b \in Chain(fat1, h) : fat1'[b] = fat1[b]
    BY <1>2, <2>1, <2>2, OthersUntouched
  <2>4. Chain(fat1', h) = Chain(fat1, h)
    BY <1>1, <1>2, <2>1, <2>3, ChainSame
  <2> QED BY <2>4 DEF h
<1> QED BY <1>8, <1>9, <1>10

LEMMA LoopStays ==
  ASSUME FsTypeOK, FsTypeOK', DiskInv, Sound, MemoryTree, pc \in {"write", "trim"},
         write_next \/ write_extend \/ write_last \/ trim_step,
         blk' \in Blocks, \A c \in Block : c # cur \/ pc = "trim" => blk'[c] = blk[c],
         pc' \in {"write", "trim"}, UNCHANGED <<heads, file, static_num, openfile_list, fd, length>>
  PROVE  MemoryTree'
<1>1. /\ Items(blk') = Items(blk) /\ Tree(blk', heads')
      /\ \A p \in Items(blk) : Entry(blk', p) = Entry(blk, p)
      /\ \A p \in Files(blk) : Entry(blk, p).first # file =>
           Chain(fat1', Entry(blk, p).first) = Chain(fat1, Entry(blk, p).first)
  BY LoopKeepsTree
<1>2. \A p : p \in Files(blk') <=> p \in Files(blk)
  BY <1>1, FilesIn
<1>3. \A p \in Files(blk) : Entry(blk', p) = Entry(blk, p)
  BY <1>1, FilesIn
<1>4. Carries
  BY <1>1, <1>2, <1>3 DEF Carries, Saving
<1>5. TableSound' /\ SizesSound'
  BY <1>4, Carried
<1>6. DoWriteSound'
  <2>1. fd \in UsedSlots' /\ UsedSlots' = UsedSlots
    BY DEF MemoryTree, DoWriteSound, UsedSlots
  <2>2. file \in {Entry(blk', p).first : p \in Files(blk')}
    BY <1>2, <1>3 DEF MemoryTree, DoWriteSound
  <2> QED BY <2>1, <2>2 DEF MemoryTree, DoWriteSound
<1> QED BY <1>1, <1>5, <1>6 DEF MemoryTree

(* do_write's last lines: the slot gets the length that was stored.        *)
LEMMA ReturnStays ==
  ASSUME FsTypeOK, FsTypeOK', DiskInv, Sound, MemoryTree, pc \in {"write", "trim"},
         write_last \/ trim_step, Written, pc' = "cmd",
         blk' \in Blocks, \A c \in Block : c # cur \/ pc = "trim" => blk'[c] = blk[c],
         heads' = heads
  PROVE  MemoryTree'
<1>1. /\ Items(blk') = Items(blk) /\ Tree(blk', heads')
      /\ \A p \in Items(blk) : Entry(blk', p) = Entry(blk, p)
      /\ \A p \in Files(blk) : Entry(blk, p).first # file =>
           Chain(fat1', Entry(blk, p).first) = Chain(fat1, Entry(blk, p).first)
  BY LoopKeepsTree
<1>2. /\ \A p : p \in Files(blk') <=> p \in Files(blk)
      /\ \A p \in Files(blk) : Entry(blk', p) = Entry(blk, p)
  BY <1>1, FilesIn
<1>3. /\ fd \in UsedSlots /\ openfile_list[fd].fcb.first = file
      /\ static_num = length \div BLOCK_SIZE + 1
      /\ \E p \in Files(blk) : Entry(blk, p).first = file
  BY DEF MemoryTree, DoWriteSound
<1>4. Cardinality(Chain(fat1', file)) = static_num
  <2>1. TypeOK /\ TypeOK' /\ intact
    BY FsTypes DEF FsTypeOK, Sound
  <2>2. [Next]_vars
    BY DEF Next, Step
  <2> QED BY <2>1, <2>2, ReturnsExact
<1>5. openfile_list \in TableType /\ fd \in 1..MaxOpen /\ openfile_list[fd] \in UseropenType
      /\ openfile_list[fd].fcb \in FcbType
  BY FsTypes, SlotFields DEF TableType
<1>6. openfile_list' = [openfile_list EXCEPT ![fd].fcb.length = length, ![fd].fcb_state = 1]
  BY DEF Written
<1>7. ASSUME NEW i \in 1..MaxOpen
      PROVE  /\ openfile_list'[i].used = openfile_list[i].used
             /\ openfile_list'[i].fcb.name = openfile_list[i].fcb.name
             /\ openfile_list'[i].fcb.attribute = openfile_list[i].fcb.attribute
             /\ openfile_list'[i].fcb.first = openfile_list[i].fcb.first
             /\ i # fd => openfile_list'[i] = openfile_list[i]
             /\ i = fd => openfile_list'[i].fcb.length = length /\ openfile_list'[i].fcb_state = 1
  <2> DEFINE fcb == [openfile_list[fd].fcb EXCEPT !.length = length]
             slot == [openfile_list[fd] EXCEPT !.fcb.length = length, !.fcb_state = 1]
  <2>1. openfile_list' = [openfile_list EXCEPT ![fd] = slot]
    BY <1>5, <1>6 DEF TableType
  <2>2. /\ fcb.name = openfile_list[fd].fcb.name /\ fcb.length = length
        /\ fcb.attribute = openfile_list[fd].fcb.attribute /\ fcb.first = openfile_list[fd].fcb.first
    BY <1>5 DEF FcbType
  <2>3. slot = [openfile_list[fd] EXCEPT !.fcb = fcb, !.fcb_state = 1]
    BY <1>5 DEF UseropenType
  <2> HIDE DEF fcb
  <2>4. slot.used = openfile_list[fd].used /\ slot.fcb = fcb /\ slot.fcb_state = 1
    BY <1>5, <2>3 DEF UseropenType
  <2> HIDE DEF slot
  <2>5. openfile_list'[i] = IF i = fd THEN slot ELSE openfile_list[i]
    BY <1>5, <2>1 DEF TableType
  <2> QED BY <2>2, <2>4, <2>5
<1>8. UsedSlots' = UsedSlots /\ UsedSlots \subseteq 1..MaxOpen
  BY <1>7 DEF UsedSlots
<1>9. ASSUME NEW i \in UsedSlots PROVE SlotLive(openfile_list[i])'
  <2>1. SlotLive(openfile_list[i])
    BY DEF MemoryTree, TableSound
  <2>2. CASE openfile_list[i].fcb.first = RootBlock
    BY <1>7, <1>8, <2>2 DEF SlotLive
  <2>3. CASE openfile_list[i].fcb.first # RootBlock
    <3>1. PICK q \in Items(blk) :
            /\ Entry(blk, q).first = openfile_list[i].fcb.first
            /\ Entry(blk, q).attribute = openfile_list[i].fcb.attribute
            /\ Entry(blk, q).attribute = File =>
                 /\ Entry(blk, q).name = openfile_list[i].fcb.name
                 /\ openfile_list[i].fcb_state = 0 =>
                      Entry(blk, q).length = openfile_list[i].fcb.length
      BY <2>1, <2>3, SlotItem
    <3>2. openfile_list'[i].fcb_state = 0 => openfile_list'[i] = openfile_list[i]
      BY <1>7, <1>8
    <3> QED BY <1>1, <1>7, <1>8, <3>1, <3>2 DEF SlotLive
  <2> QED BY <2>2, <2>3
<1>10. TableSound'
  <2>1. ASSUME NEW i \in UsedSlots, NEW k \in UsedSlots,
               openfile_list'[i].fcb.attribute = File, openfile_list'[i].fcb.first # RootBlock,
               openfile_list'[k].fcb.first = openfile_list'[i].fcb.first
        PROVE  i = k
    BY <1>7, <1>8, <2>1 DEF MemoryTree, TableSound
  <2> QED BY <1>8, <1>9, <2>1 DEF TableSound, Saving
<1>11. SizesSound'
  <2>1. SUFFICES ASSUME NEW p \in Files(blk)
                 PROVE  LET e   == Entry(blk, p)
                            fds == {i \in UsedSlots : openfile_list[i].fcb.first = e.first}
                        IN  /\ fds = {} => Fits(fat1', e.first, e.length)
                            /\ \A i \in fds : Fits(fat1', e.first, openfile_list'[i].fcb.length)
    <3>1. ASSUME NEW p \in Files(blk)
          PROVE  {i \in UsedSlots' : openfile_list'[i].fcb.first = Entry(blk, p).first}
                   = {i \in UsedSlots : openfile_list[i].fcb.first = Entry(blk, p).first}
      BY <1>7, <1>8
    <3> QED BY <1>2, <3>1 DEF SizesSound
  <2> DEFINE e == Entry(blk, p)
             fds == {i \in UsedSlots : openfile_list[i].fcb.first = e.first}
  <2>2. CASE e.first = file
    <3>1. fd \in fds
      BY <1>3, <2>2
    <3>2. ASSUME NEW i \in fds PROVE i = fd
      <4>1. i \in UsedSlots /\ openfile_list[i].fcb.first = Entry(blk, p).first
        OBVIOUS
      <4> QED BY <1>3, <2>2, <4>1, OneSlot
    <3>3. openfile_list'[fd].fcb.length = length
      BY <1>5, <1>7
    <3>4. Fits(fat1', e.first, length)
      BY <1>3, <1>4, <2>2 DEF Fits
    <3> QED BY <3>1, <3>2, <3>3, <3>4
  <2>3. CASE e.first # file
    <3>1. /\ fds = {} => Fits(fat1, e.first, e.length)
          /\ \A i \in fds : Fits(fat1, e.first, openfile_list[i].fcb.length)
      BY <2>3 DEF MemoryTree, SizesSound
    <3>2. \A i \in fds : openfile_list'[i] = openfile_list[i]
      BY <1>3, <1>7, <1>8, <2>3
    <3>3. Chain(fat1', e.first) = Chain(fat1, e.first)
      BY <1>1, <2>3
    <3> QED BY <3>1, <3>2, <3>3 DEF Fits
  <2> QED BY <2>2, <2>3
<1> QED BY <1>1, <1>10, <1>11 DEF MemoryTree, DoWriteSound

LEMMA StoreStays ==
  ASSUME FsTypeOK, FsTypeOK', DiskInv, Sound, MemoryTree, store_block, Sound'
  PROVE  MemoryTree'
<1>1. CASE pc' = "off"
  BY <1>1 DEF store_block, Gone, Sound
<1>2. CASE pc' # "off"
  <2>1. blk' = [blk EXCEPT ![cur] = FullText] /\ UNCHANGED <<openfile_list, fd, length>>
    BY <1>2 DEF store_block, NoWrite, tableVars
  <2>2. /\ pc = "write" /\ pc' = "write" /\ UNCHANGED <<heads, file, static_num>>
        /\ write_next \/ write_extend
    BY <1>2 DEF store_block, write_next, write_extend, Dead
  <2>3. blk \in Blocks /\ blk' \in Blocks
    BY FsTypes DEF FsTypeOK, Blocks
  <2>4. \A c \in Block : c # cur \/ pc = "trim" => blk'[c] = blk[c]
    BY <2>1, <2>2, <2>3 DEF Blocks
  <2> QED BY <2>1, <2>2, <2>3, <2>4, LoopStays
<1> QED BY <1>1, <1>2

LEMMA LastStays ==
  ASSUME FsTypeOK, FsTypeOK', DiskInv, Sound, MemoryTree, store_last
  PROVE  MemoryTree'
<1> DEFINE rest == IF length % BLOCK_SIZE = 0 THEN Blank ELSE PartialText
<1>1. blk' = [blk EXCEPT ![cur] = rest] /\ Written /\ write_last
  BY DEF store_last
<1>2. blk \in Blocks /\ blk' \in Blocks
  BY FsTypes DEF FsTypeOK, Blocks
<1> HIDE DEF rest
<1>3. pc = "write" /\ UNCHANGED heads
  BY <1>1 DEF write_last
<1>4. \A c \in Block : c # cur \/ pc = "trim" => blk'[c] = blk[c]
  BY <1>1, <1>2, <1>3 DEF Blocks
<1>5. CASE pc' = "cmd"
  BY <1>1, <1>2, <1>3, <1>4, <1>5, ReturnStays
<1>6. CASE pc' # "cmd"
  <2>1. pc' = "trim" /\ UNCHANGED <<file, static_num>>
    BY <1>1, <1>6 DEF write_last, Idle
  <2>2. UNCHANGED <<openfile_list, fd, length>>
    BY <1>1, <1>6 DEF Written, NoWrite
  <2> QED BY <1>1, <1>2, <1>3, <1>4, <2>1, <2>2, LoopStays
<1> QED BY <1>5, <1>6

LEMMA TrimStays ==
  ASSUME FsTypeOK, FsTypeOK', DiskInv, Sound, MemoryTree, trim
  PROVE  MemoryTree'
<1>1. blk' = blk /\ Written /\ trim_step /\ pc = "trim" /\ UNCHANGED heads
  BY DEF trim, trim_step
<1>2. blk' \in Blocks /\ \A c \in Block : blk'[c] = blk[c]
  BY <1>1, FsTypes
<1>3. CASE pc' = "cmd"
  BY <1>1, <1>2, <1>3, ReturnStays
<1>4. CASE pc' # "cmd"
  <2>1. pc' = "trim" /\ UNCHANGED <<file, static_num>>
    BY <1>1, <1>4 DEF trim_step, Idle
  <2>2. UNCHANGED <<openfile_list, fd, length>>
    BY <1>1, <1>4 DEF Written, NoWrite
  <2> QED BY <1>1, <1>2, <2>1, <2>2, LoopStays
<1> QED BY <1>3, <1>4

LEMMA ReclaimStays ==
  ASSUME FsTypeOK, FsTypeOK', DiskInv, Sound, MemoryTree, reclaim
  PROVE  MemoryTree'
<1>1. /\ pc = "reclaim" /\ fat1' = [fat1 EXCEPT ![cur] = FREE] /\ heads' = heads
      /\ blk' = blk /\ openfile_list' = openfile_list
  BY DEF reclaim, reclaim_step, fsVars, tableVars
<1>2. TypeOK /\ fat1' \in FatType /\ intact
  BY FsTypes DEF FsTypeOK, TypeOK, Sound
<1>3. /\ fat1 \in FatType /\ cur \in Block /\ heads \subseteq Block /\ cur \notin heads
      /\ Linked(fat1, heads \cup {cur}) /\ fat1[cur] = END
  BY <1>1, <1>2, MemoryFacts
<1>4. pc' = "cmd"
  BY <1>3 DEF reclaim, reclaim_step, Idle
<1>5. Sets(fat1', fat1, cur, FREE)
  BY <1>1, <1>3 DEF Sets, FatType
<1>6. \A h \in heads : Chain(fat1', h) = Chain(fat1, h)
  BY <1>2, <1>3, <1>5, FileUntouched
<1>7. \A p \in Files(blk) : Chain(fat1', Entry(blk, p).first) = Chain(fat1, Entry(blk, p).first)
  BY <1>6, FilesIn, SoundFacts
<1>8. Carries
  BY <1>1, <1>4, <1>7 DEF Carries, Saving
<1>9. TableSound' /\ SizesSound'
  BY <1>8, Carried
<1>10. Tree(blk', heads')
  BY <1>1 DEF MemoryTree
<1> QED BY <1>4, <1>9, <1>10 DEF MemoryTree, DoWriteSound
-----------------------------------------------------------------------------
(* Starting, formatting, saving *)

LEMMA FormatStays ==
  ASSUME FsTypeOK, blk' = FormattedBlocks, heads' = SystemHeads, pc' = "formatting",
         \A i \in 1..MaxOpen : openfile_list'[i].used => openfile_list'[i].fcb.first = RootBlock
  PROVE  MemoryTree'
<1>1. Tree(blk', heads') /\ Items(blk') = {}
  BY FsTypes, TreeFormatted
<1>2. Files(blk') = {}
  BY <1>1 DEF Files
<1>3. \A i \in UsedSlots' : openfile_list'[i].fcb.first = RootBlock
  BY DEF UsedSlots
<1>4. TableSound'
  BY <1>3 DEF TableSound, SlotLive
<1>5. SizesSound'
  BY <1>2 DEF SizesSound
<1> QED BY <1>1, <1>4, <1>5 DEF MemoryTree, DoWriteSound

LEMMA FreshSlots ==
  ASSUME NEW blocks \in Blocks, NEW i \in 1..MaxOpen, FreshTable(blocks)[i].used
  PROVE  i = 1 /\ FreshTable(blocks)[i].fcb = blocks[RootBlock][1]
<1> DEFINE root == [Closed EXCEPT !.fcb = blocks[RootBlock][1], !.used = TRUE]
<1>1. FreshTable(blocks)[i] = IF i = 1 THEN root ELSE Closed
  BY DEF FreshTable
<1>2. root.fcb = blocks[RootBlock][1] /\ ~Closed.used
  BY DEF Closed
<1> HIDE DEF root
<1> QED BY <1>1, <1>2

LEMMA BootStays ==
  ASSUME FsTypeOK, FsTypeOK', DiskInv, boot, Sound',
         image.exists /\ image.intact /\ saved.tidy => ImageTree
  PROVE  MemoryTree'
<1>1. openfile_list' = FreshTable(blk') /\ blk' \in Blocks /\ blk \in Blocks
  BY FsTypes DEF boot, FsTypeOK, Blocks
<1>2. \A i \in 1..MaxOpen : openfile_list'[i].used =>
        openfile_list'[i].fcb = blk'[RootBlock][1]
  BY <1>1, FreshSlots
<1>3. CASE ~image.exists
  <2>1. blk' = FormattedBlocks /\ heads' = SystemHeads /\ pc' = "formatting"
    BY <1>3 DEF boot, start_sys, FormatMemory
  <2>2. Tree(blk', heads')
    BY <1>1, <2>1, TreeFormatted
  <2>3. RootBlock \in FolderBlocks(blk')
    BY <1>1, FolderLeast
  <2>4. blk'[RootBlock][1].first = RootBlock
    BY <2>2, <2>3 DEF Tree, TreeOf
  <2> QED BY <1>2, <2>1, <2>4, FormatStays
<1>4. CASE image.exists
  <2>1. /\ blk' = saved.blocks /\ heads' = image.heads /\ fat1' = image.fat1 /\ pc' = "cmd"
        /\ image.intact /\ saved.tidy
    BY <1>4 DEF boot, start_sys, Idle, Sound
  <2>2. /\ Tree(blk', heads')
        /\ \A p \in Files(blk') : Fits(fat1', Entry(blk', p).first, Entry(blk', p).length)
    BY <1>4, <2>1 DEF ImageTree
  <2>3. SystemHeads \subseteq heads'
    BY <1>4, <2>1 DEF DiskInv, ImageSound
  <2>4. RootBlock \in FolderBlocks(blk')
    BY <1>1, FolderLeast
  <2>5. blk'[RootBlock][1].first = RootBlock
    BY <2>2, <2>4 DEF Tree, TreeOf
  <2>6. \A i \in UsedSlots' : openfile_list'[i].fcb.first = RootBlock
    BY <1>2, <2>5 DEF UsedSlots
  <2>7. TableSound'
    BY <2>6 DEF TableSound, SlotLive
  <2>8. \A p \in Files(blk') : Entry(blk', p).first # RootBlock
    <3>1. RootBlock \in SystemHeads
      BY DEF RootBlock, SystemHeads
    <3> QED BY <1>1, <2>2, <2>3, <3>1, FilesIn, TreeFacts
  <2>9. SizesSound'
    BY <2>2, <2>6, <2>8 DEF SizesSound
  <2> QED BY <2>1, <2>2, <2>7, <2>9 DEF MemoryTree, DoWriteSound
<1> QED BY <1>3, <1>4

LEMMA FormatCommandStays ==
  ASSUME FsTypeOK, my_format, Sound'
  PROVE  MemoryTree'
<1>1. /\ blk' = FormattedBlocks /\ TableIsFresh /\ UNCHANGED openfile_list
      /\ heads' = SystemHeads /\ pc' = "formatting"
  BY DEF my_format, do_format, FormatMemory, Sound, tableVars
<1>2. \A i \in 1..MaxOpen : openfile_list'[i].used => openfile_list'[i].fcb.first = RootBlock
  BY <1>1 DEF TableIsFresh
<1> QED BY <1>1, <1>2, FormatStays

(* What is saved of a tree is one, with every length in its entry. *)
LEMMA SavingSaves ==
  ASSUME FsTypeOK, DiskInv, Sound, MemoryTree, pc \in Saving,
         saved'.blocks = blk, image'.fat1 = fat1, image'.heads = heads
  PROVE  ImageTree'
<1>1. \A i \in UsedSlots : openfile_list[i].fcb.first = RootBlock
  BY DEF MemoryTree, TableSound
<1>2. \A p \in Files(blk) : Entry(blk, p).first # RootBlock
  BY FilesIn, SoundFacts
<1>3. pc \notin {"write", "trim"}
  BY DEF Saving
<1>4. \A p \in Files(blk) : Fits(fat1, Entry(blk, p).first, Entry(blk, p).length)
  BY <1>1, <1>2, <1>3 DEF MemoryTree, SizesSound
<1> QED BY <1>4 DEF ImageTree, MemoryTree

LEMMA SavedFields ==
  ASSUME TypeOK, NEW w \in 0..NumBlocks, NEW whole
  PROVE  /\ Saved(w, whole).heads = heads
         /\ Saved(w, whole).intact = (intact /\ whole)
         /\ w = NumBlocks => Saved(w, whole).fat1 = fat1
<1>1. fat1 \in FatType
  BY DEF TypeOK
<1>2. w = NumBlocks => Prefix(fat1, 1, w) = fat1
  BY <1>1, PrefixType, NumBlocksAssumption
<1> QED BY <1>2 DEF Saved

LEMMA SaveDoneStays ==
  ASSUME FsTypeOK, DiskInv, Sound => MemoryTree, save_done
  PROVE  /\ Sound' => MemoryTree'
         /\ image'.exists /\ image'.intact /\ saved'.tidy => ImageTree'
<1>7. fwrite_done /\ saved' = [blocks |-> blk, tidy |-> tidy]
  BY DEF save_done
<1>8. pc \in Saving
  BY <1>7 DEF fwrite_done, Saving
<1>9. image' = Saved(NumBlocks, TRUE)
  BY <1>7 DEF fwrite_done
<1>1. pc \in Saving /\ image' = Saved(NumBlocks, TRUE) /\ saved' = [blocks |-> blk, tidy |-> tidy]
  BY <1>7, <1>8, <1>9
<1>5. NumBlocks \in 0..NumBlocks /\ TypeOK
  BY NumBlocksAssumption DEF FsTypeOK
<1>6. intact \in BOOLEAN
  BY <1>5 DEF TypeOK
<1>2. image'.heads = heads /\ image'.intact = intact /\ image'.fat1 = fat1
  BY <1>1, <1>5, <1>6, SavedFields
<1>3. ASSUME image'.exists, image'.intact, saved'.tidy PROVE ImageTree'
  <2>1. Sound
    BY <1>1, <1>2, <1>3 DEF Sound
  <2> QED BY <1>1, <1>2, <2>1, SavingSaves
<1>4. ASSUME Sound' PROVE MemoryTree'
  <2>1. pc' # "off"
    BY <1>4 DEF save_done, Gone, Sound
  <2>2. /\ pc' = "cmd" /\ UNCHANGED <<fat1, heads, intact, blk, openfile_list, tidy>>
    BY <2>1 DEF save_done, fwrite_done, Idle, Dead, tableVars
  <2>3. MemoryTree /\ pc \notin {"write", "trim"}
    BY <1>1, <1>4, <2>2 DEF Sound, Saving
  <2>4. UsedSlots' = UsedSlots
    BY <2>2 DEF UsedSlots
  <2>5. TableSound'
    BY <2>2, <2>3, <2>4 DEF MemoryTree, TableSound, SlotLive, Saving
  <2>6. SizesSound'
    BY <2>2, <2>3, <2>4 DEF MemoryTree, SizesSound
  <2> QED BY <2>2, <2>3, <2>5, <2>6 DEF MemoryTree, DoWriteSound
<1> QED BY <1>3, <1>4

LEMMA TornStays ==
  ASSUME FsTypeOK, DiskInv, Sound => MemoryTree, NEW w \in 0..NumBlocks, torn(w)
  PROVE  image'.exists /\ image'.intact /\ saved'.tidy => ImageTree'
<1>1. SUFFICES ASSUME image'.exists, image'.intact, saved'.tidy PROVE ImageTree'
  OBVIOUS
<1>2. /\ pc \in Saving /\ image' = Saved(w, w >= 5) /\ tidy /\ w = NumBlocks /\ TypeOK
      /\ saved'.blocks = [b \in Block |-> IF b < w THEN blk[b] ELSE Blank]
  BY <1>1, FsTypes DEF torn, tear
<1>3. image'.heads = heads /\ intact /\ image'.fat1 = fat1
  BY <1>1, <1>2, SavedFields
<1>4. blk = [b \in Block |-> blk[b]] /\ \A b \in Block : b < NumBlocks
  BY FsTypes, BlocksEnd DEF Blocks
<1>5. saved'.blocks = blk
  BY <1>2, <1>4
<1> QED BY <1>2, <1>3, <1>5, SavingSaves DEF Sound
-----------------------------------------------------------------------------
(* The invariant *)

(* No step but a format or a start makes a damaged or untidy disk sound. *)
LEMMA SoundBefore ==
  ASSUME FsNext, ~boot, ~my_format, ~save_done, Sound'
  PROVE  Sound
<1>1. ASSUME Gone PROVE FALSE
  BY <1>1 DEF Gone, Dead, Sound
<1>2. CASE exit
  BY <1>2 DEF exit, Untidy, my_exit_sys, Sound
<1>3. CASE exit_crash \/ killed \/ \E w \in 0..NumBlocks : torn(w)
  BY <1>1, <1>3 DEF exit_crash, Crash, killed, torn
<1>4. CASE store_block
  <2>1. ~Dead
    BY DEF Dead, Sound
  <2>2. intact' = intact
    BY <1>4, <2>1 DEF store_block, write_next, write_extend
  <2>3. tidy' = tidy
    BY <1>1, <1>4 DEF store_block
  <2> QED BY <2>2, <2>3 DEF Sound
<1>5. CASE store_last \/ trim \/ reclaim
  BY <1>5 DEF store_last, trim, reclaim, write_last, trim_step, reclaim_step, fsVars, Sound
<1>6. CASE close_all
  BY <1>6 DEF close_all, Untidy, NoDisk, vars, Sound
<1>7. ASSUME NEW arg \in Arguments, my_cd(arg) \/ my_open(arg) \/ my_close(arg) \/ my_read(arg)
      PROVE  Sound
  BY <1>7 DEF my_cd, my_open, my_close, my_read, Untidy, NoDisk, vars, Sound
<1>8. ASSUME NEW arg \in Arguments, my_mkdir(arg) \/ my_create(arg)
      PROVE  Sound
  BY <1>8 DEF my_mkdir, my_create, Untidy, allocate, Sound
<1>9. ASSUME NEW arg \in Arguments, my_rmdir(arg) \/ my_rm(arg)
      PROVE  Sound
  BY <1>9 DEF my_rmdir, my_rm, Untidy, reclaim_begin, Sound
<1>10. ASSUME NEW arg \in Arguments, open_crash(arg) \/ close_crash(arg) \/ read_crash(arg)
       PROVE  FALSE
  BY <1>1, <1>10 DEF open_crash, close_crash, read_crash, Crash
<1>11. ASSUME NEW arg \in Arguments, NEW mode, NEW at, NEW k, my_write(arg, mode, at, k)
       PROVE  Sound
  BY <1>11 DEF my_write, Untidy, write_begin, Sound
<1>12. CASE FsCommand
  BY <1>6, <1>7, <1>8, <1>9, <1>10, <1>11, <1>12 DEF FsCommand
<1> QED BY <1>2, <1>3, <1>4, <1>5, <1>12 DEF FsNext

LEMMA FsCommandStays ==
  ASSUME FsTypeOK, FsTypeOK', DiskInv, Sound, MemoryTree, FsCommand, Sound'
  PROVE  MemoryTree'
<1>1. CASE close_all
  BY <1>1, CloseAllStays
<1>2. ASSUME NEW arg \in Arguments, my_cd(arg) \/ my_open(arg) \/ my_close(arg) \/ my_read(arg)
      PROVE  MemoryTree'
  BY <1>2, CdStays, OpenStays, CloseStays, ReadStays
<1>3. ASSUME NEW arg \in Arguments, my_mkdir(arg) \/ my_create(arg)
      PROVE  MemoryTree'
  BY <1>3, MkdirStays, CreateStays
<1>4. ASSUME NEW arg \in Arguments, my_rmdir(arg) \/ my_rm(arg)
      PROVE  MemoryTree'
  BY <1>4, RmdirStays, RmStays
<1>5. ASSUME NEW arg \in Arguments, open_crash(arg) \/ close_crash(arg) \/ read_crash(arg)
      PROVE  FALSE
  BY <1>5 DEF open_crash, close_crash, read_crash, Crash, Gone, Sound
<1>6. Sizes \subseteq Nat /\ 0 \in Nat
  BY SizesAssumption
<1>7. ASSUME NEW arg \in Arguments, NEW mode \in {"w", "a", "c"}, NEW at \in Nat,
             NEW k \in Sizes, my_write(arg, mode, at, k)
      PROVE  MemoryTree'
  BY <1>7, WriteBeginStays
<1>8. ASSUME NEW arg \in Arguments,
             \/ \E mode \in {"w", "a"}, k \in Sizes : my_write(arg, mode, 0, k)
             \/ \E at, k \in Sizes : my_write(arg, "c", at, k)
      PROVE  MemoryTree'
  BY <1>6, <1>7, <1>8
<1>9. ASSUME NEW arg \in Arguments,
             \/ my_cd(arg) \/ my_mkdir(arg) \/ my_rmdir(arg)
             \/ my_create(arg) \/ my_rm(arg)
             \/ my_open(arg) \/ open_crash(arg)
             \/ my_close(arg) \/ close_crash(arg)
             \/ my_read(arg) \/ read_crash(arg)
             \/ \E mode \in {"w", "a"}, k \in Sizes : my_write(arg, mode, 0, k)
             \/ \E at, k \in Sizes : my_write(arg, "c", at, k)
      PROVE  MemoryTree'
  BY <1>2, <1>3, <1>4, <1>5, <1>8, <1>9
<1> QED BY <1>1, <1>9 DEF FsCommand

LEMMA MemoryTreeStays ==
  ASSUME FsTypeOK, FsTypeOK', FsInv, FsNext, Sound'
  PROVE  MemoryTree'
<1>1. DiskInv /\ (Sound => MemoryTree) /\ (image.exists /\ image.intact /\ saved.tidy => ImageTree)
  BY DEF FsInv
<1>2. CASE boot
  BY <1>1, <1>2, BootStays
<1>3. CASE my_format
  BY <1>3, FormatCommandStays
<1>4. CASE save_done
  BY <1>1, <1>4, SaveDoneStays
<1>5. CASE ~boot /\ ~my_format /\ ~save_done
  <2>1. Sound /\ MemoryTree
    BY <1>1, <1>5, SoundBefore
  <2>2. ~exit_crash /\ ~killed /\ \A w \in 0..NumBlocks : ~torn(w)
    BY DEF exit_crash, Crash, killed, torn, Gone, Sound
  <2>3. exit \/ FsCommand \/ store_block \/ store_last \/ trim \/ reclaim
    BY <1>5, <2>2 DEF FsNext
  <2> QED BY <1>1, <2>1, <2>3, ExitStays, FsCommandStays, StoreStays, LastStays, TrimStays,
             ReclaimStays
<1> QED BY <1>2, <1>3, <1>4, <1>5

(* The file is changed by nothing but what saves. *)
LEMMA ImageTreeStays ==
  ASSUME FsTypeOK, FsInv, FsNext, image'.exists, image'.intact, saved'.tidy
  PROVE  ImageTree'
<1>1. DiskInv /\ (Sound => MemoryTree) /\ (image.exists /\ image.intact /\ saved.tidy => ImageTree)
  BY DEF FsInv
<1>2. ASSUME UNCHANGED <<image, saved>> PROVE ImageTree'
  BY <1>1, <1>2 DEF ImageTree
<1>3. ASSUME image' = Emptied PROVE FALSE
  BY <1>3 DEF Emptied
<1>4. CASE boot
  BY <1>2, <1>3, <1>4 DEF boot, start_sys
<1>5. CASE my_format \/ exit
  BY <1>3, <1>5 DEF my_format, do_format, exit, my_exit_sys
<1>6. CASE save_done
  BY <1>1, <1>6, SaveDoneStays
<1>7. CASE \E w \in 0..NumBlocks : torn(w)
  BY <1>1, <1>7, TornStays
<1>8. CASE exit_crash \/ killed
  BY <1>2, <1>8 DEF exit_crash, Crash, killed, interrupt
<1>9. CASE store_block
  BY <1>2, <1>9 DEF store_block, write_next, write_extend
<1>10. CASE store_last \/ trim \/ reclaim
  BY <1>2, <1>10 DEF store_last, trim, reclaim, write_last, trim_step, reclaim_step, fsVars
<1>11. CASE close_all
  BY <1>2, <1>11 DEF close_all, NoDisk, vars
<1>12. ASSUME NEW arg \in Arguments, my_cd(arg) \/ my_open(arg) \/ my_close(arg) \/ my_read(arg)
       PROVE  UNCHANGED <<image, saved>>
  BY <1>12 DEF my_cd, my_open, my_close, my_read, NoDisk, vars
<1>13. ASSUME NEW arg \in Arguments, my_mkdir(arg) \/ my_create(arg)
       PROVE  UNCHANGED <<image, saved>>
  BY <1>13 DEF my_mkdir, my_create, allocate
<1>14. ASSUME NEW arg \in Arguments, my_rmdir(arg) \/ my_rm(arg)
       PROVE  UNCHANGED <<image, saved>>
  BY <1>14 DEF my_rmdir, my_rm, reclaim_begin
<1>15. ASSUME NEW arg \in Arguments, open_crash(arg) \/ close_crash(arg) \/ read_crash(arg)
       PROVE  UNCHANGED <<image, saved>>
  BY <1>15 DEF open_crash, close_crash, read_crash, Crash
<1>16. ASSUME NEW arg \in Arguments, NEW mode, NEW at, NEW k, my_write(arg, mode, at, k)
       PROVE  UNCHANGED <<image, saved>>
  BY <1>16 DEF my_write, write_begin
<1>17. CASE FsCommand
  BY <1>2, <1>11, <1>12, <1>13, <1>14, <1>15, <1>16, <1>17 DEF FsCommand
<1> QED BY <1>4, <1>5, <1>6, <1>7, <1>8, <1>9, <1>10, <1>17 DEF FsNext

LEMMA FsInvStep ==
  ASSUME FsTypeOK, FsTypeOK', FsInv, [FsNext]_allVars
  PROVE  FsInv'
<1>1. DiskInv'
  BY FsDrives, DiskStepInv DEF FsTypeOK, FsInv, allVars
<1>2. CASE FsNext
  BY <1>1, <1>2, MemoryTreeStays, ImageTreeStays DEF FsInv
<1>3. CASE UNCHANGED allVars
  <2>1. UNCHANGED <<fat1, heads, pc, file, static_num, image, intact, blk, openfile_list, fd,
                    length, saved, tidy>>
    BY <1>3 DEF allVars, vars, loopVars, fsVars, tableVars
  <2>2. (Sound => MemoryTree) /\ (image.exists /\ image.intact /\ saved.tidy => ImageTree)
    BY DEF FsInv
  <2>3. UsedSlots' = UsedSlots /\ Sound' = Sound
    BY <2>1 DEF UsedSlots, Sound
  <2>4. MemoryTree' = MemoryTree
    BY <2>1, <2>3 DEF MemoryTree, TableSound, SlotLive, DoWriteSound, SizesSound
  <2>5. ImageTree' = ImageTree
    BY <2>1 DEF ImageTree
  <2> QED BY <1>1, <2>1, <2>2, <2>3, <2>4, <2>5 DEF FsInv
<1> QED BY <1>2, <1>3

(* A disk that nothing has damaged, in memory or saved, has folders that   *)
(* form a tree, slots that are of what is in it and lengths that agree     *)
(* with the chains, after any number of commands, loops, saves, deaths and *)
(* restarts: for every disk size, table size, path and text.               *)
THEOREM FsInductive == FsSpec => []FsInv
<1>1. FsInit => FsInv
  BY InitDiskInv DEF FsInit, Init, FsInv, NoFile, Sound
<1>2. FsTypeOK /\ FsTypeOK' /\ FsInv /\ [FsNext]_allVars => FsInv'
  BY FsInvStep
<1> QED BY <1>1, <1>2, FsTypeCorrect, PTL DEF FsSpec

LEMMA InvSizes ==
  ASSUME FsTypeOK, FsInv
  PROVE  SizesAgree
<1>1. SUFFICES ASSUME Sound, pc = "cmd", NEW p \in Files(blk)
      PROVE  LET fcb == Entry(blk, p)
                 fds == OpenAs(openfile_list, fcb)
             IN  Fits(fat1, fcb.first,
                      IF fds = {} THEN fcb.length ELSE openfile_list[LowestOf(fds)].fcb.length)
  BY DEF SizesAgree
<1> DEFINE fcb == Entry(blk, p)
           fds == OpenAs(openfile_list, fcb)
           S   == {i \in UsedSlots : openfile_list[i].fcb.first = fcb.first}
<1>2. DiskInv /\ MemoryTree /\ p \in Items(blk) /\ fcb.attribute = File
  BY <1>1, FilesIn DEF FsInv
<1>3. /\ S = {} => Fits(fat1, fcb.first, fcb.length)
      /\ \A i \in S : Fits(fat1, fcb.first, openfile_list[i].fcb.length)
  BY <1>1, <1>2 DEF MemoryTree, SizesSound
<1>4. openfile_list \in TableType
  BY FsTypes
<1>5. fds = S
  <2>1. fds \subseteq 1..MaxOpen
    BY <1>4, OpenAsType
  <2>2. fds \subseteq S
    BY <2>1 DEF OpenAs, IsOpenAs, UsedSlots
  <2>3. ASSUME NEW i \in S PROVE i \in fds
    <3>1. i \in UsedSlots /\ i \in 1..MaxOpen
      BY DEF UsedSlots
    <3>2. fcb.name = openfile_list[i].fcb.name
      BY <1>1, <1>2, <3>1, SlotOfItem
    <3>3. i \in DOMAIN openfile_list
      BY <1>4, <3>1 DEF TableType
    <3> QED BY <3>1, <3>2, <3>3 DEF OpenAs, IsOpenAs, UsedSlots
  <2> QED BY <2>2, <2>3
<1> HIDE DEF fcb, fds, S
<1>6. fds # {} => LowestOf(fds) \in fds
  BY <1>4, OpenAsType DEF fds
<1>7. Fits(fat1, fcb.first,
           IF fds = {} THEN fcb.length ELSE openfile_list[LowestOf(fds)].fcb.length)
  BY <1>3, <1>5, <1>6
<1> QED BY <1>7 DEF fcb, fds

LEMMA InvLive ==
  ASSUME FsTypeOK, FsInv
  PROVE  OpenLive
<1>1. SUFFICES ASSUME Sound, NEW i \in 1..MaxOpen, openfile_list[i].used
      PROVE  \/ openfile_list[i].fcb.first = RootBlock
             \/ \E p \in Items(blk) :
                  /\ Entry(blk, p).first = openfile_list[i].fcb.first
                  /\ Entry(blk, p).attribute = openfile_list[i].fcb.attribute
  BY DEF OpenLive
<1>2. SlotLive(openfile_list[i])
  BY <1>1 DEF FsInv, MemoryTree, TableSound, UsedSlots
<1> QED BY <1>2 DEF SlotLive

(* No block is lost and none has two owners, and the folders form a tree   *)
(* (do_create, do_mkdir, do_rm, do_rmdir, do_write's loops and do_close).  *)
THEOREM FoldersAreTree == FsSpec => []TreeSound
<1>1. FsInv => TreeSound
  BY DEF FsInv, MemoryTree, Tree, TreeSound
<1> QED BY <1>1, FsInductive, PTL

(* What a slot of the open file table is of is still there: rm and rmdir   *)
(* refuse what is open, and nothing else frees a block it starts with.     *)
THEOREM OpenStaysLive == FsSpec => []OpenLive
<1>1. FsTypeOK /\ FsInv => OpenLive
  BY InvLive
<1> QED BY <1>1, FsInductive, FsTypeCorrect, PTL

(* At the prompt the length that counts, in the open file table or in the  *)
(* entry, is that of the chain: do_write stores it last, do_close copies   *)
(* it, and nothing else changes the chain.                                 *)
THEOREM LengthsFit == FsSpec => []SizesAgree
<1>1. FsTypeOK /\ FsInv => SizesAgree
  BY InvSizes
<1> QED BY <1>1, FsInductive, FsTypeCorrect, PTL

(* A save that finished on a tidy disk has left a tree in ./fsfile whose   *)
(* entries have every length: my_exit_sys closes the files before it.      *)
THEOREM SavedIsTree == FsSpec => []SavedTree
<1>1. FsInv => SavedTree
  BY DEF FsInv, ImageTree, Tree, SavedTree
<1> QED BY <1>1, FsInductive, PTL
=============================================================================
