------------------------------ MODULE FsProofs ------------------------------
(***************************************************************************)
(* Theorems of module SimpleFS for disks, tables and paths of any size:    *)
(* what the commands store is of the types they read it as.                *)
(***************************************************************************)
EXTENDS SimpleFS, DiskProofs, SequenceTheorems
LOCAL INSTANCE SequencesExt

Blocks == [Block -> [Slot -> FcbType]]
Places == Block \X Slot

LEMMA FcbFields ==
  ASSUME NEW fcb \in FcbType
  PROVE  /\ fcb.name \in FileName /\ fcb.exname \in Exname
         /\ fcb.attribute \in {Folder, File} /\ fcb.first \in Block
         /\ fcb.length \in Nat /\ fcb.used \in BOOLEAN
BY DEF FcbType

LEMMA FirstSlots == 1 \in Slot /\ 2 \in Slot /\ Slot \subseteq Nat
BY SlotsAssumption DEF Slot

LEMMA RootIsBlock == RootBlock \in Block /\ 0 \in Block /\ 7 \in Block /\ 7 # RootBlock
BY DiskSize DEF Block, RootBlock

LEMMA NamesInType ==
  /\ NoEntry.name \in FileName /\ Text.name \in FileName /\ Dots \subseteq FileName
  /\ Names \subseteq FileName /\ \A n \in Names : <<n[1], Nothing>> \in FileName
  /\ Nothing \in Exname /\ "d" \in Exname /\ "di" \in Exname
  /\ \A n \in Names : n[2] \in Exname
BY Zenon DEF FileName, Exname

LEMMA EntryTypes == NoEntry \in FcbType /\ Text \in FcbType
<1>1. NoEntry.name = <<Nothing, Nothing>> /\ Text.name = <<"text", Nothing>>
  BY DEF NoEntry, Text, set_fcb
<1> QED BY <1>1, NamesInType, RootIsBlock DEF NoEntry, Text, set_fcb, FcbType

LEMMA FrontLast ==
  ASSUME NEW S, NEW path \in Seq(S), path # <<>>
  PROVE  /\ Front(path) \in Seq(S) /\ Last(path) \in S
         /\ Len(path) \in Nat /\ Len(path) > 0 /\ Len(Front(path)) = Len(path) - 1
         /\ Last(path) = path[Len(path)]
         /\ \A n \in 1..(Len(path) - 1) : Front(path)[n] = path[n]
<1> DEFINE f == SubSeq(path, 1, Len(path) - 1)
<1>1. Len(path) \in Nat /\ Len(path) > 0
  BY EmptySeq
<1>2. f \in Seq(S) /\ Len(f) = (IF 1 <= Len(path) - 1 THEN (Len(path) - 1) - 1 + 1 ELSE 0)
      /\ \A n \in 1..((Len(path) - 1) - 1 + 1) : f[n] = path[1 + n - 1]
  <2>1. 1 \in Int /\ Len(path) - 1 \in Int /\ \A n \in 1..(Len(path) - 1) : path[n] \in S
    BY <1>1
  <2> QED BY <2>1, SubSeqProperties
<1>3. Front(path) = f /\ Last(path) = path[Len(path)]
  BY DEF Front, Last
<1> HIDE DEF f
<1>4. Len(f) = Len(path) - 1
  <2>1. \A k \in Nat : k > 0 => (IF 1 <= k - 1 THEN (k - 1) - 1 + 1 ELSE 0) = k - 1
    OBVIOUS
  <2> QED BY <1>1, <1>2, <2>1
<1>5. ASSUME NEW n \in 1..(Len(path) - 1) PROVE f[n] = path[n]
  <2>1. n \in 1..((Len(path) - 1) - 1 + 1) /\ 1 + n - 1 = n
    BY <1>1
  <2> QED BY <2>1, <1>2
<1>6. path[Len(path)] \in S
  BY <1>1
<1> QED BY <1>1, <1>2, <1>3, <1>4, <1>5, <1>6
-----------------------------------------------------------------------------
(* Following a path *)

LEMMA NowhereElse ==
  /\ Nowhere \notin Places /\ RootPlace \in Places
  /\ \A p \in Places : p[1] \in Block /\ p[2] \in Slot /\ p = <<p[1], p[2]>>
<1>1. -1 \notin Block
  BY DEF Block
<1> QED BY <1>1, RootIsBlock, FirstSlots DEF Nowhere, RootPlace, Places

LEMMA EntryType ==
  ASSUME NEW blocks \in Blocks, NEW p \in Places
  PROVE  Entry(blocks, p) \in FcbType /\ Entry(blocks, p).first \in Block
<1>1. Entry(blocks, p) \in FcbType
  BY NowhereElse DEF Entry, Blocks
<1> QED BY <1>1, FcbFields

(* The entry InFolder finds is the first of those in use with that name. *)
LEMMA InFolderFinds ==
  ASSUME NEW blocks \in Blocks, NEW b \in Block, NEW name
  PROVE  \/ /\ InFolder(blocks, b, name) = Nowhere
            /\ \A s \in Slot : ~(blocks[b][s].used /\ get_fullname(blocks[b][s]) = name)
         \/ \E s \in Slot : /\ InFolder(blocks, b, name) = <<b, s>>
                            /\ blocks[b][s].used /\ get_fullname(blocks[b][s]) = name
<1> DEFINE hits == {s \in Slot : blocks[b][s].used /\ get_fullname(blocks[b][s]) = name}
<1>1. CASE hits = {}
  BY <1>1 DEF InFolder
<1>2. CASE hits # {}
  <2>1. hits \subseteq Nat
    BY FirstSlots
  <2> DEFINE s == CHOOSE s \in hits : \A t \in hits : s <= t
  <2>2. s \in hits
    BY <1>2, <2>1, LeastElement
  <2>3. InFolder(blocks, b, name) = <<b, s>>
    BY <1>2 DEF InFolder
  <2> HIDE DEF s
  <2> QED BY <2>2, <2>3
<1> QED BY <1>1, <1>2

LEMMA InFolderType ==
  ASSUME NEW blocks \in Blocks, NEW b \in Block, NEW name
  PROVE  InFolder(blocks, b, name) \in Places \cup {Nowhere}
BY InFolderFinds DEF Places

(* One step of find_fcb along a path. *)
Descend(blocks, path, n, p) ==
  IF p = Nowhere THEN Nowhere
  ELSE InFolder(blocks, IF n = 1 THEN RootBlock ELSE Entry(blocks, p).first, path[n])

Follows(w, blocks, path) ==
  /\ w \in [0..Len(path) -> Places \cup {Nowhere}]
  /\ w[0] = RootPlace
  /\ \A n \in 1..Len(path) : w[n] = Descend(blocks, path, n, w[n - 1])

LEMMA DescendType ==
  ASSUME NEW blocks \in Blocks, NEW path, NEW n, NEW p \in Places \cup {Nowhere}
  PROVE  Descend(blocks, path, n, p) \in Places \cup {Nowhere}
BY InFolderType, EntryType, RootIsBlock DEF Descend

(* find_fcb follows the path: its recursive function has these values. *)
LEMMA FindWalk ==
  ASSUME NEW blocks \in Blocks, NEW path, Len(path) \in Nat
  PROVE  \E w : Follows(w, blocks, path) /\ find_fcb(blocks, path) = w[Len(path)]
<1> DEFINE D == Places \cup {Nowhere}
           F == [s \in Nat \X D |-> Descend(blocks, path, s[1], s[2])]
           at[n \in 0..Len(path)] ==
             IF n = 0 THEN RootPlace
             ELSE IF at[n - 1] = Nowhere THEN Nowhere
             ELSE InFolder(blocks, IF n = 1 THEN RootBlock ELSE Entry(blocks, at[n - 1]).first,
                           path[n])
<1>1. find_fcb(blocks, path) = at[Len(path)]
  BY DEF find_fcb
<1>2. at = CHOOSE f : f = [n \in 0..Len(path) |->
             IF n = 0 THEN RootPlace
             ELSE IF f[n - 1] = Nowhere THEN Nowhere
             ELSE InFolder(blocks, IF n = 1 THEN RootBlock ELSE Entry(blocks, f[n - 1]).first,
                           path[n])]
  OBVIOUS
<1> HIDE DEF at
<1>3. F \in [Nat \X D -> D]
  BY DescendType
<1>4. PICK w : Walks(w, Len(path), F, RootPlace, D)
  <2>1. RootPlace \in D
    BY NowhereElse
  <2> HIDE DEF F, D
  <2> QED BY <1>3, <2>1, WalkExists
<1>5. Follows(w, blocks, path)
  <2>1. ASSUME NEW n \in 1..Len(path) PROVE w[n] = Descend(blocks, path, n, w[n - 1])
    <3>1. n \in Nat /\ n - 1 \in 0..Len(path)
      OBVIOUS
    <3> HIDE DEF F, D
    <3>2. w[n - 1] \in D /\ w[n] = F[<<n, w[n - 1]>>]
      BY <1>4, <3>1 DEF Walks
    <3>3. F[<<n, w[n - 1]>>] = Descend(blocks, path, n, w[n - 1])
      BY <3>1, <3>2 DEF F
    <3> QED BY <3>2, <3>3
  <2> QED BY <1>4, <2>1 DEF Walks, Follows
<1>6. w = [n \in 0..Len(path) |->
             IF n = 0 THEN RootPlace
             ELSE IF w[n - 1] = Nowhere THEN Nowhere
             ELSE InFolder(blocks, IF n = 1 THEN RootBlock ELSE Entry(blocks, w[n - 1]).first,
                           path[n])]
  <2>1. w = [n \in 0..Len(path) |-> w[n]]
    BY <1>5 DEF Follows
  <2>2. \A n \in 0..Len(path) : n = 0 \/ n \in 1..Len(path)
    OBVIOUS
  <2>3. \A n \in 0..Len(path) :
          w[n] = IF n = 0 THEN RootPlace
                 ELSE IF w[n - 1] = Nowhere THEN Nowhere
                 ELSE InFolder(blocks, IF n = 1 THEN RootBlock ELSE Entry(blocks, w[n - 1]).first,
                               path[n])
    BY <1>5, <2>2 DEF Follows, Descend
  <2> QED BY <2>1, <2>3
<1>7. at = [n \in 0..Len(path) |->
             IF n = 0 THEN RootPlace
             ELSE IF at[n - 1] = Nowhere THEN Nowhere
             ELSE InFolder(blocks, IF n = 1 THEN RootBlock ELSE Entry(blocks, at[n - 1]).first,
                           path[n])]
  BY <1>2, <1>6
<1>8. Follows(at, blocks, path)
  <2>1. at[0] = RootPlace
    BY <1>7
  <2>2. ASSUME NEW n \in 1..Len(path) PROVE at[n] = Descend(blocks, path, n, at[n - 1])
    BY <1>7 DEF Descend
  <2>3. ASSUME NEW n \in 0..Len(path) PROVE at[n] \in D
    <3> DEFINE S == {k \in Nat : k <= Len(path) => at[k] \in D}
    <3>1. 0 \in S
      BY <2>1, NowhereElse
    <3>2. ASSUME NEW k \in Nat, k \in S PROVE k + 1 \in S
      <4>1. SUFFICES ASSUME k + 1 <= Len(path) PROVE at[k + 1] \in D
        OBVIOUS
      <4>2. at[k] \in D /\ k + 1 \in 1..Len(path) /\ (k + 1) - 1 = k
        BY <3>2, <4>1
      <4> QED BY <2>2, <4>2, DescendType
    <3> HIDE DEF S
    <3>3. \A k \in Nat : k \in S
      BY <3>1, <3>2, Induction
    <3> QED BY <3>3 DEF S
  <2>4. at \in [0..Len(path) -> D]
    <3>1. at = [n \in 0..Len(path) |-> at[n]]
      BY <1>7
    <3> QED BY <2>3, <3>1
  <2> QED BY <2>1, <2>2, <2>4 DEF Follows
<1> QED BY <1>1, <1>8

(* Paths that agree are walked alike. *)
LEMMA PrefixWalk ==
  ASSUME NEW blocks \in Blocks, NEW path, NEW front, Len(path) \in Nat, Len(front) \in 0..Len(path),
         \A n \in 1..Len(front) : front[n] = path[n],
         NEW w, Follows(w, blocks, path)
  PROVE  find_fcb(blocks, front) = w[Len(front)]
<1>1. PICK v : Follows(v, blocks, front) /\ find_fcb(blocks, front) = v[Len(front)]
  BY FindWalk
<1> DEFINE S == {n \in Nat : n <= Len(front) => v[n] = w[n]}
<1>2. 0 \in S
  BY <1>1 DEF Follows
<1>3. ASSUME NEW n \in Nat, n \in S PROVE n + 1 \in S
  <2>1. SUFFICES ASSUME n + 1 <= Len(front) PROVE v[n + 1] = w[n + 1]
    OBVIOUS
  <2>2. /\ v[n] = w[n] /\ (n + 1) - 1 = n
        /\ n + 1 \in 1..Len(front) /\ n + 1 \in 1..Len(path)
    BY <1>3, <2>1
  <2>3. v[n + 1] = Descend(blocks, front, n + 1, v[n])
    BY <1>1, <2>2 DEF Follows
  <2>4. w[n + 1] = Descend(blocks, path, n + 1, w[n])
    BY <2>2 DEF Follows
  <2> QED BY <2>2, <2>3, <2>4 DEF Descend
<1> HIDE DEF S
<1>4. \A n \in Nat : n \in S
  BY <1>2, <1>3, Induction
<1> QED BY <1>1, <1>4 DEF S

LEMMA FindType ==
  ASSUME NEW blocks \in Blocks, NEW path, Len(path) \in Nat
  PROVE  /\ find_fcb(blocks, path) \in Places \cup {Nowhere}
         /\ path = <<>> => find_fcb(blocks, path) = RootPlace
<1>1. PICK w : Follows(w, blocks, path) /\ find_fcb(blocks, path) = w[Len(path)]
  BY FindWalk
<1>2. path = <<>> => Len(path) = 0
  OBVIOUS
<1> QED BY <1>1, <1>2 DEF Follows

(* The last step of find_fcb, from where the path before it has led. *)
LEMMA FindStep ==
  ASSUME NEW blocks \in Blocks, NEW S, NEW path \in Seq(S), path # <<>>
  PROVE  LET up == find_fcb(blocks, Front(path))
         IN  /\ up = Nowhere => find_fcb(blocks, path) = Nowhere
             /\ up # Nowhere =>
                  /\ up \in Places
                  /\ find_fcb(blocks, path) =
                       InFolder(blocks,
                                IF Len(path) = 1 THEN RootBlock ELSE Entry(blocks, up).first,
                                Last(path))
<1> DEFINE n == Len(path)
<1>1. /\ n \in Nat /\ n > 0 /\ Len(Front(path)) = n - 1 /\ Last(path) = path[n]
      /\ \A i \in 1..(n - 1) : Front(path)[i] = path[i]
  BY FrontLast
<1>2. PICK w : Follows(w, blocks, path) /\ find_fcb(blocks, path) = w[n]
  BY <1>1, FindWalk
<1>3. find_fcb(blocks, Front(path)) = w[n - 1]
  <2>1. n - 1 \in 0..n
    BY <1>1
  <2> QED BY <1>1, <1>2, <2>1, PrefixWalk
<1>4. w[n] = Descend(blocks, path, n, w[n - 1]) /\ w[n - 1] \in Places \cup {Nowhere}
  BY <1>1, <1>2 DEF Follows
<1> QED BY <1>1, <1>2, <1>3, <1>4 DEF Descend
-----------------------------------------------------------------------------
(* Paths the user types *)

PathType == Seq(Names \cup Dots)

LEMMA DotsDiffer == Dot # DotDot
BY DEF Dot, DotDot

LEMMA DownType ==
  ASSUME NEW path \in PathType, NEW name \in Names \cup Dots
  PROVE  Down(path, name) \in PathType
<1>1. CASE name = Dot
  BY <1>1, DotsDiffer DEF Down
<1>2. CASE name # Dot /\ name = DotDot
  <2>1. path # <<>> => Front(path) \in PathType
    BY FrontLast DEF PathType
  <2> QED BY <1>2, <2>1 DEF Down
<1>3. CASE name # Dot /\ name # DotDot
  <2>1. Append(path, name) \in PathType
    BY DEF PathType
  <2> QED BY <1>3, <2>1 DEF Down
<1> QED BY <1>1, <1>2, <1>3

LEMMA ArgumentType ==
  ASSUME NEW arg \in Arguments
  PROVE  arg.path \in PathType /\ Len(arg.path) \in Nat
<1>1. arg.path \in PathType
  BY ArgumentsAssumption DEF PathType, Dots
<1> QED BY <1>1 DEF PathType

(* get_abspath yields a path of names, whatever the current directory. *)
LEMMA AbspathType ==
  ASSUME NEW current \in PathType, NEW arg \in Arguments
  PROVE  get_abspath(current, arg) \in PathType
<1> DEFINE n == Len(arg.path)
           F == [s \in Nat \X PathType |->
                   IF s[1] \in 1..n THEN Down(s[2], arg.path[s[1]]) ELSE s[2]]
           at[i \in 0..n] == IF i = 0 THEN current ELSE Down(at[i - 1], arg.path[i])
<1>1. n \in Nat /\ \A i \in 1..n : arg.path[i] \in Names \cup Dots
  BY ArgumentType, ElementOfSeq DEF PathType
<1>2. get_abspath(current, arg) = IF arg.absolute THEN arg.path ELSE at[n]
  BY DEF get_abspath
<1>3. at = CHOOSE f : f = [i \in 0..n |->
                             IF i = 0 THEN current ELSE Down(f[i - 1], arg.path[i])]
  OBVIOUS
<1> HIDE DEF at
<1>4. F \in [Nat \X PathType -> PathType]
  BY <1>1, DownType
<1>5. PICK w : Walks(w, n, F, current, PathType)
  <2> HIDE DEF F, n
  <2> QED BY <1>1, <1>4, WalkExists
<1>6. ASSUME NEW i \in 1..n PROVE w[i] = Down(w[i - 1], arg.path[i])
  <2>1. i \in Nat /\ i - 1 \in 0..n
    BY <1>1
  <2> HIDE DEF F
  <2>2. w[i - 1] \in PathType /\ w[i] = F[<<i, w[i - 1]>>]
    BY <1>5, <2>1 DEF Walks
  <2>3. F[<<i, w[i - 1]>>] = Down(w[i - 1], arg.path[i])
    BY <2>1, <2>2 DEF F
  <2> QED BY <2>2, <2>3
<1> HIDE DEF F
<1>7. w = [i \in 0..n |-> IF i = 0 THEN current ELSE Down(w[i - 1], arg.path[i])]
  <2>1. w = [i \in 0..n |-> w[i]]
    BY <1>5 DEF Walks
  <2>2. \A i \in 0..n : w[i] = IF i = 0 THEN current ELSE Down(w[i - 1], arg.path[i])
    <3>1. \A i \in 0..n : i = 0 \/ i \in 1..n
      BY <1>1
    <3> QED BY <1>5, <1>6, <3>1 DEF Walks
  <2> QED BY <2>1, <2>2
<1>8. at = [i \in 0..n |-> IF i = 0 THEN current ELSE Down(at[i - 1], arg.path[i])]
  BY <1>3, <1>7
<1> DEFINE S == {i \in Nat : i <= n => at[i] \in PathType}
<1>9. 0 \in S
  BY <1>1, <1>8
<1>10. ASSUME NEW i \in Nat, i \in S PROVE i + 1 \in S
  <2>1. SUFFICES ASSUME i + 1 <= n PROVE at[i + 1] \in PathType
    OBVIOUS
  <2>2. i + 1 \in 1..n /\ i + 1 \in 0..n /\ i + 1 # 0 /\ (i + 1) - 1 = i /\ at[i] \in PathType
    BY <1>1, <1>10, <2>1
  <2>3. at[i + 1] = Down(at[i], arg.path[i + 1])
    BY <1>8, <2>2
  <2> QED BY <1>1, <2>2, <2>3, DownType
<1> HIDE DEF S
<1>11. \A i \in Nat : i \in S
  BY <1>9, <1>10, Induction
<1>12. at[n] \in PathType
  BY <1>1, <1>11 DEF S
<1> QED BY <1>2, <1>12, ArgumentType
-----------------------------------------------------------------------------
(* Closing *)

TableType == [1..MaxOpen -> UseropenType]
Memory == [blk : Blocks, table : TableType, ok : BOOLEAN]

LEMMA SlotFields ==
  ASSUME NEW slot \in UseropenType
  PROVE  /\ slot.fcb \in FcbType /\ slot.dir \in PathType /\ Len(slot.dir) \in Nat
         /\ slot.count \in Nat /\ slot.fcb_state \in {0, 1} /\ slot.used \in BOOLEAN
         /\ \A u \in BOOLEAN : [slot EXCEPT !.used = u] \in UseropenType
BY DEF UseropenType, PathType

LEMMA MemoryFields ==
  ASSUME NEW m \in Memory
  PROVE  m.blk \in Blocks /\ m.table \in TableType /\ m.ok \in BOOLEAN
BY DEF Memory

LEMMA EntryReplaced ==
  ASSUME NEW blocks \in Blocks, NEW p \in Places, NEW fcb \in FcbType
  PROVE  /\ [blocks EXCEPT ![p[1]][p[2]] = fcb] \in Blocks
         /\ \A b \in Block, s \in Slot :
              [blocks EXCEPT ![p[1]][p[2]] = fcb][b][s] =
                IF <<b, s>> = p THEN fcb ELSE blocks[b][s]
BY NowhereElse DEF Blocks

(* What closing one slot does. *)
LEMMA CloseOne ==
  ASSUME NEW m \in Memory, NEW i \in 1..MaxOpen
  PROVE  LET slot  == m.table[i]
             place == find_fcb(m.blk, slot.dir)
             after == do_close(m, i)
         IN  /\ after \in Memory
             /\ after.ok =>
                  /\ m.ok
                  /\ after.table = [m.table EXCEPT ![i] = [slot EXCEPT !.used = FALSE]]
                  /\ slot.fcb_state = 0 => after.blk = m.blk
                  /\ slot.fcb_state = 1 =>
                       /\ place \in Places
                       /\ after.blk = [m.blk EXCEPT ![place[1]][place[2]] = slot.fcb]
<1> DEFINE slot  == m.table[i]
           place == find_fcb(m.blk, slot.dir)
           after == do_close(m, i)
           closed == [m EXCEPT !.table[i].used = FALSE]
           table == [m.table EXCEPT ![i] = [slot EXCEPT !.used = FALSE]]
           Done == /\ after \in Memory
                   /\ after.ok =>
                        /\ m.ok
                        /\ after.table = table
                        /\ slot.fcb_state = 0 => after.blk = m.blk
                        /\ slot.fcb_state = 1 =>
                             /\ place \in Places
                             /\ after.blk = [m.blk EXCEPT ![place[1]][place[2]] = slot.fcb]
<1>1. /\ m.blk \in Blocks /\ m.table \in TableType /\ m.ok \in BOOLEAN
      /\ m = [blk |-> m.blk, table |-> m.table, ok |-> m.ok]
  BY DEF Memory
<1>2. slot \in UseropenType
  BY <1>1 DEF TableType
<1>3. place \in Places \cup {Nowhere}
  BY <1>1, <1>2, SlotFields, FindType
<1>4. table \in TableType
  BY <1>1, <1>2, SlotFields DEF TableType
<1>5. closed = [blk |-> m.blk, table |-> table, ok |-> m.ok]
  <2>1. closed = [m EXCEPT !.table = table]
    OBVIOUS
  <2> HIDE DEF table
  <2> QED BY <1>1, <2>1
<1>6. after = IF ~m.ok \/ slot.fcb_state = 0 THEN closed
              ELSE IF place = Nowhere THEN [m EXCEPT !.ok = FALSE]
              ELSE [closed EXCEPT !.blk[place[1]][place[2]] = slot.fcb]
  BY DEF do_close
<1>7. ASSUME ~m.ok \/ slot.fcb_state = 0 PROVE Done
  <2>1. after = [blk |-> m.blk, table |-> table, ok |-> m.ok]
    BY <1>5, <1>6, <1>7
  <2> HIDE DEF after, slot, place, table
  <2> QED BY <1>1, <1>4, <1>7, <2>1 DEF Memory, Done
<1>8. ASSUME m.ok /\ slot.fcb_state # 0 /\ place = Nowhere PROVE Done
  <2>1. after = [blk |-> m.blk, table |-> m.table, ok |-> FALSE]
    BY <1>1, <1>6, <1>8
  <2> HIDE DEF after, slot, place, table
  <2> QED BY <1>1, <1>4, <1>8, <2>1 DEF Memory, Done
<1>9. ASSUME m.ok /\ slot.fcb_state # 0 /\ place # Nowhere PROVE Done
  <2> DEFINE blocks == [m.blk EXCEPT ![place[1]][place[2]] = slot.fcb]
  <2>1. after = [blk |-> blocks, table |-> table, ok |-> TRUE]
    BY <1>1, <1>5, <1>6, <1>9
  <2>2. place \in Places
    BY <1>3, <1>9
  <2>3. blocks \in Blocks
    BY <1>1, <1>2, <2>2, SlotFields, EntryReplaced
  <2> HIDE DEF after, slot, place, table, blocks
  <2>4. slot.fcb_state # 0
    BY <1>9
  <2> QED BY <1>4, <1>9, <2>1, <2>2, <2>3 DEF Memory, Done, blocks
<1>10. Done
  <2> HIDE DEF Done, slot, place
  <2> QED BY <1>7, <1>8, <1>9
<1> QED BY <1>10

LEMMA TableLength ==
  ASSUME NEW table \in TableType
  PROVE  Len(table) = MaxOpen /\ DOMAIN table = 1..MaxOpen /\ MaxOpen \in Nat /\ MaxOpen > 0
BY MaxOpenAssumption DEF TableType

Closing(w, blocks, table, fds) ==
  /\ w \in [0..MaxOpen -> Memory]
  /\ w[0] = [blk |-> blocks, table |-> table, ok |-> TRUE]
  /\ \A i \in 1..MaxOpen : w[i] = IF i \in fds THEN do_close(w[i - 1], i) ELSE w[i - 1]

(* CloseAll closes slot by slot. *)
LEMMA CloseWalk ==
  ASSUME NEW blocks \in Blocks, NEW table \in TableType, NEW fds
  PROVE  \E w : Closing(w, blocks, table, fds) /\ CloseAll(blocks, table, fds) = w[MaxOpen]
<1> DEFINE m0 == [blk |-> blocks, table |-> table, ok |-> TRUE]
           F == [s \in Nat \X Memory |->
                   IF s[1] \in 1..MaxOpen /\ s[1] \in fds THEN do_close(s[2], s[1]) ELSE s[2]]
           at[i \in 0..Len(table)] ==
             IF i = 0 THEN [blk |-> blocks, table |-> table, ok |-> TRUE]
             ELSE IF i \in fds THEN do_close(at[i - 1], i) ELSE at[i - 1]
<1>1. CloseAll(blocks, table, fds) = at[Len(table)]
  BY DEF CloseAll
<1>2. at = CHOOSE f : f = [i \in 0..Len(table) |->
             IF i = 0 THEN [blk |-> blocks, table |-> table, ok |-> TRUE]
             ELSE IF i \in fds THEN do_close(f[i - 1], i) ELSE f[i - 1]]
  OBVIOUS
<1>3. Len(table) = MaxOpen /\ MaxOpen \in Nat
  BY TableLength
<1> HIDE DEF at
<1>4. m0 \in Memory
  BY DEF Memory
<1>5. F \in [Nat \X Memory -> Memory]
  <2>1. \A m \in Memory, i \in 1..MaxOpen : do_close(m, i) \in Memory
    BY CloseOne
  <2> QED BY <2>1
<1>6. PICK w : Walks(w, MaxOpen, F, m0, Memory)
  <2> HIDE DEF F, m0
  <2> QED BY <1>3, <1>4, <1>5, WalkExists
<1>7. Closing(w, blocks, table, fds)
  <2>1. ASSUME NEW i \in 1..MaxOpen
        PROVE  w[i] = IF i \in fds THEN do_close(w[i - 1], i) ELSE w[i - 1]
    <3>1. i \in Nat /\ i - 1 \in 0..MaxOpen
      BY <1>3
    <3> HIDE DEF F
    <3>2. w[i - 1] \in Memory /\ w[i] = F[<<i, w[i - 1]>>]
      BY <1>6, <3>1 DEF Walks
    <3>3. F[<<i, w[i - 1]>>] = IF i \in fds THEN do_close(w[i - 1], i) ELSE w[i - 1]
      BY <3>1, <3>2 DEF F
    <3> QED BY <3>2, <3>3
  <2> QED BY <1>6, <2>1 DEF Walks, Closing
<1> HIDE DEF F
<1>8. w = [i \in 0..Len(table) |->
             IF i = 0 THEN [blk |-> blocks, table |-> table, ok |-> TRUE]
             ELSE IF i \in fds THEN do_close(w[i - 1], i) ELSE w[i - 1]]
  <2>1. w = [i \in 0..Len(table) |-> w[i]]
    BY <1>3, <1>7 DEF Closing
  <2>2. \A i \in 0..Len(table) :
          w[i] = IF i = 0 THEN [blk |-> blocks, table |-> table, ok |-> TRUE]
                 ELSE IF i \in fds THEN do_close(w[i - 1], i) ELSE w[i - 1]
    <3>1. \A i \in 0..Len(table) : i = 0 \/ i \in 1..MaxOpen
      BY <1>3
    <3> QED BY <1>7, <3>1 DEF Closing
  <2> QED BY <2>1, <2>2
<1>9. at = [i \in 0..Len(table) |->
              IF i = 0 THEN [blk |-> blocks, table |-> table, ok |-> TRUE]
              ELSE IF i \in fds THEN do_close(at[i - 1], i) ELSE at[i - 1]]
  BY <1>2, <1>8
<1>10. at[0] = m0
  BY <1>3, <1>9
<1>11. ASSUME NEW i \in 1..MaxOpen
       PROVE  at[i] = IF i \in fds THEN do_close(at[i - 1], i) ELSE at[i - 1]
  <2>1. i \in 0..Len(table) /\ i # 0
    BY <1>3
  <2> QED BY <1>9, <2>1
<1>12. ASSUME NEW i \in 0..MaxOpen PROVE at[i] \in Memory
  <2> DEFINE S == {k \in Nat : k <= MaxOpen => at[k] \in Memory}
  <2>1. 0 \in S
    BY <1>4, <1>10
  <2>2. ASSUME NEW k \in Nat, k \in S PROVE k + 1 \in S
    <3>1. SUFFICES ASSUME k + 1 <= MaxOpen PROVE at[k + 1] \in Memory
      OBVIOUS
    <3>2. at[k] \in Memory /\ k + 1 \in 1..MaxOpen /\ (k + 1) - 1 = k
      BY <1>3, <2>2, <3>1
    <3>3. at[k + 1] = IF k + 1 \in fds THEN do_close(at[k], k + 1) ELSE at[k]
      BY <1>11, <3>2
    <3>4. do_close(at[k], k + 1) \in Memory
      BY <3>2, CloseOne
    <3> QED BY <3>2, <3>3, <3>4
  <2> HIDE DEF S
  <2>3. \A k \in Nat : k \in S
    BY <2>1, <2>2, Induction
  <2> QED BY <1>3, <2>3 DEF S
<1>13. at \in [0..MaxOpen -> Memory]
  <2>1. at = [i \in 0..MaxOpen |-> at[i]]
    BY <1>3, <1>9
  <2> QED BY <1>12, <2>1
<1>14. Closing(at, blocks, table, fds)
  BY <1>10, <1>11, <1>13 DEF Closing
<1> QED BY <1>1, <1>3, <1>14
-----------------------------------------------------------------------------
(* Types *)

LEMMA FsTypes ==
  FsTypeOK <=> /\ TypeOK
               /\ blk \in Blocks
               /\ openfile_list \in TableType
               /\ curdir \in 1..MaxOpen /\ current_dir \in PathType
               /\ fd \in 1..MaxOpen /\ length \in 0..(MaxBlocks * BLOCK_SIZE - 1)
               /\ saved.blocks \in Blocks /\ saved.tidy \in BOOLEAN
               /\ commands \in 0..MaxCommands /\ tidy \in BOOLEAN
BY DEF FsTypeOK, Blocks, TableType, PathType

(* What a command's path refers to. *)
LEMMA ArgumentFacts ==
  ASSUME FsTypeOK, NEW arg \in Arguments
  PROVE  /\ Path(arg) \in PathType /\ Len(Path(arg)) \in Nat
         /\ Place(arg) \in Places \cup {Nowhere}
         /\ Exists(arg) => /\ Place(arg) \in Places
                           /\ Fcb(arg) \in FcbType /\ Fcb(arg).first \in Block
<1>1. blk \in Blocks /\ current_dir \in PathType
  BY FsTypes
<1>2. Path(arg) \in PathType
  BY <1>1, AbspathType DEF Path
<1>3. Len(Path(arg)) \in Nat
  BY <1>2 DEF PathType
<1>4. Place(arg) \in Places \cup {Nowhere}
  BY <1>1, <1>3, FindType DEF Place
<1>5. Exists(arg) => Place(arg) \in Places
  BY <1>4 DEF Exists
<1> QED BY <1>1, <1>2, <1>3, <1>4, <1>5, EntryType DEF Fcb

LEMMA LowestType ==
  ASSUME NEW fds, fds \subseteq 1..MaxOpen, fds # {}
  PROVE  LowestOf(fds) \in fds /\ \A i \in fds : LowestOf(fds) <= i
<1>1. fds \subseteq Nat
  BY TableLength
<1> QED BY <1>1, LeastElement DEF LowestOf

LEMMA OpenAsType ==
  ASSUME NEW table \in TableType, NEW fcb
  PROVE  /\ OpenAs(table, fcb) \subseteq 1..MaxOpen
         /\ OpenAs(table, fcb) # {} => LowestOf(OpenAs(table, fcb)) \in OpenAs(table, fcb)
<1>1. OpenAs(table, fcb) \subseteq 1..MaxOpen
  BY TableLength DEF OpenAs
<1> QED BY <1>1, LowestType

LEMMA UseropenFree ==
  ASSUME NEW table \in TableType, get_useropen(table) # -1
  PROVE  get_useropen(table) \in 1..MaxOpen /\ ~table[get_useropen(table)].used
<1> DEFINE free == {i \in DOMAIN table : ~table[i].used}
<1>1. free \subseteq Nat /\ DOMAIN table = 1..MaxOpen
  BY TableLength
<1>2. free # {}
  BY DEF get_useropen
<1>3. get_useropen(table) = CHOOSE i \in free : \A k \in free : i <= k
  BY <1>2 DEF get_useropen
<1>4. get_useropen(table) \in free
  <2> HIDE DEF free
  <2> QED BY <1>1, <1>2, <1>3, LeastElement
<1> QED BY <1>1, <1>4

LEMMA OpenedType ==
  ASSUME FsTypeOK, NEW arg \in Arguments, Exists(arg), NEW i \in 1..MaxOpen, opened(i, arg)
  PROVE  openfile_list' \in TableType
<1>1. openfile_list[i] \in UseropenType /\ openfile_list \in TableType
  BY FsTypes DEF TableType
<1>2. Fcb(arg) \in FcbType /\ Path(arg) \in PathType
  BY ArgumentFacts
<1> DEFINE slot == [openfile_list[i] EXCEPT !.fcb = Fcb(arg), !.dir = Path(arg), !.count = 0,
                                           !.used = TRUE]
<1>3. slot \in UseropenType
  BY <1>1, <1>2 DEF UseropenType, PathType
<1>4. openfile_list' = [openfile_list EXCEPT ![i] = slot]
  BY DEF opened
<1> HIDE DEF slot
<1> QED BY <1>1, <1>3, <1>4 DEF TableType

LEMMA EntryMadeType ==
  ASSUME NEW first \in Block
  PROVE  /\ \A name \in Names : FileEntry(name, first) \in FcbType
         /\ \A name \in Names \cup Dots, len \in Nat :
              /\ FolderEntry(name, first) \in FcbType
              /\ [FolderEntry(name, first) EXCEPT !.length = len] \in FcbType
<1>1. ASSUME NEW name \in Names PROVE FileEntry(name, first) \in FcbType
  <2>1. <<name[1], Nothing>> \in FileName
    BY NamesInType
  <2>2. (IF name[2] = Nothing THEN "d" ELSE name[2]) \in Exname
    BY NamesInType
  <2> QED BY <2>1, <2>2 DEF FileEntry, set_fcb, FcbType
<1>2. ASSUME NEW name \in Names \cup Dots, NEW len \in Nat
      PROVE  /\ FolderEntry(name, first) \in FcbType
             /\ [FolderEntry(name, first) EXCEPT !.length = len] \in FcbType
  <2>1. name \in FileName /\ "di" \in Exname
    BY NamesInType
  <2>2. FolderEntry(name, first) \in FcbType
    BY <2>1, BlockSizeAssumption DEF FolderEntry, set_fcb, FcbType
  <2> QED BY <2>2 DEF FcbType
<1> QED BY <1>1, <1>2

LEMMA FolderMadeType ==
  ASSUME NEW blocks \in Blocks, NEW first \in Block, NEW second \in Block
  PROVE  init_folder(blocks, first, second) \in [Slot -> FcbType]
<1>1. Dot \in Names \cup Dots /\ DotDot \in Names \cup Dots
  BY DEF Dots
<1>2. blocks[first][1].length \in Nat
  BY FirstSlots, FcbFields DEF Blocks
<1>3. FolderEntry(Dot, second) \in FcbType
  BY <1>1, <1>2, EntryMadeType
<1>4. [FolderEntry(DotDot, first) EXCEPT !.length = blocks[first][1].length] \in FcbType
  BY <1>1, <1>2, EntryMadeType
<1>5. Blank \in [Slot -> FcbType]
  BY EntryTypes DEF Blank
<1> QED BY <1>3, <1>4, <1>5 DEF init_folder

LEMMA FormattedType ==
  ASSUME blk \in Blocks
  PROVE  FormattedBlocks \in Blocks /\ NoBlocks \in Blocks
<1>1. Blank \in [Slot -> FcbType]
  BY EntryTypes DEF Blank
<1>2. RootFolder \in [Slot -> FcbType]
  <2>1. Dot \in Names \cup Dots /\ DotDot \in Names \cup Dots /\ 2 * BLOCK_SIZE \in Nat
    BY BlockSizeAssumption DEF Dots
  <2>2. /\ [FolderEntry(Dot, RootBlock) EXCEPT !.length = 2 * BLOCK_SIZE] \in FcbType
        /\ [FolderEntry(DotDot, RootBlock) EXCEPT !.length = 2 * BLOCK_SIZE] \in FcbType
    BY <2>1, RootIsBlock, EntryMadeType
  <2> QED BY <1>1, <2>2 DEF RootFolder
<1>3. FormattedBlocks \in Blocks
  BY <1>2, RootIsBlock, FirstSlots, EntryTypes DEF FormattedBlocks, Blocks
<1> QED BY <1>1, <1>3 DEF NoBlocks, Blocks

LEMMA FreshType ==
  ASSUME NEW blocks \in Blocks
  PROVE  FreshTable(blocks) \in TableType
<1>1. blocks[RootBlock][1] \in FcbType /\ NoEntry \in FcbType
  BY RootIsBlock, FirstSlots, EntryTypes DEF Blocks
<1>2. <<>> \in PathType
  BY DEF PathType
<1>3. Closed \in UseropenType
  BY <1>1, <1>2 DEF Closed, UseropenType, PathType
<1>4. [Closed EXCEPT !.fcb = blocks[RootBlock][1], !.used = TRUE] \in UseropenType
  BY <1>1, <1>3 DEF UseropenType
<1> QED BY <1>3, <1>4 DEF FreshTable, TableType

LEMMA TextType ==
  /\ Blank \in [Slot -> FcbType] /\ FullText \in [Slot -> FcbType]
  /\ PartialText \in [Slot -> FcbType]
BY EntryTypes, FirstSlots DEF Blank, FullText, PartialText

(* Where Enter puts an entry: in a free slot of its folder. *)
LEMMA EnterWhere ==
  ASSUME blk \in Blocks, NEW parent, Len(parent) \in Nat, HasRoom(parent), NEW entry \in FcbType
  PROVE  LET place == find_fcb(blk, parent)
             b == Entry(blk, place).first
         IN  /\ place \in Places /\ b \in Block
             /\ Enter(parent, entry) \in Blocks
             /\ \E s \in Slot : /\ ~blk[b][s].used
                                /\ Enter(parent, entry) = [blk EXCEPT ![b][s] = entry]
<1> DEFINE place == find_fcb(blk, parent)
           b == Entry(blk, place).first
           free == FreeSlots(blk[b])
<1>1. place \in Places
  BY FindType DEF HasRoom
<1>2. b \in Block
  BY <1>1, EntryType
<1>3. free # {} /\ free \subseteq Nat /\ \A s \in free : s \in Slot /\ ~blk[b][s].used
  BY FirstSlots DEF HasRoom, FreeSlots
<1> DEFINE s == FirstFreeSlot(blk[b])
<1>4. s \in free
  <2>1. s = CHOOSE k \in free : \A t \in free : k <= t
    BY DEF FirstFreeSlot
  <2> HIDE DEF free, s
  <2> QED BY <1>3, <2>1, LeastElement
<1>5. Enter(parent, entry) = [blk EXCEPT ![b][s] = entry]
  BY DEF Enter
<1>6. s \in Slot /\ ~blk[b][s].used
  BY <1>3, <1>4
<1> HIDE DEF s, free, place, b
<1>7. [blk EXCEPT ![b][s] = entry] \in Blocks
  BY <1>2, <1>6 DEF Blocks
<1> QED BY <1>1, <1>2, <1>5, <1>6, <1>7 DEF place, b
-----------------------------------------------------------------------------
(* Every action keeps the types *)

FsPart ==
  /\ blk \in Blocks
  /\ openfile_list \in TableType
  /\ curdir \in 1..MaxOpen /\ current_dir \in PathType
  /\ fd \in 1..MaxOpen /\ length \in 0..(MaxBlocks * BLOCK_SIZE - 1)
  /\ saved.blocks \in Blocks /\ saved.tidy \in BOOLEAN
  /\ commands \in 0..MaxCommands /\ tidy \in BOOLEAN

LEMMA Zeros ==
  /\ 1 \in 1..MaxOpen /\ 0 \in 0..(MaxBlocks * BLOCK_SIZE - 1) /\ <<>> \in PathType
  /\ MaxBlocks * BLOCK_SIZE \in Nat /\ 0 \in 0..MaxCommands
<1>1. MaxBlocks * BLOCK_SIZE \in Nat /\ MaxBlocks * BLOCK_SIZE > 0
  BY MaxBlocksAssumption, BlockSizeAssumption
<1> QED BY <1>1, MaxOpenAssumption, MaxCommandsAssumption DEF PathType

LEMMA TypedType ==
  ASSUME FsTypeOK, Typed
  PROVE  commands' \in 0..MaxCommands /\ pc = "cmd"
BY FsTypes, MaxCommandsAssumption DEF Typed

LEMMA GoneType ==
  ASSUME FsTypeOK, Gone, saved'.blocks \in Blocks, saved'.tidy \in BOOLEAN,
         commands' \in 0..MaxCommands
  PROVE  FsPart'
<1>1. NoBlocks \in Blocks
  BY FsTypes, FormattedType
<1>2. FreshTable(NoBlocks) \in TableType
  BY <1>1, FreshType
<1> QED BY <1>1, <1>2, Zeros DEF Gone, FsPart

LEMMA SavesType ==
  ASSUME FsTypeOK,
         boot \/ my_format \/ save_done \/ killed \/ \E w \in 0..NumBlocks : torn(w)
  PROVE  FsPart'
<1> USE FsTypes
<1>1. CASE boot
  <2>1. blk' \in Blocks
    BY <1>1, FormattedType DEF boot
  <2>2. tidy' \in BOOLEAN
    BY <1>1 DEF boot
  <2>3. openfile_list' \in TableType
    BY <1>1, <2>1, FreshType DEF boot
  <2> QED BY <1>1, <2>1, <2>2, <2>3, Zeros DEF boot, FsPart
<1>2. CASE my_format
  <2>1. blk' \in Blocks /\ tidy' \in BOOLEAN
    BY <1>2, FormattedType DEF my_format, TableIsFresh
  <2>2. saved'.blocks \in Blocks /\ saved'.tidy \in BOOLEAN
    BY <1>2, FormattedType DEF my_format, NothingSaved
  <2>3. commands' \in 0..MaxCommands
    BY <1>2, TypedType DEF my_format
  <2> QED BY <1>2, <2>1, <2>2, <2>3 DEF my_format, NoWrite, tableVars, FsPart
<1>3. CASE save_done
  <2>1. saved'.blocks \in Blocks /\ saved'.tidy \in BOOLEAN /\ commands' \in 0..MaxCommands
    BY <1>3 DEF save_done
  <2>2. CASE pc' = "off"
    BY <1>3, <2>1, <2>2, GoneType DEF save_done
  <2>3. CASE pc' # "off"
    BY <1>3, <2>1, <2>3 DEF save_done, tableVars, FsPart
  <2> QED BY <2>2, <2>3
<1>4. CASE killed
  BY <1>4, GoneType DEF killed
<1>5. ASSUME NEW w \in 0..NumBlocks, torn(w) PROVE FsPart'
  <2>1. [b \in Block |-> IF b < w THEN blk[b] ELSE Blank] \in Blocks
    BY TextType DEF Blocks
  <2>2. saved'.blocks \in Blocks /\ saved'.tidy \in BOOLEAN
    BY <1>5, <2>1 DEF torn
  <2>3. Gone /\ commands' = commands
    BY <1>5 DEF torn
  <2> QED BY <2>2, <2>3, GoneType
<1> QED BY <1>1, <1>2, <1>3, <1>4, <1>5

LEMMA CloseAllType ==
  ASSUME FsTypeOK, NEW fds
  PROVE  CloseAll(blk, openfile_list, fds) \in Memory
<1>1. \E w : Closing(w, blk, openfile_list, fds) /\ CloseAll(blk, openfile_list, fds) = w[MaxOpen]
  BY FsTypes, CloseWalk
<1>2. MaxOpen \in 0..MaxOpen
  BY MaxOpenAssumption
<1> QED BY <1>1, <1>2 DEF Closing

LEMMA ClosesType ==
  ASSUME FsTypeOK,
         \/ exit \/ exit_crash \/ close_all
         \/ \E arg \in Arguments :
              my_close(arg) \/ close_crash(arg) \/ open_crash(arg) \/ read_crash(arg)
  PROVE  FsPart'
<1> USE FsTypes
<1>1. ASSUME Typed, Crash PROVE FsPart'
  <2>1. commands' \in 0..MaxCommands
    BY <1>1, TypedType
  <2>2. Gone /\ saved' = saved
    BY <1>1 DEF Crash
  <2> QED BY <2>1, <2>2, GoneType
<1>2. CASE exit
  <2> DEFINE m == CloseAll(blk, openfile_list, 1..MaxOpen)
  <2>1. m.blk \in Blocks /\ m.table \in TableType
    BY CloseAllType, MemoryFields
  <2>2. /\ blk' = m.blk /\ openfile_list' = m.table /\ saved' = NothingSaved
        /\ Typed /\ UNCHANGED <<fd, length, curdir, current_dir>> /\ tidy' \in BOOLEAN
    BY <1>2 DEF exit, NoWrite, Untidy
  <2>3. saved'.blocks \in Blocks /\ saved'.tidy \in BOOLEAN
    BY <2>2, FormattedType DEF NothingSaved
  <2>4. commands' \in 0..MaxCommands
    BY <2>2, TypedType
  <2> QED BY <2>1, <2>2, <2>3, <2>4 DEF FsPart
<1>3. CASE exit_crash
  BY <1>1, <1>3 DEF exit_crash
<1>4. CASE close_all
  <2> DEFINE fds == {i \in 1..MaxOpen : i # curdir /\ openfile_list[i].used}
             slot(i) == IF i \in fds THEN [openfile_list[i] EXCEPT !.used = FALSE]
                                     ELSE openfile_list[i]
  <2>1. \A i \in 1..MaxOpen : slot(i) \in UseropenType
    BY SlotFields DEF TableType
  <2>2. openfile_list' = [i \in 1..MaxOpen |-> slot(i)]
    BY <1>4 DEF close_all
  <2>3. openfile_list' \in TableType
    <3> HIDE DEF slot
    <3> QED BY <2>1, <2>2 DEF TableType
  <2>4. tidy' \in BOOLEAN /\ Typed /\ UNCHANGED <<blk, curdir, current_dir, saved, fd, length>>
    BY <1>4 DEF close_all, Untidy, NoWrite
  <2> QED BY <2>3, <2>4, TypedType DEF FsPart
<1>5. ASSUME NEW arg \in Arguments, my_close(arg) PROVE FsPart'
  <2> DEFINE m == CloseAll(blk, openfile_list, OpenAs(openfile_list, Fcb(arg)))
  <2>1. m.blk \in Blocks /\ m.table \in TableType
    BY CloseAllType, MemoryFields
  <2>2. /\ blk' = m.blk /\ openfile_list' = m.table
        /\ Typed /\ UNCHANGED <<fd, length, curdir, current_dir, saved>> /\ tidy' \in BOOLEAN
    BY <1>5 DEF my_close, NoWrite, Untidy
  <2> QED BY <2>1, <2>2, TypedType DEF FsPart
<1>6. ASSUME NEW arg \in Arguments, close_crash(arg) \/ open_crash(arg) \/ read_crash(arg)
      PROVE FsPart'
  BY <1>1, <1>6 DEF close_crash, open_crash, read_crash
<1> QED BY <1>2, <1>3, <1>4, <1>5, <1>6

LEMMA RemovedType ==
  ASSUME FsTypeOK, NEW p \in Places
  PROVE  [blk EXCEPT ![p[1]][p[2]] = NoEntry] \in Blocks
BY FsTypes, EntryTypes, EntryReplaced

(* Whatever the stack spells after the parent's path, it is a path.        *)
LEMMA ParpathsType ==
  ASSUME NEW path \in PathType, path # <<>>
  PROVE  Parpaths(path) \subseteq PathType
<1> DEFINE parent == Front(path)
<1>1. parent \in PathType /\ (Len(path) # 1 => parent # <<>>)
  <2>1. parent \in PathType /\ Len(path) \in Nat /\ Len(path) > 0 /\ Len(parent) = Len(path) - 1
    BY FrontLast DEF PathType
  <2>2. Len(<<>>) = 0
    OBVIOUS
  <2>3. ASSUME Len(path) # 1 PROVE parent # <<>>
    BY <2>1, <2>2, <2>3
  <2> QED BY <2>1, <2>3
<1>2. ASSUME parent # <<>>,
             NEW name \in Longer[Last(parent)], NEW rest \in Tails
      PROVE  Append(Front(parent), name) \o rest \in PathType
  <2> HIDE DEF parent
  <2>1. Front(parent) \in PathType /\ Last(parent) \in Names \cup Dots
    BY <1>1, <1>2, FrontLast DEF PathType
  <2>2. name \in Names \cup Dots
    BY <2>1, LongerAssumption DEF Dots
  <2>3. Append(Front(parent), name) \in PathType
    BY <2>1, <2>2 DEF PathType
  <2>4. rest \in PathType
    BY TailsAssumption DEF PathType, Dots
  <2> QED BY <2>3, <2>4 DEF PathType
<1>3. \A other \in Parpaths(path) :
        \/ other = parent
        \/ /\ Len(path) # 1
           /\ \E name \in Longer[Last(parent)], rest \in Tails :
                other = Append(Front(parent), name) \o rest
  BY DEF Parpaths
<1> HIDE DEF parent
<1> QED BY <1>1, <1>2, <1>3

LEMMA FoldersType ==
  ASSUME FsTypeOK, NEW arg \in Arguments, my_cd(arg) \/ my_mkdir(arg) \/ my_rmdir(arg)
  PROVE  FsPart'
<1> USE FsTypes
<1>1. CASE my_cd(arg)
  <2> DEFINE open == OpenAs(openfile_list, Fcb(arg))
             i    == get_useropen(openfile_list)
  <2>1. /\ Typed /\ Exists(arg) /\ tidy' \in BOOLEAN
        /\ UNCHANGED <<fd, length, blk, saved>>
    BY <1>1 DEF my_cd, Untidy, NoWrite
  <2>2. commands' \in 0..MaxCommands
    BY <2>1, TypedType
  <2>3. CASE open # {} /\ UNCHANGED openfile_list /\ do_chdir(LowestOf(open))
    <3>1. LowestOf(open) \in 1..MaxOpen
      BY <2>3, OpenAsType
    <3>2. openfile_list[LowestOf(open)].dir \in PathType
      BY <3>1, SlotFields DEF TableType
    <3> QED BY <2>1, <2>2, <2>3, <3>1, <3>2 DEF do_chdir, FsPart
  <2>4. CASE open = {} /\ i > 1 /\ opened(i, arg) /\ do_chdir(i)
    <3>1. i \in 1..MaxOpen
      BY <2>4, UseropenFree
    <3>2. openfile_list' \in TableType
      BY <2>1, <2>4, <3>1, OpenedType
    <3>3. openfile_list'[i].dir \in PathType
      BY <3>1, <3>2, SlotFields DEF TableType
    <3> QED BY <2>1, <2>2, <2>4, <3>1, <3>2, <3>3 DEF do_chdir, FsPart
  <2>5. CASE open = {} /\ i = 1 /\ opened(i, arg) /\ UNCHANGED <<curdir, current_dir>>
    <3>1. openfile_list' \in TableType
      BY <2>1, <2>5, Zeros, OpenedType
    <3> QED BY <2>1, <2>2, <2>5, <3>1 DEF FsPart
  <2> QED BY <1>1, <2>3, <2>4, <2>5 DEF my_cd
<1>2. CASE my_mkdir(arg)
  <2> DEFINE path   == Path(arg)
             second == get_free(fat1, 1)
  <2>1. /\ Typed /\ path # <<>> /\ Last(path) \in Names /\ allocate
        /\ UNCHANGED <<fd, length, openfile_list, curdir, current_dir, saved>>
    BY <1>2 DEF my_mkdir, NoWrite, tableVars
  <2>2. second \in Block
    <3>1. fat1 \in FatType
      BY DEF TypeOK
    <3> QED BY <2>1, <3>1, GetFreeFindsFree DEF allocate
  <2>3. PICK parpath \in Parpaths(path) :
          LET first   == Entry(blk, find_fcb(blk, parpath)).first
              entered == Enter(parpath, FolderEntry(Last(path), second))
          IN  /\ HasRoom(parpath)
              /\ blk' = [entered EXCEPT ![second] = init_folder(entered, first, second)]
              /\ Untidy(IsFolder(parpath))
    BY <1>2 DEF my_mkdir
  <2>4. parpath \in PathType
    <3>1. path \in PathType
      BY ArgumentFacts
    <3> QED BY <2>1, <2>3, <3>1, ParpathsType
  <2>5. Len(parpath) \in Nat
    BY <2>4 DEF PathType
  <2> DEFINE first   == Entry(blk, find_fcb(blk, parpath)).first
             entered == Enter(parpath, FolderEntry(Last(path), second))
  <2>6. FolderEntry(Last(path), second) \in FcbType
    BY <2>1, <2>2, BlockSizeAssumption, EntryMadeType
  <2>7. entered \in Blocks /\ first \in Block
    BY <2>3, <2>5, <2>6, EnterWhere
  <2>8. init_folder(entered, first, second) \in [Slot -> FcbType]
    BY <2>2, <2>7, FolderMadeType
  <2>9. blk' \in Blocks /\ tidy' \in BOOLEAN
    <3> HIDE DEF first, entered, second
    <3>1. blk' = [entered EXCEPT ![second] = init_folder(entered, first, second)]
      BY <2>3 DEF first, entered, second
    <3>2. tidy' \in BOOLEAN
      BY <2>3 DEF Untidy
    <3> QED BY <2>2, <2>7, <2>8, <3>1, <3>2 DEF Blocks
  <2> QED BY <2>1, <2>9, TypedType DEF FsPart
<1>3. CASE my_rmdir(arg)
  <2> DEFINE first == Fcb(arg).first
             place == Place(arg)
  <2>1. /\ Typed /\ Exists(arg)
        /\ blk' = [blk EXCEPT ![place[1]][place[2]] = NoEntry,
                              ![first][1] = NoEntry, ![first][2] = NoEntry]
        /\ tidy' \in BOOLEAN
        /\ UNCHANGED <<fd, length, openfile_list, curdir, current_dir, saved>>
    BY <1>3 DEF my_rmdir, NoWrite, Untidy, tableVars
  <2>2. place \in Places /\ first \in Block
    BY <2>1, ArgumentFacts
  <2>3. blk' \in Blocks
    <3> HIDE DEF first, place
    <3>1. place[1] \in Block /\ place[2] \in Slot
      BY <2>2, NowhereElse
    <3> QED BY <2>1, <2>2, <3>1, FirstSlots, EntryTypes DEF Blocks
  <2> QED BY <2>1, <2>3, TypedType DEF FsPart
<1> QED BY <1>1, <1>2, <1>3

LEMMA FilesType ==
  ASSUME FsTypeOK, NEW arg \in Arguments,
         my_create(arg) \/ my_rm(arg) \/ my_open(arg) \/ my_read(arg)
  PROVE  FsPart'
<1> USE FsTypes
<1>1. CASE my_create(arg)
  <2> DEFINE path   == Path(arg)
             parent == Front(path)
             b      == get_free(fat1, 1)
  <2>1. /\ Typed /\ path # <<>> /\ Last(path) \in Names /\ HasRoom(parent)
        /\ blk' = Enter(parent, FileEntry(Last(path), b)) /\ allocate
        /\ tidy' \in BOOLEAN
        /\ UNCHANGED <<fd, length, openfile_list, curdir, current_dir, saved>>
    BY <1>1 DEF my_create, NoWrite, Untidy, tableVars
  <2>2. b \in Block
    <3>1. fat1 \in FatType
      BY DEF TypeOK
    <3> QED BY <2>1, <3>1, GetFreeFindsFree DEF allocate
  <2>3. Len(parent) \in Nat
    <3>1. path \in PathType
      BY ArgumentFacts
    <3> QED BY <2>1, <3>1, FrontLast DEF PathType
  <2>4. FileEntry(Last(path), b) \in FcbType
    BY <2>1, <2>2, EntryMadeType
  <2>5. blk' \in Blocks
    BY <2>1, <2>3, <2>4, EnterWhere
  <2> QED BY <2>1, <2>5, TypedType DEF FsPart
<1>2. CASE my_rm(arg)
  <2>1. /\ Typed /\ Exists(arg)
        /\ blk' = [blk EXCEPT ![Place(arg)[1]][Place(arg)[2]] = NoEntry]
        /\ tidy' \in BOOLEAN
        /\ UNCHANGED <<fd, length, openfile_list, curdir, current_dir, saved>>
    BY <1>2 DEF my_rm, NoWrite, Untidy, tableVars
  <2>2. blk' \in Blocks
    BY <2>1, ArgumentFacts, RemovedType
  <2> QED BY <2>1, <2>2, TypedType DEF FsPart
<1>3. CASE my_open(arg)
  <2> DEFINE i == get_useropen(openfile_list)
  <2>1. /\ Typed /\ Exists(arg) /\ i # -1 /\ opened(i, arg) /\ tidy' \in BOOLEAN
        /\ UNCHANGED <<fd, length, blk, curdir, current_dir, saved>>
    BY <1>3 DEF my_open, NoWrite, Untidy
  <2>2. openfile_list' \in TableType
    BY <2>1, UseropenFree, OpenedType
  <2> QED BY <2>1, <2>2, TypedType DEF FsPart
<1>4. CASE my_read(arg)
  <2> DEFINE i == OpenFd(arg)
  <2>1. /\ Typed /\ Exists(arg) /\ OpenAs(openfile_list, Fcb(arg)) # {}
        /\ UNCHANGED <<fd, length, blk, curdir, current_dir, saved, tidy>>
    BY <1>4 DEF my_read, Opened, NoWrite
  <2>2. i \in 1..MaxOpen
    BY <2>1, OpenAsType DEF OpenFd
  <2>3. openfile_list[i] \in UseropenType /\ openfile_list[i].fcb.length \in Nat
    <3>1. openfile_list[i] \in UseropenType
      BY <2>2 DEF TableType
    <3> QED BY <3>1, SlotFields, FcbFields
  <2>4. PICK n \in Sizes \cup {openfile_list[i].fcb.length} :
          openfile_list' = [openfile_list EXCEPT ![i].count = n]
    BY <1>4 DEF my_read
  <2>5. n \in Nat
    BY <2>3, SizesAssumption
  <2>6. openfile_list' \in TableType
    <3> HIDE DEF i
    <3>1. [openfile_list[i] EXCEPT !.count = n] \in UseropenType
      BY <2>3, <2>5 DEF UseropenType
    <3>2. openfile_list' = [openfile_list EXCEPT ![i] = [openfile_list[i] EXCEPT !.count = n]]
      BY <2>4
    <3> QED BY <3>1, <3>2 DEF TableType
  <2> QED BY <2>1, <2>6, TypedType DEF FsPart
<1> QED BY <1>1, <1>2, <1>3, <1>4

LEMMA TextFits ==
  ASSUME NEW text \in Nat, text < MaxBlocks * BLOCK_SIZE
  PROVE  text \div BLOCK_SIZE + 1 \in 1..MaxBlocks
<1> DEFINE q == text \div BLOCK_SIZE
<1>1. q \in Nat /\ q * BLOCK_SIZE <= text
  BY BlockSizeAssumption
<1> HIDE DEF q
<1>2. MaxBlocks \in Nat /\ BLOCK_SIZE \in Nat /\ BLOCK_SIZE > 0
  BY MaxBlocksAssumption, BlockSizeAssumption
<1>3. q < MaxBlocks
  <2>1. SUFFICES ASSUME q >= MaxBlocks PROVE FALSE
    BY <1>1, <1>2
  <2>2. q * BLOCK_SIZE >= MaxBlocks * BLOCK_SIZE
    BY <1>1, <1>2, <2>1
  <2> QED BY <1>1, <1>2, <2>2
<1> QED BY <1>1, <1>2, <1>3 DEF q

LEMMA TextLengthType ==
  ASSUME NEW mode \in {"w", "a", "c"}, NEW old \in Nat, NEW count \in Nat, NEW k \in Nat
  PROVE  TextLength(mode, old, count, k) \in Nat
BY DEF TextLength

(* What my_write hands to do_write. *)
LEMMA WriteGiven ==
  ASSUME FsTypeOK, NEW arg \in Arguments, NEW mode \in {"w", "a", "c"},
         NEW at \in Nat, NEW k \in Sizes, my_write(arg, mode, at, k)
  PROVE  LET i == OpenFd(arg)
         IN  /\ i \in 1..MaxOpen /\ i \in OpenAs(openfile_list, Fcb(arg))
             /\ Typed /\ Exists(arg) /\ Fcb(arg).attribute # Folder
             /\ \E count \in Nat, text \in 0..(MaxBlocks * BLOCK_SIZE - 1) :
                  /\ write_begin(openfile_list[i].fcb.first, text \div BLOCK_SIZE + 1)
                  /\ text \div BLOCK_SIZE + 1 \in 1..MaxBlocks
                  /\ openfile_list' = [openfile_list EXCEPT ![i].count = count]
                  /\ fd' = i /\ length' = text
             /\ openfile_list[i].fcb \in FcbType /\ openfile_list[i].fcb.first \in Block
             /\ Untidy(Through(Path(arg)))
             /\ UNCHANGED <<blk, curdir, current_dir, saved>>
<1> DEFINE i == OpenFd(arg)
           count == IF mode = "c" THEN at ELSE openfile_list[i].count
           text  == TextLength(mode, openfile_list[i].fcb.length, count, k)
<1>1. /\ Typed /\ Opened(arg)
      /\ text < MaxBlocks * BLOCK_SIZE
      /\ write_begin(openfile_list[i].fcb.first, text \div BLOCK_SIZE + 1)
      /\ openfile_list' = [openfile_list EXCEPT ![i].count = count]
      /\ fd' = i /\ length' = text
      /\ Untidy(Through(Path(arg)))
      /\ UNCHANGED <<blk, curdir, current_dir, saved>>
  BY DEF my_write
<1>2. openfile_list \in TableType
  BY FsTypes
<1>3. i \in OpenAs(openfile_list, Fcb(arg)) /\ i \in 1..MaxOpen
  BY <1>1, <1>2, OpenAsType DEF Opened, OpenFd
<1>4. openfile_list[i] \in UseropenType
  BY <1>2, <1>3 DEF TableType
<1>5. openfile_list[i].fcb \in FcbType /\ openfile_list[i].count \in Nat
  BY <1>4, SlotFields
<1>6. openfile_list[i].fcb.first \in Block /\ openfile_list[i].fcb.length \in Nat
  BY <1>5, FcbFields
<1> HIDE DEF i
<1>7. count \in Nat /\ k \in Nat
  BY <1>5, SizesAssumption
<1> HIDE DEF count
<1>8. text \in Nat
  BY <1>6, <1>7, TextLengthType
<1> HIDE DEF text
<1>9. text \in 0..(MaxBlocks * BLOCK_SIZE - 1)
  BY <1>1, <1>8, Zeros
<1>10. text \div BLOCK_SIZE + 1 \in 1..MaxBlocks
  BY <1>1, <1>8, TextFits
<1>11. Exists(arg) /\ Fcb(arg).attribute # Folder
  BY <1>1 DEF Opened
<1> QED BY <1>1, <1>3, <1>5, <1>6, <1>7, <1>9, <1>10, <1>11 DEF i

LEMMA WrittenType ==
  ASSUME FsTypeOK, Written
  PROVE  /\ openfile_list' \in TableType
         /\ fd' \in 1..MaxOpen /\ length' \in 0..(MaxBlocks * BLOCK_SIZE - 1)
<1>1. /\ openfile_list \in TableType
      /\ fd \in 1..MaxOpen /\ length \in 0..(MaxBlocks * BLOCK_SIZE - 1)
  BY FsTypes
<1>2. CASE pc' = "cmd"
  <2>1. openfile_list[fd] \in UseropenType /\ openfile_list[fd].fcb \in FcbType
    BY <1>1, SlotFields DEF TableType
  <2>2. length \in Nat
    BY <1>1, Zeros
  <2> DEFINE fcb == [openfile_list[fd].fcb EXCEPT !.length = length]
             slot == [openfile_list[fd] EXCEPT !.fcb = fcb, !.fcb_state = 1]
  <2>3. fcb \in FcbType
    BY <2>1, <2>2 DEF FcbType
  <2>4. slot \in UseropenType
    <3> HIDE DEF fcb
    <3>1. \A u \in UseropenType : [u EXCEPT !.fcb = fcb] \in UseropenType
      BY <2>3 DEF UseropenType
    <3>2. \A u \in UseropenType : [u EXCEPT !.fcb_state = 1] \in UseropenType
      BY DEF UseropenType
    <3>3. slot = [[openfile_list[fd] EXCEPT !.fcb = fcb] EXCEPT !.fcb_state = 1]
      BY <2>1 DEF UseropenType
    <3> HIDE DEF slot
    <3> QED BY <2>1, <3>1, <3>2, <3>3
  <2>5. openfile_list' = [openfile_list EXCEPT ![fd] = slot]
    <3>1. openfile_list' = [openfile_list EXCEPT ![fd].fcb.length = length, ![fd].fcb_state = 1]
      BY <1>2 DEF Written
    <3> QED BY <1>1, <2>1, <3>1 DEF TableType
  <2>6. openfile_list' \in TableType
    <3> HIDE DEF slot
    <3> QED BY <1>1, <2>4, <2>5 DEF TableType
  <2> QED BY <1>2, <2>6, Zeros DEF Written
<1>3. CASE pc' # "cmd"
  BY <1>1, <1>3 DEF Written, NoWrite
<1> QED BY <1>2, <1>3

LEMMA WritingType ==
  ASSUME FsTypeOK,
         \/ \E arg \in Arguments :
              \/ \E mode \in {"w", "a"}, k \in Sizes : my_write(arg, mode, 0, k)
              \/ \E at, k \in Sizes : my_write(arg, "c", at, k)
         \/ store_block \/ store_last \/ trim \/ reclaim
  PROVE  FsPart'
<1> USE FsTypes
<1>1. ASSUME NEW arg \in Arguments, NEW mode \in {"w", "a", "c"}, NEW at \in Nat,
             NEW k \in Sizes, my_write(arg, mode, at, k)
      PROVE  FsPart'
  <2> DEFINE i == OpenFd(arg)
  <2>1. PICK count \in Nat, text \in 0..(MaxBlocks * BLOCK_SIZE - 1) :
          /\ openfile_list' = [openfile_list EXCEPT ![i].count = count]
          /\ fd' = i /\ length' = text
    BY <1>1, WriteGiven
  <2>2. i \in 1..MaxOpen /\ Typed /\ tidy' \in BOOLEAN /\ UNCHANGED <<blk, curdir, current_dir, saved>>
    BY <1>1, WriteGiven DEF Untidy
  <2> HIDE DEF i
  <2>3. openfile_list' \in TableType
    <3>1. [openfile_list[i] EXCEPT !.count = count] \in UseropenType
      BY <2>1, <2>2 DEF TableType, UseropenType
    <3>2. openfile_list' = [openfile_list EXCEPT ![i] = [openfile_list[i] EXCEPT !.count = count]]
      BY <2>1
    <3> QED BY <2>2, <3>1, <3>2 DEF TableType
  <2> QED BY <2>1, <2>2, <2>3, TypedType DEF FsPart
<1>2. CASE store_block
  <2>1. CASE pc' = "off"
    BY <1>2, <2>1, GoneType DEF store_block
  <2>2. CASE pc' # "off"
    <3>1. cur \in Block
      BY DEF TypeOK
    <3>2. blk' \in Blocks
      BY <1>2, <2>2, <3>1, TextType DEF store_block, Blocks
    <3> QED BY <1>2, <2>2, <3>2 DEF store_block, NoWrite, tableVars, FsPart
  <2> QED BY <2>1, <2>2
<1>3. CASE store_last
  <2>1. cur \in Block
    BY DEF TypeOK
  <2>2. blk' \in Blocks
    BY <1>3, <2>1, TextType DEF store_last, Blocks
  <2>3. Written /\ UNCHANGED <<curdir, current_dir, saved, commands, tidy>>
    BY <1>3 DEF store_last
  <2> QED BY <2>2, <2>3, WrittenType DEF FsPart
<1>4. CASE trim
  <2>1. Written /\ UNCHANGED <<blk, curdir, current_dir, saved, commands, tidy>>
    BY <1>4 DEF trim
  <2> QED BY <2>1, WrittenType DEF FsPart
<1>5. CASE reclaim
  BY <1>5 DEF reclaim, fsVars, tableVars, FsPart
<1>6. Sizes \subseteq Nat /\ 0 \in Nat
  BY SizesAssumption
<1> QED BY <1>1, <1>2, <1>3, <1>4, <1>5, <1>6
-----------------------------------------------------------------------------
(* What the commands ask of the block store *)

(* Steps of the block store that may be given any block of the disk. *)
DiskStep ==
  \/ start_sys \/ do_format \/ my_exit_sys \/ fwrite_done \/ kill
  \/ /\ KeepGoing \/ intact
     /\ \/ allocate
        \/ \E first \in Block, n \in 1..MaxBlocks : write_begin(first, n)
        \/ \E first \in Block : reclaim_begin(first)
  \/ write_next \/ write_extend \/ write_last \/ trim_step \/ reclaim_step

LEMMA CommandDrives ==
  ASSUME FsTypeOK, FsCommand, KeepGoing \/ intact
  PROVE  DiskStep \/ UNCHANGED vars
<1>1. CASE close_all
  BY <1>1 DEF close_all, NoDisk
<1>2. ASSUME Typed, Crash PROVE kill
  BY <1>2 DEF Typed, Crash, Gone, kill, interrupt, Saving
<1>3. ASSUME NEW arg \in Arguments, my_cd(arg) \/ my_open(arg) \/ my_close(arg) \/ my_read(arg)
      PROVE  UNCHANGED vars
  BY <1>3 DEF my_cd, my_open, my_close, my_read, NoDisk
<1>4. ASSUME NEW arg \in Arguments, open_crash(arg) \/ close_crash(arg) \/ read_crash(arg)
      PROVE  kill
  BY <1>2, <1>4 DEF open_crash, close_crash, read_crash
<1>5. ASSUME NEW arg \in Arguments, my_mkdir(arg) \/ my_create(arg)
      PROVE  allocate
  BY <1>5 DEF my_mkdir, my_create
<1>6. ASSUME NEW arg \in Arguments, my_rmdir(arg) \/ my_rm(arg)
      PROVE  \E first \in Block : reclaim_begin(first)
  <2>1. Exists(arg) /\ reclaim_begin(Fcb(arg).first)
    BY <1>6 DEF my_rmdir, my_rm
  <2> QED BY <2>1, ArgumentFacts
<1>7. ASSUME NEW arg \in Arguments, NEW mode \in {"w", "a", "c"}, NEW at \in Nat,
             NEW k \in Sizes, my_write(arg, mode, at, k)
      PROVE  \E first \in Block, n \in 1..MaxBlocks : write_begin(first, n)
  BY <1>7, WriteGiven
<1>8. Sizes \subseteq Nat /\ 0 \in Nat
  BY SizesAssumption
<1>9. ASSUME NEW arg \in Arguments,
             \/ \E mode \in {"w", "a"}, k \in Sizes : my_write(arg, mode, 0, k)
             \/ \E at, k \in Sizes : my_write(arg, "c", at, k)
      PROVE  \E first \in Block, n \in 1..MaxBlocks : write_begin(first, n)
  BY <1>7, <1>8, <1>9
<1>10. ASSUME NEW arg \in Arguments,
              \/ my_cd(arg) \/ my_mkdir(arg) \/ my_rmdir(arg)
              \/ my_create(arg) \/ my_rm(arg)
              \/ my_open(arg) \/ open_crash(arg)
              \/ my_close(arg) \/ close_crash(arg)
              \/ my_read(arg) \/ read_crash(arg)
              \/ \E mode \in {"w", "a"}, k \in Sizes : my_write(arg, mode, 0, k)
              \/ \E at, k \in Sizes : my_write(arg, "c", at, k)
       PROVE  DiskStep \/ UNCHANGED vars
  BY <1>3, <1>4, <1>5, <1>6, <1>9, <1>10 DEF DiskStep
<1> QED BY <1>1, <1>10 DEF FsCommand

LEMMA FsDrives ==
  ASSUME FsTypeOK, FsNext
  PROVE  DiskStep \/ UNCHANGED vars
<1>1. CASE boot \/ my_format \/ exit \/ save_done \/ killed
  BY <1>1 DEF boot, my_format, exit, save_done, killed, kill, DiskStep
<1>2. CASE exit_crash
  BY <1>2 DEF exit_crash, Typed, Crash, Gone, kill, interrupt, Saving, DiskStep
<1>3. CASE \E w \in 0..NumBlocks : torn(w)
  BY <1>3 DEF torn, kill, DiskStep
<1>4. CASE (KeepGoing \/ (intact /\ tidy)) /\ FsCommand
  BY <1>4, CommandDrives
<1>5. CASE store_block \/ store_last \/ trim \/ reclaim
  BY <1>5 DEF store_block, store_last, trim, reclaim, DiskStep
<1> QED BY <1>1, <1>2, <1>3, <1>4, <1>5 DEF FsNext

LEMMA DiskStepType ==
  ASSUME TypeOK, DiskStep \/ UNCHANGED vars
  PROVE  TypeOK'
<1>1. CASE UNCHANGED vars
  BY <1>1 DEF vars, loopVars, TypeOK
<1> QED BY <1>1, SaveSteps, CommandSteps, WriteSteps, ReclaimStep DEF DiskStep

LEMMA FsNextType ==
  ASSUME FsTypeOK, [FsNext]_allVars
  PROVE  FsTypeOK'
<1>1. CASE UNCHANGED allVars
  <2>1. UNCHANGED vars /\ UNCHANGED fsVars
    BY <1>1 DEF allVars
  <2>2. TypeOK'
    BY <2>1, FsTypes, DiskStepType
  <2>3. FsPart'
    BY <2>1, FsTypes DEF fsVars, tableVars, FsPart
  <2> QED BY <2>2, <2>3 DEF FsPart, FsTypeOK, Blocks, TableType, PathType
<1>2. CASE FsNext
  <2>1. TypeOK'
    BY <1>2, FsTypes, FsDrives, DiskStepType
  <2>2. FsPart'
    <3>1. ASSUME FsCommand PROVE FsPart'
      BY <3>1, ClosesType, FoldersType, FilesType, WritingType DEF FsCommand
    <3> QED BY <1>2, <3>1, SavesType, ClosesType, WritingType DEF FsNext
  <2> QED BY <2>1, <2>2 DEF FsPart, FsTypeOK, Blocks, TableType, PathType
<1> QED BY <1>1, <1>2

LEMMA FsInitType == FsInit => FsTypeOK
<1> SUFFICES ASSUME FsInit PROVE FsTypeOK
  OBVIOUS
<1>1. NoBlocks \in Blocks
  BY TextType DEF NoBlocks, Blocks
<1>2. FreshTable(NoBlocks) \in TableType
  BY <1>1, FreshType
<1>3. TypeOK
  BY InitTypeOK DEF FsInit
<1> QED BY <1>1, <1>2, <1>3, Zeros, FsTypes DEF FsInit, NothingSaved

(* What blocks, slots and the saved disk hold stays of the types the code  *)
(* reads it as, entries with a block of the disk as their first among      *)
(* them, whatever is typed, also once nothing is known of the disk.        *)
THEOREM FsTypeCorrect == FsSpec => []FsTypeOK
<1>1. FsTypeOK /\ [FsNext]_allVars => FsTypeOK'
  BY FsNextType
<1> QED BY <1>1, FsInitType, PTL DEF FsSpec
=============================================================================
