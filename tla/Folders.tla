------------------------------- MODULE Folders -------------------------------
(***************************************************************************)
(* Names, directory entries and paths of Lab5's simplefs: the functions    *)
(* that find and fill an entry.  Operators keep the names of the C         *)
(* functions.  A block is read as the array of entries it holds, whatever  *)
(* was stored there: nothing in a block says which it is, and block        *)
(* contents outlive the file they belonged to.                             *)
(***************************************************************************)
EXTENDS Fat, Sequences
LOCAL INSTANCE SequencesExt

CONSTANTS
  Slots,        \* entries in a block, BLOCK_SIZE / sizeof(fcb) = 21
  BLOCK_SIZE    \* bytes in a block, 1024

ASSUME SlotsAssumption     == Slots \in Nat /\ Slots >= 2
ASSUME BlockSizeAssumption == BLOCK_SIZE \in Nat \ {0}

Slot == 1..Slots
RootBlock == 5

(* A name as the user types it, split at the dot: <<"a", "d">> is a.d.     *)
Nothing == ""
Dot     == <<".", Nothing>>
DotDot  == <<"..", Nothing>>

Folder == 0
File   == 1

(* An fcb.  `used' is its field free, which is 1 when the entry is taken.  *)
(* Nothing reads the other fields of an entry that is not.                 *)
set_fcb(name, exname, attribute, first, length) ==
  [name |-> name, exname |-> exname, attribute |-> attribute,
   first |-> first, length |-> length, used |-> TRUE]
NoEntry ==
  [name |-> <<Nothing, Nothing>>, exname |-> Nothing, attribute |-> Folder,
   first |-> 0, length |-> 0, used |-> FALSE]

(* What text reads as: an entry in use whose name nobody types. *)
Text == set_fcb(<<"text", Nothing>>, Nothing, Folder, 0, 0)

Blank       == [s \in Slot |-> NoEntry]
FullText    == [s \in Slot |-> Text]
PartialText == [Blank EXCEPT ![1] = Text]

(* strtok of the name at its dot, "d" where nothing follows it. *)
FileEntry(name, first) ==
  set_fcb(<<name[1], Nothing>>, IF name[2] = Nothing THEN "d" ELSE name[2], File, first, 0)
FolderEntry(name, first) == set_fcb(name, "di", Folder, first, BLOCK_SIZE)

(* A bug the checks must notice: the two blocks change places. *)
init_folder_swapped(blk, first, second) ==
  [Blank EXCEPT ![1] = FolderEntry(Dot, first),
                ![2] = [FolderEntry(DotDot, second) EXCEPT !.length = blk[first][1].length]]

(* The first two entries of a folder, and nothing else.  Only the first    *)
(* block of a directory ever gets entries, so the root's second block is   *)
(* left out.                                                               *)
init_folder(blk, first, second) ==
  [Blank EXCEPT ![1] = FolderEntry(Dot, second),
                ![2] = [FolderEntry(DotDot, first) EXCEPT !.length = blk[first][1].length]]
RootFolder ==
  [Blank EXCEPT ![1] = [FolderEntry(Dot, RootBlock) EXCEPT !.length = 2 * BLOCK_SIZE],
                ![2] = [FolderEntry(DotDot, RootBlock) EXCEPT !.length = 2 * BLOCK_SIZE]]
-----------------------------------------------------------------------------
get_fullname(fcb) ==
  IF fcb.attribute = File THEN <<fcb.name[1], fcb.exname>> ELSE fcb.name

(* A path is the sequence of names between its slashes.  A relative one is *)
(* appended to the current directory name by name, a "." dropped and a     *)
(* ".." taking the last name off; an absolute one is used as it is.        *)
Down(path, name) ==
  CASE name = Dot    -> path
    [] name = DotDot -> IF path = <<>> THEN path ELSE Front(path)
    [] OTHER         -> Append(path, name)
get_abspath(current_dir, arg) ==
  LET at[n \in 0..Len(arg.path)] ==
        IF n = 0 THEN current_dir ELSE Down(at[n - 1], arg.path[n])
  IN  IF arg.absolute THEN arg.path ELSE at[Len(arg.path)]

(* Where an entry is: a block and a slot in it. *)
Nowhere == <<-1, 0>>
RootPlace == <<RootBlock, 1>>
Entry(blk, place) == blk[place[1]][place[2]]

InFolder(blk, b, name) ==
  LET hits == {s \in Slot : blk[b][s].used /\ get_fullname(blk[b][s]) = name}
  IN  IF hits = {} THEN Nowhere ELSE <<b, CHOOSE s \in hits : \A t \in hits : s <= t>>

(* Every entry on the way is descended into, whether it is a folder or not.*)
find_fcb(blk, path) ==
  LET at[n \in 0..Len(path)] ==
        IF n = 0 THEN RootPlace
        ELSE IF at[n - 1] = Nowhere THEN Nowhere
        ELSE InFolder(blk, IF n = 1 THEN RootBlock ELSE Entry(blk, at[n - 1]).first, path[n])
  IN  at[Len(path)]

FreeSlots(block) == {s \in Slot : ~block[s].used}
FirstFreeSlot(block) == CHOOSE s \in FreeSlots(block) : \A t \in FreeSlots(block) : s <= t
-----------------------------------------------------------------------------
(* The open file table *)

get_useropen(openfile_list) ==
  LET free == {i \in DOMAIN openfile_list : ~openfile_list[i].used}
  IN  IF free = {} THEN -1 ELSE CHOOSE i \in free : \A k \in free : i <= k

(* How every command looks a file up in the table: by name and first block.*)
IsOpenAs(fcb, useropen) ==
  useropen.used /\ useropen.fcb.name = fcb.name /\ useropen.fcb.first = fcb.first
OpenAs(openfile_list, fcb) ==
  {i \in DOMAIN openfile_list : IsOpenAs(fcb, openfile_list[i])}
LowestOf(fds) == CHOOSE i \in fds : \A k \in fds : i <= k

(* A bug the checks must notice: the slot is freed before it is looked at, *)
(* so that nothing is written back.                                        *)
do_close_forgetful(m, i) == [m EXCEPT !.table[i].used = FALSE]

(* do_close for the descriptors `fds' in order, on memory [blk, table, ok].*)
(* fcb_state = 1 has the entry at the slot's path overwritten; `ok' turns  *)
(* FALSE when nothing is at that path, where fcb_cpy follows NULL.         *)
do_close(m, i) ==
  LET place == find_fcb(m.blk, m.table[i].dir)
      closed == [m EXCEPT !.table[i].used = FALSE]
  IN  IF ~m.ok \/ m.table[i].fcb_state = 0 THEN closed
      ELSE IF place = Nowhere THEN [m EXCEPT !.ok = FALSE]
      ELSE [closed EXCEPT !.blk[place[1]][place[2]] = m.table[i].fcb]
CloseAll(blk, table, fds) ==
  LET after[i \in 0..Len(table)] ==
        IF i = 0 THEN [blk |-> blk, table |-> table, ok |-> TRUE]
        ELSE IF i \in fds THEN do_close(after[i - 1], i) ELSE after[i - 1]
  IN  after[Len(table)]
=============================================================================
