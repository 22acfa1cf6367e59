------------------------------ MODULE SimpleFS ------------------------------
(***************************************************************************)
(* Lab5's simplefs as its user drives it: the commands of the shell over   *)
(* the block store of module Disk.  Every action is a command, or a step   *)
(* of one, and is an action of Disk that also says what becomes of the     *)
(* directories and of the open file table.                                 *)
(*                                                                         *)
(* A command is given one path.  A command that is refused changes nothing *)
(* and is not an action.                                                   *)
(***************************************************************************)
EXTENDS Disk, Folders
LOCAL INSTANCE SequencesExt

CONSTANTS
  Names,         \* bound: the names the user types for files and folders
  Arguments,     \* bound: the paths the user types
  MaxOpen,       \* entries of openfile_list, MAX_OPENFILE = 10
  Longer,        \* bound: for a name, those of the user's that begin with its letters
  Tails,         \* bound: the names that mkdir's buffer can have after the parent's
  Sizes,         \* bound: lengths of the texts the user types
  MaxCommands    \* bound: commands typed before the user stops

(* What stands before a name's dot is no dot, nor what text reads as.      *)
ASSUME NamesAssumption == \A n \in Names : n[1] \notin {".", "..", "text"}
ASSUME ArgumentsAssumption ==
  /\ Arguments \subseteq [absolute : BOOLEAN, path : Seq(Names \cup {Dot, DotDot})]
  /\ \A arg \in Arguments : arg.absolute \/ arg.path # <<>>
ASSUME LongerAssumption ==
  /\ Longer \in [Names \cup {Dot, DotDot} -> SUBSET (Names \cup {Dot, DotDot})]
  /\ \A n \in Names \cup {Dot, DotDot} : n \in Longer[n]
ASSUME TailsAssumption ==
  <<>> \in Tails /\ Tails \subseteq Seq(Names \cup {Dot, DotDot})
ASSUME MaxOpenAssumption  == MaxOpen \in Nat \ {0}
ASSUME MaxCommandsAssumption == MaxCommands \in Nat
ASSUME SizesAssumption    == Sizes \subseteq 0..(MaxBlocks * BLOCK_SIZE - 1)

VARIABLES
  blk,             \* the blocks read as entries
  openfile_list,   \* the open file table, numbered from 1
  curdir,          \* its entry for the current directory
  current_dir,     \* the path of the current directory
  fd, length,      \* the entry do_write is at work on, and the text's length
  saved,           \* the blocks of ./fsfile, and whether all of a tidy disk
  commands,        \* commands typed so far
  tidy             \* history: no command has yet done what nothing stops, see Untidy

tableVars == <<openfile_list, curdir, current_dir>>
fsVars    == <<blk, tableVars, fd, length, saved, commands, tidy>>
allVars   == <<vars, fsVars>>

NoBlocks == [b \in Block |-> Blank]
NothingSaved == [blocks |-> NoBlocks, tidy |-> FALSE]
Closed == [fcb |-> NoEntry, dir |-> <<>>, count |-> 0, fcb_state |-> 0, used |-> FALSE]
FreshTable(blocks) ==
  [i \in 1..MaxOpen |->
     IF i = 1 THEN [Closed EXCEPT !.fcb = blocks[RootBlock][1], !.used = TRUE] ELSE Closed]

FsInit ==
  /\ Init
  /\ blk = NoBlocks /\ saved = NothingSaved
  /\ openfile_list = FreshTable(NoBlocks) /\ curdir = 1 /\ current_dir = <<>>
  /\ fd = 1 /\ length = 0
  /\ commands = 0 /\ tidy = FALSE

(* What the commands below refer to. *)
Path(arg)   == get_abspath(current_dir, arg)
Place(arg)  == find_fcb(blk, Path(arg))
Exists(arg) == Place(arg) # Nowhere
Fcb(arg)    == Entry(blk, Place(arg))

(* The user types a command that is not refused. *)
Typed ==
  /\ pc = "cmd" /\ commands < MaxCommands
  /\ commands' = commands + 1
(* A command that the code ought to have refused is not `tidy'. *)
Untidy(ok) == tidy' = (tidy /\ ok)
(* Nothing asks of a path that what it goes through are folders. *)
IsFolder(path)  == \A n \in 0..Len(path) :
                     Entry(blk, find_fcb(blk, SubSeq(path, 1, n))).attribute = Folder
Through(path)   == path = <<>> \/ IsFolder(Front(path))

NoDisk  == UNCHANGED vars
NoWrite == UNCHANGED <<fd, length>>

(* The process is gone. *)
Gone ==
  /\ Dead
  /\ blk' = NoBlocks /\ openfile_list' = FreshTable(NoBlocks)
  /\ curdir' = 1 /\ current_dir' = <<>>
  /\ fd' = 1 /\ length' = 0 /\ tidy' = FALSE
Crash == Gone /\ UNCHANGED <<image, saved>>
-----------------------------------------------------------------------------
(* Starting, formatting, saving *)

FormattedBlocks ==
  [blk EXCEPT ![RootBlock] = RootFolder,
              ![7][1] = IF @.used THEN Text ELSE @]

(* start_sys reads ./fsfile, or formats and saves where there is none, and *)
(* sets up the table.                                                      *)
boot ==
  /\ start_sys
  /\ blk' = IF image.exists THEN saved.blocks ELSE FormattedBlocks
  /\ tidy' = (~image.exists \/ saved.tidy)
  /\ openfile_list' = FreshTable(blk') /\ curdir' = 1 /\ current_dir' = <<>>
  /\ UNCHANGED <<fd, length, saved, commands>>

(* The table and the current directory outlive the files.                  *)
TableIsFresh ==
  \A i \in 1..MaxOpen :
    IF i = 1 THEN openfile_list[i].used /\ openfile_list[i].fcb.first = RootBlock
             ELSE ~openfile_list[i].used /\ openfile_list[i].fcb_state = 0
my_format ==
  /\ Typed /\ do_format
  /\ blk' = FormattedBlocks /\ saved' = NothingSaved
  /\ tidy' = TableIsFresh
  /\ UNCHANGED tableVars /\ NoWrite

(* A stale slot: closing it finds no entry at its path, or overwrites one  *)
(* that is not in a folder, that differs in more than the length, or that  *)
(* is newer than a slot that is free: the file is open in another one.     *)
Stale(i) ==
  LET slot  == openfile_list[i]
      place == find_fcb(blk, slot.dir)
      entry == Entry(blk, place)
  IN  /\ slot.fcb_state = 1
      /\ \/ place = Nowhere
         \/ ~Through(slot.dir)
         \/ [entry EXCEPT !.length = slot.fcb.length] # slot.fcb
         \/ ~slot.used /\ (entry # slot.fcb \/ OpenAs(openfile_list, slot.fcb) # {})

(* A bug the checks must notice: the disk is saved as it was before the    *)
(* files were closed.                                                      *)
exit_unclosed ==
  LET m == CloseAll(blk, openfile_list, 1..MaxOpen)
  IN  /\ Typed /\ NoWrite
      /\ Untidy(\A i \in 1..MaxOpen : ~Stale(i))
      /\ m.ok
      /\ my_exit_sys
      /\ openfile_list' = m.table /\ saved' = NothingSaved
      /\ UNCHANGED <<blk, curdir, current_dir>>

exit ==
  LET m == CloseAll(blk, openfile_list, 1..MaxOpen)
  IN  /\ Typed /\ NoWrite
      /\ Untidy(\A i \in 1..MaxOpen : ~Stale(i))
      /\ m.ok
      /\ my_exit_sys
      /\ blk' = m.blk /\ openfile_list' = m.table /\ saved' = NothingSaved
      /\ UNCHANGED <<curdir, current_dir>>

(* fcb_cpy(NULL, ...) in do_close, before anything is saved.               *)
exit_crash ==
  /\ Typed
  /\ ~CloseAll(blk, openfile_list, 1..MaxOpen).ok
  /\ Crash

save_done ==
  /\ fwrite_done
  /\ saved' = [blocks |-> blk, tidy |-> tidy]
  /\ UNCHANGED commands
  /\ IF pc' = "off" THEN Gone ELSE UNCHANGED <<blk, tableVars, fd, length, tidy>>

killed == interrupt /\ Gone /\ UNCHANGED <<saved, commands>>

torn(w) ==
  /\ tear(w)
  /\ saved' = [blocks |-> [b \in Block |-> IF b < w THEN blk[b] ELSE Blank],
               tidy   |-> tidy /\ w = NumBlocks]
  /\ Gone /\ UNCHANGED commands
-----------------------------------------------------------------------------
(* Folders *)

opened(i, arg) ==
  openfile_list' = [openfile_list EXCEPT ![i] =
    [@ EXCEPT !.fcb = Fcb(arg), !.dir = Path(arg), !.count = 0, !.used = TRUE]]
do_chdir(i) == curdir' = i /\ current_dir' = openfile_list'[i].dir

(* A folder that is not open is opened, but descriptor 0, which is free    *)
(* once the root has been closed, is not gone to (my_cd's `> 0').          *)
my_cd(arg) ==
  LET open == OpenAs(openfile_list, Fcb(arg))
      i    == get_useropen(openfile_list)
  IN  /\ Typed /\ Exists(arg) /\ Fcb(arg).attribute # File
      /\ \/ open # {} /\ UNCHANGED openfile_list /\ do_chdir(LowestOf(open))
         \/ open = {} /\ i > 1 /\ opened(i, arg) /\ do_chdir(i)
         \/ open = {} /\ i = 1 /\ opened(i, arg) /\ UNCHANGED <<curdir, current_dir>>
      /\ Untidy(Through(Path(arg)))
      /\ NoDisk /\ NoWrite /\ UNCHANGED <<blk, saved>>

(* The entry goes into the parent's first free slot; that the parent is a  *)
(* folder is not asked.                                                    *)
Enter(parent, entry) ==
  LET b == Entry(blk, find_fcb(blk, parent)).first
  IN  [blk EXCEPT ![b][FirstFreeSlot(blk[b])] = entry]
HasRoom(parent) ==
  LET place == find_fcb(blk, parent)
  IN  place # Nowhere /\ FreeSlots(blk[Entry(blk, place).first]) # {}

(* parpath is not initialised and strncpy does not end it: below the root  *)
(* it is the parent's path with whatever the stack spells after it, which  *)
(* can make its last name longer and add names to it.  A name that nobody  *)
(* types is found nowhere and the command refused.                         *)
Parpaths(path) ==
  LET parent == Front(path)
  IN  IF Len(path) = 1 THEN {parent}
      ELSE {Append(Front(parent), name) \o rest : name \in Longer[Last(parent)], rest \in Tails}

my_mkdir(arg) ==
  LET path   == Path(arg)
      second == get_free(fat1, 1)
  IN  /\ Typed /\ path # <<>> /\ Last(path) \in Names /\ ~Exists(arg)
      /\ allocate
      /\ \E parpath \in Parpaths(path) :
           LET first   == Entry(blk, find_fcb(blk, parpath)).first
               entered == Enter(parpath, FolderEntry(Last(path), second))
           IN  /\ HasRoom(parpath)
               /\ blk' = [entered EXCEPT ![second] = init_folder(entered, first, second)]
               /\ Untidy(IsFolder(parpath))
      /\ NoWrite /\ UNCHANGED <<tableVars, saved>>

(* Only the arguments ".", ".." and "/", letter by letter, are refused:    *)
(* "/.." is not.  That the folder is empty is not asked.                   *)
ReadOnly(arg) == IF arg.absolute THEN arg.path = <<>> ELSE arg.path \in {<<Dot>>, <<DotDot>>}

my_rmdir(arg) ==
  LET first == Fcb(arg).first
      place == Place(arg)
  IN  /\ Typed /\ ~ReadOnly(arg) /\ Exists(arg)
      /\ Fcb(arg).attribute # File /\ OpenAs(openfile_list, Fcb(arg)) = {}
      /\ blk' = [blk EXCEPT ![place[1]][place[2]] = NoEntry,
                            ![first][1] = NoEntry, ![first][2] = NoEntry]
      /\ reclaim_begin(first)
      /\ Untidy(/\ Through(Path(arg))
                /\ Fcb(arg).name \notin {Dot, DotDot}
                /\ \A s \in 3..Slots : ~blk[first][s].used
                /\ \A i \in 1..MaxOpen : openfile_list[i].used =>
                     openfile_list[i].fcb.first # first)
      /\ NoWrite /\ UNCHANGED <<tableVars, saved>>
-----------------------------------------------------------------------------
(* Files *)

my_create(arg) ==
  LET path   == Path(arg)
      parent == Front(path)
  IN  /\ Typed /\ path # <<>> /\ Last(path) \in Names /\ ~Exists(arg)
      /\ HasRoom(parent)
      /\ blk' = Enter(parent, FileEntry(Last(path), get_free(fat1, 1)))
      /\ allocate
      /\ Untidy(IsFolder(parent))
      /\ NoWrite /\ UNCHANGED <<tableVars, saved>>

(* A bug the checks must notice: a file that is open is removed. *)
my_rm_open(arg) ==
  /\ Typed /\ Exists(arg) /\ Fcb(arg).attribute # Folder
  /\ blk' = [blk EXCEPT ![Place(arg)[1]][Place(arg)[2]] = NoEntry]
  /\ reclaim_begin(Fcb(arg).first)
  /\ Untidy(Through(Path(arg)))
  /\ NoWrite /\ UNCHANGED <<tableVars, saved>>

my_rm(arg) ==
  /\ Typed /\ Exists(arg)
  /\ Fcb(arg).attribute # Folder /\ OpenAs(openfile_list, Fcb(arg)) = {}
  /\ blk' = [blk EXCEPT ![Place(arg)[1]][Place(arg)[2]] = NoEntry]
  /\ reclaim_begin(Fcb(arg).first)
  /\ Untidy(Through(Path(arg)))
  /\ NoWrite /\ UNCHANGED <<tableVars, saved>>

(* A file that is open is reported and opened once more: the `continue'    *)
(* goes on with the inner loop.  fcb_state stays as the slot's last user   *)
(* left it.                                                                *)
my_open(arg) ==
  LET i == get_useropen(openfile_list)
  IN  /\ Typed /\ Exists(arg) /\ ~arg.absolute /\ i # -1
      /\ opened(i, arg)
      /\ Untidy(Through(Path(arg)) /\ OpenAs(openfile_list, Fcb(arg)) = {})
      /\ NoDisk /\ NoWrite /\ UNCHANGED <<blk, curdir, current_dir, saved>>

(* get_abspath returns 0 for a path that is absolute: find_fcb(NULL).      *)
open_crash(arg) == Typed /\ Exists(arg) /\ arg.absolute /\ Crash

my_close(arg) ==
  LET fds == OpenAs(openfile_list, Fcb(arg))
      m   == CloseAll(blk, openfile_list, fds)
  IN  /\ Typed /\ Exists(arg) /\ fds # {} /\ m.ok
      /\ blk' = m.blk /\ openfile_list' = m.table
      /\ Untidy(\A i \in fds : ~Stale(i))
      /\ NoDisk /\ NoWrite /\ UNCHANGED <<curdir, current_dir, saved>>

close_crash(arg) ==
  /\ Typed /\ Exists(arg)
  /\ ~CloseAll(blk, openfile_list, OpenAs(openfile_list, Fcb(arg))).ok
  /\ Crash

(* Each slot in use but the current directory's is freed and nothing is    *)
(* saved, which is `tidy' where nothing had to be.                         *)
close_all ==
  LET fds == {i \in 1..MaxOpen : i # curdir /\ openfile_list[i].used}
      Kept(i) == Entry(blk, find_fcb(blk, openfile_list[i].dir)) = openfile_list[i].fcb
  IN  /\ Typed
      /\ openfile_list' = [i \in 1..MaxOpen |->
           IF i \in fds THEN [openfile_list[i] EXCEPT !.used = FALSE] ELSE openfile_list[i]]
      /\ Untidy(\A i \in fds : openfile_list[i].fcb_state = 1 => ~Stale(i) /\ Kept(i))
      /\ NoDisk /\ NoWrite /\ UNCHANGED <<blk, curdir, current_dir, saved>>
-----------------------------------------------------------------------------
(* Reading and writing.  The content of a file is its length.              *)

Opened(arg) ==
  /\ Exists(arg) /\ Fcb(arg).attribute # Folder
  /\ OpenAs(openfile_list, Fcb(arg)) # {}
OpenFd(arg) == LowestOf(OpenAs(openfile_list, Fcb(arg)))

(* read -a leaves the position at the end, read -s wherever it is sent.    *)
my_read(arg) ==
  LET i == OpenFd(arg)
  IN  /\ Typed /\ Opened(arg)
      /\ \E n \in Sizes \cup {openfile_list[i].fcb.length} :
           openfile_list' = [openfile_list EXCEPT ![i].count = n]
      /\ NoDisk /\ NoWrite /\ UNCHANGED <<blk, curdir, current_dir, saved, tidy>>

(* do_read's countdown below 0, and reads from beyond the end that leave   *)
(* the chain: see read_round in Contents.                                  *)
ReadDies(len, at, n) ==
  LET off  == at % BLOCK_SIZE
      left == IF at > len \/ len - at >= n THEN n ELSE len - at
  IN  \/ off # 0 /\ off + left > BLOCK_SIZE /\ left < BLOCK_SIZE + off
      \/ at > len /\ (at \div BLOCK_SIZE > len \div BLOCK_SIZE \/ left > BLOCK_SIZE + off)

read_crash(arg) ==
  /\ Typed /\ Opened(arg)
  /\ \E at, n \in Sizes : ReadDies(openfile_list[OpenFd(arg)].fcb.length, at, n)
  /\ Crash

(* strlen of the text with `k' typed characters stored at `count' over a   *)
(* text of length `old': -w starts from nothing, the terminator that -a    *)
(* copies cuts the text off, and whatever lies beyond a gap is not seen.   *)
TextLength(mode, old, count, k) ==
  CASE mode = "w"                   -> k
    [] mode # "w" /\ count > old    -> old
    [] mode = "a" /\ count <= old   -> count + k
    [] mode = "c" /\ count <= old   -> IF count + k > old THEN count + k ELSE old

my_write(arg, mode, at, k) ==
  LET i     == OpenFd(arg)
      count == IF mode = "c" THEN at ELSE openfile_list[i].count
      text  == TextLength(mode, openfile_list[i].fcb.length, count, k)
  IN  /\ Typed /\ Opened(arg)
      /\ mode # "c" => k > 0
      /\ text < MaxBlocks * BLOCK_SIZE
      /\ write_begin(openfile_list[i].fcb.first, text \div BLOCK_SIZE + 1)
      /\ openfile_list' = [openfile_list EXCEPT ![i].count = count]
      /\ fd' = i /\ length' = text
      /\ Untidy(Through(Path(arg)))
      /\ UNCHANGED <<blk, curdir, current_dir, saved>>

(* Two bugs the checks must notice: fcb_state counts the writes; it is not *)
(* set, so that closing the file saves nothing.                            *)
Written_counted ==
  IF pc' = "cmd"
    THEN /\ openfile_list' = [openfile_list EXCEPT ![fd].fcb.length = length, ![fd].fcb_state = @ + 1]
         /\ fd' = 1 /\ length' = 0
    ELSE UNCHANGED openfile_list /\ NoWrite

Written_unmarked ==
  IF pc' = "cmd"
    THEN /\ openfile_list' = [openfile_list EXCEPT ![fd].fcb.length = length]
         /\ fd' = 1 /\ length' = 0
    ELSE UNCHANGED openfile_list /\ NoWrite

(* do_write's last lines, when the loops are done. *)
Written ==
  IF pc' = "cmd"
    THEN /\ openfile_list' = [openfile_list EXCEPT ![fd].fcb.length = length, ![fd].fcb_state = 1]
         /\ fd' = 1 /\ length' = 0
    ELSE UNCHANGED openfile_list /\ NoWrite

store_block ==
  /\ write_next \/ write_extend
  /\ UNCHANGED <<saved, commands>>
  /\ IF pc' = "off" THEN Gone
     ELSE /\ blk' = [blk EXCEPT ![cur] = FullText]
          /\ NoWrite /\ UNCHANGED <<tableVars, tidy>>

(* The last block holds the rest of the text, which may be nothing. *)
store_last ==
  /\ write_last /\ Written
  /\ blk' = [blk EXCEPT ![cur] = IF length % BLOCK_SIZE = 0 THEN Blank ELSE PartialText]
  /\ UNCHANGED <<curdir, current_dir, saved, commands, tidy>>

trim == trim_step /\ Written /\ UNCHANGED <<blk, curdir, current_dir, saved, commands, tidy>>

reclaim == reclaim_step /\ UNCHANGED fsVars
-----------------------------------------------------------------------------
FsCommand ==
  \/ \E arg \in Arguments :
       \/ my_cd(arg) \/ my_mkdir(arg) \/ my_rmdir(arg)
       \/ my_create(arg) \/ my_rm(arg)
       \/ my_open(arg) \/ open_crash(arg)
       \/ my_close(arg) \/ close_crash(arg)
       \/ my_read(arg) \/ read_crash(arg)
       \/ \E mode \in {"w", "a"}, k \in Sizes : my_write(arg, mode, 0, k)
       \/ \E at, k \in Sizes : my_write(arg, "c", at, k)
  \/ close_all

FsNext ==
  \/ boot \/ my_format \/ exit \/ exit_crash \/ save_done
  \/ killed \/ \E w \in 0..NumBlocks : torn(w)
  \/ /\ KeepGoing \/ (intact /\ tidy)
     /\ FsCommand
  \/ store_block \/ store_last \/ trim \/ reclaim

FsSpec == FsInit /\ [][FsNext]_allVars
-----------------------------------------------------------------------------
(* What the folders on a disk must be *)

Dots == {Dot, DotDot}
Subfolders(blocks, b) ==
  {blocks[b][s].first : s \in {s \in Slot : /\ blocks[b][s].used
                                            /\ blocks[b][s].attribute = Folder
                                            /\ blocks[b][s].name \notin Dots}}
FolderBlocks(blocks) ==
  LET down[n \in 0..NumBlocks] ==
        IF n = 0 THEN {RootBlock}
        ELSE LET above == down[n - 1]
             IN  above \cup UNION {Subfolders(blocks, b) : b \in above}
  IN  down[NumBlocks]

(* Places of the entries of files and folders that can be reached. *)
Items(blocks) ==
  {p \in FolderBlocks(blocks) \X Slot :
     Entry(blocks, p).used /\ Entry(blocks, p).name \notin Dots}

(* The entries and the areas of the disk correspond one to one, and "."    *)
(* and ".." lead where they should.                                        *)
TreeOf(blocks, areas) ==
  LET items == Items(blocks)
  IN  /\ \A p, q \in items : Entry(blocks, p).first = Entry(blocks, q).first => p = q
      /\ {Entry(blocks, p).first : p \in items} = areas \ SystemHeads
      /\ \A b \in FolderBlocks(blocks) :
           blocks[b][1].used /\ blocks[b][1].name = Dot /\ blocks[b][1].first = b
      /\ \A p \in items :
           LET up == blocks[Entry(blocks, p).first][2]
           IN  Entry(blocks, p).attribute = Folder =>
                 up.used /\ up.name = DotDot /\ up.first = p[1]

Files(blocks) == {p \in Items(blocks) : Entry(blocks, p).attribute = File}
Fits(fat, first, len) == Cardinality(Chain(fat, first)) = len \div BLOCK_SIZE + 1
-----------------------------------------------------------------------------
(* Properties *)

FileName == Names \cup Dots \cup {NoEntry.name, Text.name} \cup {<<n[1], Nothing>> : n \in Names}
Exname   == {Nothing, "d", "di"} \cup {n[2] : n \in Names}
FcbType ==
  [name : FileName, exname : Exname, attribute : {Folder, File},
   first : Block, length : Nat, used : BOOLEAN]
UseropenType ==
  [fcb : FcbType, dir : Seq(Names \cup Dots), count : Nat, fcb_state : 0..1, used : BOOLEAN]

FsTypeOK ==
  /\ TypeOK
  /\ blk \in [Block -> [Slot -> FcbType]]
  /\ openfile_list \in [1..MaxOpen -> UseropenType]
  /\ curdir \in 1..MaxOpen /\ current_dir \in Seq(Names \cup Dots)
  /\ fd \in 1..MaxOpen /\ length \in 0..(MaxBlocks * BLOCK_SIZE - 1)
  /\ saved.blocks \in [Block -> [Slot -> FcbType]] /\ saved.tidy \in BOOLEAN
  /\ commands \in 0..MaxCommands /\ tidy \in BOOLEAN

Sound == intact /\ tidy

(* Files and folders correspond one to one to the areas of the disk: no    *)
(* block is lost, none has two owners, and the folders form a tree.        *)
TreeSound == Sound => TreeOf(blk, heads)

(* Nothing that is open has been removed. *)
OpenLive ==
  Sound => \A i \in 1..MaxOpen :
    LET fcb == openfile_list[i].fcb
    IN  openfile_list[i].used =>
          \/ fcb.first = RootBlock
          \/ \E p \in Items(blk) :
               Entry(blk, p).first = fcb.first /\ Entry(blk, p).attribute = fcb.attribute

(* A file has as many blocks as its length says: the length in the open    *)
(* file table once the file has been written, that of its entry otherwise. *)
SizesAgree ==
  Sound /\ pc = "cmd" => \A p \in Files(blk) :
    LET fcb  == Entry(blk, p)
        fds  == OpenAs(openfile_list, fcb)
    IN  Fits(fat1, fcb.first, IF fds = {} THEN fcb.length ELSE openfile_list[LowestOf(fds)].fcb.length)

(* What a finished save leaves in ./fsfile is such a tree too, with every  *)
(* length written that was only in the open file table.                    *)
SavedTree ==
  image.exists /\ image.intact /\ saved.tidy =>
    /\ TreeOf(saved.blocks, image.heads)
    /\ \A p \in Files(saved.blocks) :
         LET fcb == Entry(saved.blocks, p) IN Fits(image.fat1, fcb.first, fcb.length)

(* "." and ".." are the first two entries of a folder and of nothing else. *)
DotsFirst(blocks) ==
  /\ LET up == blocks[RootBlock][2]
     IN  up.used /\ up.name = DotDot /\ up.first = RootBlock
  /\ \A p \in FolderBlocks(blocks) \X Slot :
       Entry(blocks, p).used /\ Entry(blocks, p).name \in Dots =>
         p[2] \in {1, 2} /\ Entry(blocks, p).attribute = Folder
Tree(blocks, areas) == TreeOf(blocks, areas) /\ DotsFirst(blocks)

(* A slot in use is of the root or of an item of its kind; that of a file  *)
(* has the file's name, and its length unless it has been written.         *)
SlotLive(slot) ==
  \/ slot.fcb.first = RootBlock
  \/ \E p \in Items(blk) :
       LET fcb == Entry(blk, p)
       IN  /\ fcb.first = slot.fcb.first /\ fcb.attribute = slot.fcb.attribute
           /\ fcb.attribute = File =>
                /\ fcb.name = slot.fcb.name
                /\ slot.fcb_state = 0 => fcb.length = slot.fcb.length

UsedSlots == {i \in 1..MaxOpen : openfile_list[i].used}
TableSound ==
  /\ \A i \in UsedSlots : SlotLive(openfile_list[i])
  /\ \A i, k \in UsedSlots :
       LET fcb == openfile_list[i].fcb
       IN  fcb.attribute = File /\ fcb.first # RootBlock /\ openfile_list[k].fcb.first = fcb.first =>
             i = k
  /\ pc \in Saving => \A i \in UsedSlots : openfile_list[i].fcb.first = RootBlock

(* The loops of do_write are at work on the file of slot fd. *)
DoWriteSound ==
  pc \in {"write", "trim"} =>
       /\ fd \in UsedSlots /\ openfile_list[fd].fcb.first = file
       /\ file \in {Entry(blk, p).first : p \in Files(blk)}
       /\ static_num = length \div BLOCK_SIZE + 1

(* Every length that counts is that of the chain, except while it changes. *)
SizesSound ==
  \A p \in Files(blk) :
    LET fcb == Entry(blk, p)
        fds == {i \in UsedSlots : openfile_list[i].fcb.first = fcb.first}
    IN  \/ pc \in {"write", "trim"} /\ fcb.first = file
        \/ /\ fds = {} => Fits(fat1, fcb.first, fcb.length)
           /\ \A i \in fds : Fits(fat1, fcb.first, openfile_list[i].fcb.length)

ImageTree ==
  /\ Tree(saved.blocks, image.heads)
  /\ \A p \in Files(saved.blocks) :
       LET fcb == Entry(saved.blocks, p) IN Fits(image.fat1, fcb.first, fcb.length)

MemoryTree == Tree(blk, heads) /\ TableSound /\ DoWriteSound /\ SizesSound

(* The inductive invariant: a disk that was not damaged and the images     *)
(* saved from it have folders that form a tree, with "." and ".." where    *)
(* they belong, slots that are of what is in it, and lengths that agree    *)
(* with the chains.                                                        *)
FsInv ==
  /\ DiskInv
  /\ Sound => MemoryTree
  /\ image.exists /\ image.intact /\ saved.tidy => ImageTree

(* "Exit system, save changes." (simplefs.c:1090): my_exit_sys first       *)
(* closes every slot of the table (1097-1099), free ones too.  It can:     *)
(* each of them that it would save has an entry to be saved to.            *)
ExitCloses ==
  Sound /\ pc = "cmd" => CloseAll(blk, openfile_list, 1..MaxOpen).ok
=============================================================================
