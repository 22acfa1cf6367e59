-------------------------------- MODULE Disk --------------------------------
(***************************************************************************)
(* The block store of Lab5's simplefs: both copies of the file allocation  *)
(* table in memory, the loops of do_write and set_free that walk them, and *)
(* the host file ./fsfile they are loaded from and saved to.               *)
(*                                                                         *)
(* The program is one process that obeys one command at a time.  A command *)
(* that loops over a chain takes one step per iteration, so that its loop  *)
(* may be seen not to end; a command that does not loop takes one step.    *)
(* What directories hold is abstracted to the first blocks a command is    *)
(* given; module SimpleFS has the directories.                             *)
(***************************************************************************)
EXTENDS Fat, FiniteSets

CONSTANTS
  MaxBlocks,   \* blocks of the longest text do_write saves, WRITE_SIZE / BLOCK_SIZE
  AnyFirst,    \* bound: whether loops are also given blocks no area starts with
  KeepGoing    \* bound: whether commands follow one that was misled

ASSUME MaxBlocksAssumption == MaxBlocks \in Nat \ {0}
ASSUME BoundsAssumption    == AnyFirst \in BOOLEAN /\ KeepGoing \in BOOLEAN

VARIABLES
  fat1, fat2,   \* the tables at blocks 1-2 and 3-4
  pc,           \* what the process is doing, see PC
  cur,          \* the block a loop is at: i of do_write, fat0 - flag of set_free
  file,         \* the first block the loop was given: open_fcb.first, dir->first
  num,          \* blocks do_write has yet to store
  static_num,   \* blocks do_write was to store
  image,        \* ./fsfile
  heads,        \* history: first blocks of the areas allocated and not reclaimed
  intact        \* history: no command has yet misled a loop, see Misled

loopVars == <<cur, file, num, static_num>>
vars == <<fat1, fat2, pc, loopVars, image, heads, intact>>

(* "cmd" is the prompt, "off" no process; "write" and "trim" are do_write's *)
(* two loops, "reclaim" the loop of set_free; "formatting" and "exiting"    *)
(* are inside the fwrite of do_format and my_exit_sys.  After a store to    *)
(* memory that the loop was not meant to reach, "wild", nothing is claimed. *)
PC == {"off", "cmd", "write", "trim", "reclaim", "formatting", "exiting", "wild"}

(* First blocks of block0, the two tables and the root directory. *)
SystemHeads == {0, 1, 3, 5}
SystemBlock == 0..6
TableBlock  == 1..4

ZeroFat == set_free_format

Snapshot == [exists : BOOLEAN, fat1 : FatType, fat2 : FatType,
             heads : SUBSET Block, intact : BOOLEAN]

(* The host file as fopen(SYS_PATH, "w") leaves it: nothing in it, which   *)
(* start_sys reads into a buffer of zeros.                                 *)
Emptied == [exists |-> TRUE, fat1 |-> ZeroFat, fat2 |-> ZeroFat,
            heads |-> {}, intact |-> FALSE]
NoFile  == [Emptied EXCEPT !.exists = FALSE]

(* Of a table that starts at disk block `at', what a write of the first    *)
(* `w' blocks of the disk has saved; each table is two blocks long.        *)
Prefix(fat, at, w) ==
  [b \in Block |-> IF w > at + (IF 2 * b < NumBlocks THEN 0 ELSE 1)
                     THEN fat[b] ELSE FREE]

(* The host file after a write of `w' blocks; `whole' when they are known  *)
(* to include the tables.                                                  *)
Saved(w, whole) ==
  [exists |-> TRUE, fat1 |-> Prefix(fat1, 1, w), fat2 |-> Prefix(fat2, 3, w),
   heads |-> heads, intact |-> intact /\ whole]

(* The process is gone and its memory with it. *)
Dead ==
  /\ pc' = "off" /\ cur' = 0 /\ file' = 0 /\ num' = 0 /\ static_num' = 0
  /\ fat1' = ZeroFat /\ fat2' = ZeroFat /\ heads' = {} /\ intact' = FALSE

Idle == pc' = "cmd" /\ cur' = 0 /\ file' = 0 /\ num' = 0 /\ static_num' = 0

Init ==
  /\ pc = "off" /\ cur = 0 /\ file = 0 /\ num = 0 /\ static_num = 0
  /\ fat1 = ZeroFat /\ fat2 = ZeroFat /\ heads = {} /\ intact = FALSE
  /\ image = NoFile
-----------------------------------------------------------------------------
(* Starting, formatting, saving *)

FormatMemory ==
  /\ fat1' = FormattedFat /\ fat2' = FormattedFat
  /\ heads' = SystemHeads /\ intact' = TRUE
  /\ UNCHANGED loopVars

start_sys ==
  /\ pc = "off"
  /\ \/ /\ image.exists
        /\ fat1' = image.fat1 /\ fat2' = image.fat2
        /\ heads' = image.heads /\ intact' = image.intact
        /\ Idle
        /\ UNCHANGED image
     \/ /\ ~image.exists
        /\ FormatMemory
        /\ image' = Emptied
        /\ pc' = "formatting"

do_format ==
  /\ pc = "cmd"
  /\ FormatMemory
  /\ image' = Emptied
  /\ pc' = "formatting"

my_exit_sys ==
  /\ pc = "cmd"
  /\ image' = Emptied
  /\ pc' = "exiting"
  /\ UNCHANGED <<fat1, fat2, loopVars, heads, intact>>

(* A bug the checks must notice: the size handed to fwrite is too small. *)
fwrite_done_short ==
  \/ /\ pc = "formatting"
     /\ image' = Saved(4, TRUE)
     /\ Idle
     /\ UNCHANGED <<fat1, fat2, heads, intact>>
  \/ /\ pc = "exiting"
     /\ image' = Saved(4, TRUE)
     /\ Dead

(* The fwrite of the whole disk returns. *)
fwrite_done ==
  \/ /\ pc = "formatting"
     /\ image' = Saved(NumBlocks, TRUE)
     /\ Idle
     /\ UNCHANGED <<fat1, fat2, heads, intact>>
  \/ /\ pc = "exiting"
     /\ image' = Saved(NumBlocks, TRUE)
     /\ Dead

(* A signal kills the process; inside fwrite the file has any prefix of    *)
(* the disk.                                                               *)
Saving == {"formatting", "exiting"}
interrupt == pc \notin Saving \cup {"off"} /\ Dead /\ UNCHANGED image
tear(w)   == pc \in Saving /\ Dead /\ image' = Saved(w, w >= 5)
kill      == interrupt \/ \E w \in 0..NumBlocks : tear(w)
-----------------------------------------------------------------------------
(* Commands that allocate one block: do_create, do_mkdir *)

(* A bug the checks must notice: no test for a full disk. *)
allocate_unchecked ==
  LET b == get_free(fat1, 1)
  IN  /\ pc = "cmd"
      /\ fat1' = set_free_allocate(fat1, b, 1)
      /\ fat2' = set_free_allocate(fat2, b, 1)
      /\ heads' = heads \cup {b}
      /\ UNCHANGED <<pc, loopVars, image, intact>>

allocate ==
  LET b == get_free(fat1, 1)
  IN  /\ pc = "cmd"
      /\ b # -1
      /\ fat1' = set_free_allocate(fat1, b, 1)
      /\ fat2' = set_free_allocate(fat2, b, 1)
      /\ heads' = heads \cup {b}
      /\ UNCHANGED <<pc, loopVars, image, intact>>
-----------------------------------------------------------------------------
(* do_write: store num blocks along the chain, extending it as needed, then *)
(* free the rest of the chain.                                              *)

write_begin(first, n) ==
  /\ pc = "cmd"
  /\ pc' = "write" /\ cur' = first /\ file' = first /\ num' = n /\ static_num' = n
  /\ intact' = (intact /\ first \in heads \ SystemHeads)
  /\ UNCHANGED <<fat1, fat2, image, heads>>

(* A text block stored over the tables. *)
write_over_tables ==
  /\ pc = "write" /\ cur \in TableBlock
  /\ pc' = "wild"
  /\ UNCHANGED <<fat1, fat2, loopVars, image, heads, intact>>

write_next ==
  /\ pc = "write" /\ num > 1 /\ cur \notin TableBlock
  /\ fat1[cur] # END
  /\ cur' = fat1[cur] /\ num' = num - 1
  /\ UNCHANGED <<fat1, fat2, pc, file, static_num, image, heads, intact>>

(* A bug the checks must notice: the new block is not marked as the end of *)
(* the chain.                                                              *)
write_extend_unmarked ==
  LET next == get_free(fat1, 1)
  IN  /\ pc = "write" /\ num > 1 /\ cur \notin TableBlock
      /\ fat1[cur] = END /\ next # -1
      /\ fat1' = [fat1 EXCEPT ![cur] = next]
      /\ cur' = next /\ num' = num - 1
      /\ UNCHANGED <<fat2, pc, file, static_num, image, heads, intact>>

(* With no free block get_free's -1 is stored as END and block 65535 is    *)
(* written, 64 MB from fs_head: the process dies and nothing is saved.     *)
write_extend ==
  LET next == get_free(fat1, 1)
  IN  /\ pc = "write" /\ num > 1 /\ cur \notin TableBlock
      /\ fat1[cur] = END
      /\ IF next = -1
           THEN Dead /\ UNCHANGED image
           ELSE /\ fat1' = [fat1 EXCEPT ![cur] = next, ![next] = END]
                /\ cur' = next /\ num' = num - 1
                /\ UNCHANGED <<fat2, pc, file, static_num, image, heads, intact>>

(* Two bugs the checks must notice: the block to free first is taken to be  *)
(* the adjacent one; a shorter text keeps the longer chain.                 *)
write_last_adjacent ==
  /\ pc = "write" /\ num = 1 /\ cur \notin TableBlock
  /\ IF fat1[cur] = END \/ cur + 1 \notin Block
       THEN /\ fat2' = fat1
            /\ Idle
            /\ UNCHANGED fat1
       ELSE /\ fat1' = [fat1 EXCEPT ![cur] = END]
            /\ cur' = cur + 1 /\ pc' = "trim" /\ num' = 0
            /\ UNCHANGED <<fat2, file, static_num>>
  /\ UNCHANGED <<image, heads, intact>>

write_last_untrimmed ==
  /\ pc = "write" /\ num = 1 /\ cur \notin TableBlock
  /\ fat2' = fat1
  /\ Idle
  /\ UNCHANGED <<fat1, image, heads, intact>>

write_last ==
  /\ pc = "write" /\ num = 1 /\ cur \notin TableBlock
  /\ IF fat1[cur] = END
       THEN /\ fat2' = fat1
            /\ Idle
            /\ UNCHANGED fat1
       ELSE /\ fat1' = [fat1 EXCEPT ![cur] = END]
            /\ cur' = fat1[cur] /\ pc' = "trim" /\ num' = 0
            /\ UNCHANGED <<fat2, file, static_num>>
  /\ UNCHANGED <<image, heads, intact>>

(* Three bugs the checks must notice: the second table is not brought up to *)
(* date; the last block of the chain is kept; the loop does not advance.    *)
trim_step_unmirrored ==
  /\ pc = "trim"
  /\ fat1' = [fat1 EXCEPT ![cur] = FREE]
  /\ IF fat1[cur] = END
       THEN UNCHANGED fat2 /\ Idle
       ELSE cur' = fat1[cur] /\ UNCHANGED <<fat2, pc, file, num, static_num>>
  /\ UNCHANGED <<image, heads, intact>>

trim_step_short ==
  /\ pc = "trim"
  /\ IF fat1[cur] = END
       THEN fat2' = fat1 /\ Idle /\ UNCHANGED fat1
       ELSE /\ fat1' = [fat1 EXCEPT ![cur] = FREE]
            /\ cur' = fat1[cur] /\ UNCHANGED <<fat2, pc, file, num, static_num>>
  /\ UNCHANGED <<image, heads, intact>>

trim_step_stuck ==
  /\ pc = "trim"
  /\ fat1' = [fat1 EXCEPT ![cur] = FREE]
  /\ IF fat1[cur] = END
       THEN fat2' = fat1' /\ Idle
       ELSE UNCHANGED <<fat2, pc, loopVars>>
  /\ UNCHANGED <<image, heads, intact>>

trim_step ==
  /\ pc = "trim"
  /\ fat1' = [fat1 EXCEPT ![cur] = FREE]
  /\ IF fat1[cur] = END
       THEN fat2' = fat1' /\ Idle
       ELSE cur' = fat1[cur] /\ UNCHANGED <<fat2, pc, file, num, static_num>>
  /\ UNCHANGED <<image, heads, intact>>
-----------------------------------------------------------------------------
(* set_free with mode 1, as do_rm and do_rmdir call it *)

(* The loop is misled as soon as it must follow a link, because ReclaimNext *)
(* is not the next block, or when it is given a block that no area in use   *)
(* starts with.                                                             *)
Misled(first) == first \notin heads \ SystemHeads \/ fat1[first] # END

reclaim_begin(first) ==
  /\ pc = "cmd"
  /\ pc' = "reclaim" /\ cur' = first /\ file' = first
  /\ intact' = (intact /\ ~Misled(first))
  /\ heads' = heads \ {first}
  /\ UNCHANGED <<fat1, fat2, num, static_num, image>>

reclaim_step ==
  /\ pc = "reclaim"
  /\ fat1' = [fat1 EXCEPT ![cur] = FREE]
  /\ fat2' = [fat2 EXCEPT ![cur] = FREE]
  /\ IF fat1[cur] = END
       THEN Idle
       ELSE LET next == ReclaimNext(fat1, cur)
            IN  /\ cur' = IF next \in Block THEN next ELSE 0
                /\ pc' = IF next \in Block THEN "reclaim" ELSE "wild"
                /\ UNCHANGED <<file, num, static_num>>
  /\ UNCHANGED <<image, heads, intact>>
-----------------------------------------------------------------------------
(* The first blocks a command may be given.  SimpleFS has the directory    *)
(* and open file entries they come from.                                   *)
Firsts == IF AnyFirst THEN Block ELSE heads \ SystemHeads

Command ==
  \/ do_format
  \/ my_exit_sys
  \/ /\ KeepGoing \/ intact
     /\ \/ allocate
        \/ \E first \in Firsts, n \in 1..MaxBlocks : write_begin(first, n)
        \/ \E first \in Firsts : reclaim_begin(first)

Step ==
  \/ fwrite_done
  \/ write_over_tables \/ write_next \/ write_extend \/ write_last
  \/ trim_step
  \/ reclaim_step

Next == start_sys \/ Command \/ Step \/ kill

Spec == Init /\ [][Next]_vars

(* The process runs: a command that has begun is not suspended for ever.   *)
FairSpec == Spec /\ WF_vars(Step)
-----------------------------------------------------------------------------
(* What a table must be *)

(* The blocks a chain visits, in as many steps as the disk has blocks.     *)
Chain(fat, h) ==
  LET walk[n \in 0..NumBlocks] ==
        IF n = 0 THEN {h}
        ELSE LET seen == walk[n - 1]
             IN  seen \cup ({fat[b] : b \in seen} \ {FREE, END})
  IN  walk[NumBlocks]

(* Every root starts a chain that ends, no two chains share a block, and   *)
(* the chains are all that is allocated.                                   *)
Partitioned(fat, roots) ==
  LET area == [r \in roots |-> Chain(fat, r)]
  IN  /\ \A r \in roots : \E b \in area[r] : fat[b] = END
      /\ \A r, q \in roots : r # q => area[r] \cap area[q] = {}
      /\ {b \in Block : fat[b] # FREE} = UNION {area[r] : r \in roots}

(* The same of entries and links, which is what the code changes: links   *)
(* lead to allocated blocks, never to a root, no two to the same block, and *)
(* every allocated block is reached from a root.  The last part is needed: *)
(* without it blocks that only link to each other would pass.              *)
Linked(fat, roots) ==
  /\ \A r \in roots : fat[r] # FREE
  /\ \A b \in Block : fat[b] \notin {FREE, END} =>
       /\ fat[b] \notin roots
       /\ fat[fat[b]] # FREE
       /\ \A c \in Block : fat[c] = fat[b] => c = b
  /\ {b \in Block : fat[b] # FREE} \subseteq UNION {Chain(fat, r) : r \in roots}

(* Where start_sys, find_fcb and set_free look for things by number: the   *)
(* tables at 1 and 3, the root directory at 5.                             *)
SystemLayout(fat) ==
  /\ fat[0] = END
  /\ fat[1] = 2 /\ fat[2] = END
  /\ fat[3] = 4 /\ fat[4] = END
  /\ fat[5] = 6 /\ fat[6] = END

(* First blocks of areas: those in use, and the one being freed. *)
Roots == heads \cup (IF pc \in {"trim", "reclaim"} THEN {cur} ELSE {})

Loops == {"write", "trim", "reclaim"}

(* The blocks of a chain before block b of it. *)
Before(fat, h, b) == Chain(fat, h) \ Chain(fat, b)

(* How far do_write is: it has left as many blocks of the file behind as it *)
(* has stored, and when it frees the rest the file has what it stored.     *)
Progress ==
  /\ pc \in {"write", "trim"} => file \in heads \ SystemHeads
  /\ pc = "write" =>
       /\ cur \in Chain(fat1, file)
       /\ Cardinality(Before(fat1, file, cur)) = static_num - num
  /\ pc = "trim" => Cardinality(Chain(fat1, file)) = static_num

MemorySound ==
  /\ pc \notin {"off", "wild"}
  /\ SystemHeads \subseteq heads /\ SystemLayout(fat1)
  /\ Linked(fat1, Roots)
  /\ pc \notin {"write", "trim"} => fat2 = fat1
  /\ pc \in Loops => cur \notin SystemBlock /\ fat1[cur] # FREE
  /\ pc \in {"trim", "reclaim"} => cur \notin heads
  /\ pc = "reclaim" => fat1[cur] = END
  /\ Progress

ImageSound ==
  /\ SystemHeads \subseteq image.heads /\ SystemLayout(image.fat1)
  /\ Linked(image.fat1, image.heads)
  /\ image.fat2 = image.fat1
-----------------------------------------------------------------------------
(* Properties *)

(* The tables stay functions from blocks to blocks, free or end marks, and *)
(* loops stay on the disk.                                                 *)
TypeOK ==
  /\ fat1 \in FatType /\ fat2 \in FatType
  /\ pc \in PC /\ cur \in Block /\ file \in Block
  /\ num \in 0..MaxBlocks /\ static_num \in 0..MaxBlocks
  /\ image \in Snapshot
  /\ heads \in SUBSET Block /\ intact \in BOOLEAN

(* The second table is a copy of the first whenever a command has returned *)
(* and whenever the disk is being saved, although do_write changes only    *)
(* the first one until its last line (simplefs.c:950) and set_free changes *)
(* both.                                                                   *)
Mirrored == intact /\ pc \notin {"write", "trim"} => fat2 = fat1

(* No block is lost, and none belongs to two files, at any iteration of    *)
(* any loop: get_free, do_write and set_free keep the table a partition    *)
(* into chains, one for each area in use.                                  *)
NoLeakNoShare == intact => Partitioned(fat1, Roots)

(* The inductive invariant: memory that was not damaged and images that    *)
(* were saved from it are linked as Linked says, and a loop is at a block  *)
(* of the area it was given, outside the system's, as far along it as the  *)
(* blocks it has stored.                                                   *)
DiskInv ==
  /\ intact => MemorySound
  /\ image.exists /\ image.intact => ImageSound

(* An image that a save finished on holds a sound disk: two equal tables   *)
(* that partition the disk between the areas in use when it was saved.     *)
SavedIsSound ==
  image.exists /\ image.intact =>
    /\ image.fat2 = image.fat1
    /\ Partitioned(image.fat1, image.heads)
    /\ SystemLayout(image.fat1)

(* Writing, extending, trimming or removing one file leaves every link of  *)
(* every other area as it was.                                             *)
NoCollateral ==
  [][intact /\ pc \in Loops =>
       \A h \in heads' \ {file} : \A b \in Chain(fat1, h) : fat1'[b] = fat1[b]]_vars

(* A write that returns leaves the file exactly the blocks the text takes, *)
(* whether it had fewer, more or as many (simplefs.c:912-948).             *)
WrittenExactly ==
  [][intact /\ pc \in {"write", "trim"} /\ pc' = "cmd" =>
       Cardinality(Chain(fat1', file)) = static_num]_vars

(* The loops of do_write and set_free end: the process returns to its      *)
(* prompt, or dies on the full disk.                                       *)
CommandsReturn == intact /\ pc \in Loops ~> pc \in {"cmd", "off"}

(* What the comments of set_free promise of mode 1 (simplefs.c:1148, 1161): *)
(* when it returns, the space of the removed area has been reclaimed, so    *)
(* every allocated block is still a first block or linked to.               *)
SpaceReclaimed ==
  [][pc = "reclaim" /\ pc' = "cmd" =>
       \A b \in Block : fat1'[b] # FREE =>
         b \in heads' \/ \E c \in Block : fat1'[c] = b]_vars
=============================================================================
