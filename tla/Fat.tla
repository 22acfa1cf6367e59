-------------------------------- MODULE Fat --------------------------------
(***************************************************************************)
(* The file allocation table of Lab5's simplefs and the functions that     *)
(* search and change one: get_free and set_free of simplefs.c.  Operators  *)
(* keep the names of the C functions.  A table is a function from block    *)
(* numbers to entries; the entry of an allocated block is the next block   *)
(* of its chain, or END.                                                   *)
(***************************************************************************)
EXTENDS Integers

CONSTANT NumBlocks            \* BLOCK_NUM (1024 in simplefs.h)

(* The tables, the boot block and the root directory take blocks 0..6, and *)
(* an entry is an unsigned short whose greatest value is END.              *)
ASSUME NumBlocksAssumption == NumBlocks \in Nat /\ NumBlocks >= 8 /\ NumBlocks <= 65535

FREE == 0
END  == 65535

Block   == 0..(NumBlocks - 1)
FatType == [Block -> Block \cup {END}]

(* First blocks of the runs of `count' free blocks the search can return:  *)
(* the loop `i < BLOCK_NUM - count' never tries the last run of the disk.  *)
FreeRuns(fat, count) ==
  {i \in 0..(NumBlocks - count - 1) : \A j \in i..(i + count - 1) : fat[j] = FREE}

(* First fit; -1 when no run is free. *)
get_free(fat, count) ==
  LET runs == FreeRuns(fat, count)
  IN  IF runs = {} THEN -1 ELSE CHOOSE i \in runs : \A k \in runs : i <= k

(* set_free with mode 0.  Every entry but the last gets first + 1, which   *)
(* is the next block only for runs of one or two blocks.                   *)
set_free_allocate(fat, first, length) ==
  [b \in Block |-> CASE b \in first..(first + length - 2) -> first + 1
                     [] b = first + length - 1            -> END
                     [] OTHER                             -> fat[b]]

(* set_free with mode 2. *)
set_free_format == [b \in Block |-> FREE]

AllocateRun(fat, count) == set_free_allocate(fat, get_free(fat, count), count)

(* The table do_format leaves: one block for block0, two for each table,   *)
(* two for the root directory.                                             *)
FormattedFat ==
  AllocateRun(AllocateRun(AllocateRun(AllocateRun(set_free_format, 1), 2), 2), 2)

(* The index set_free reaches from entry `i' with mode 1: the code adds    *)
(* `fat0->id - (fat0 - flag) / sizeof(fat)' to i, and as fat0 - flag       *)
(* already counts entries the quotient is i / 2.                           *)
ReclaimNext(fat, i) == i + (fat[i] - (i \div 2))
=============================================================================
