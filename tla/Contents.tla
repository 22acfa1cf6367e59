------------------------------ MODULE Contents ------------------------------
(***************************************************************************)
(* What is in the files of Lab5's simplefs: the text do_write composes     *)
(* from what it reads and what was typed, its way into the blocks of the   *)
(* chain, and the way back through do_read.  Every action is an action of  *)
(* Disk, or leaves the disk alone, and also says what becomes of the       *)
(* bytes.                                                                  *)
(*                                                                         *)
(* Every file is open from when it is made, in one slot.  Saving, killing  *)
(* and removing are in SimpleFS, which knows texts by their length.        *)
(***************************************************************************)
EXTENDS Disk, Sequences
LOCAL INSTANCE FiniteSetsExt
LOCAL INSTANCE SequencesExt

CONSTANTS
  Character,     \* what a byte of text may be
  BLOCK_SIZE,    \* characters in a block
  Files,         \* the files there may be
  Inputs,        \* bound: the lines the user types
  Positions,     \* bound: the locations the user types
  Lengths,       \* bound: the lengths the user types
  MaxCommands    \* bound: commands typed before the user stops

NUL == "0"       \* the terminator
NL  == "n"       \* the newline a line ends with

ASSUME CharacterAssumption == {NUL, NL} \subseteq Character
ASSUME BlockSizeAssumption == BLOCK_SIZE \in Nat \ {0}
ASSUME InputsAssumption ==
  \A s \in Inputs : s \in Seq(Character) /\ s # <<>> /\ Last(s) = NL /\ \A i \in DOMAIN s : s[i] # NUL
ASSUME PositionsAssumption ==
  Positions \subseteq Nat /\ Lengths \subseteq 1..(MaxBlocks * BLOCK_SIZE)

WRITE_SIZE == MaxBlocks * BLOCK_SIZE

VARIABLES
  bytes,       \* what is in the blocks
  open,        \* the open file table's first, length and count of each file
  text,        \* the buffer do_write is storing
  writing,     \* the file do_write is storing it to, or "none"
  commands,    \* commands typed so far
  expected     \* history: the text do_write composed last for each file

contentVars == <<bytes, open, text, writing, commands, expected>>
everything  == <<vars, contentVars>>

zeros(n) == [i \in 1..n |-> NUL]
NoText   == zeros(WRITE_SIZE)
Absent   == [first |-> 0, length |-> 0, count |-> 0]
Made     == {f \in Files : open[f].first # 0}

ContentsInit ==
  /\ Init
  /\ bytes = [b \in Block |-> zeros(BLOCK_SIZE)]
  /\ open = [f \in Files |-> Absent]
  /\ text = NoText /\ writing = "none"
  /\ commands = 0 /\ expected = [f \in Files |-> <<>>]

Typed == pc = "cmd" /\ commands < MaxCommands /\ commands' = commands + 1

strlen(s) ==
  LET ends == {i \in DOMAIN s : s[i] = NUL}
  IN  IF ends = {} THEN Len(s) ELSE Min(ends) - 1

(* memcpy of `s' into the buffer `t' at `at'. *)
overlay(t, at, s) ==
  [i \in DOMAIN t |-> IF i - at \in DOMAIN s THEN s[i - at] ELSE t[i]]
-----------------------------------------------------------------------------
(* do_read *)

OffChain == -1

(* The n-th block of the chain that starts with `first'. *)
physics_block(first, n) ==
  LET walk[k \in 0..n] ==
        IF k = 0 THEN first
        ELSE IF walk[k - 1] \in Block /\ fat1[walk[k - 1]] \in Block
               THEN fat1[walk[k - 1]] ELSE OffChain
  IN  walk[n]

(* How much is to be read.  The comparison is unsigned: from beyond the    *)
(* end it is as much as is asked for.                                      *)
wanted(f, count, len) ==
  IF len <= 0 THEN 0
  ELSE IF count > open[f].length \/ open[f].length - count >= len THEN len
  ELSE open[f].length - count

(* A bug the checks must notice: the loop counts down by whole blocks. *)
read_round_whole(f, r) ==
  LET off   == r.count % BLOCK_SIZE
      b     == physics_block(open[f].first, r.count \div BLOCK_SIZE)
      block == IF b = OffChain THEN zeros(BLOCK_SIZE) ELSE bytes[b]
  IN  [text |-> r.text \o SubSeq(block, off + 1, BLOCK_SIZE),
       count |-> r.count + BLOCK_SIZE - off,
       left |-> IF r.left <= BLOCK_SIZE THEN 0 ELSE r.left - BLOCK_SIZE,
       lost |-> r.lost \/ b = OffChain]

(* One round of the loop.  `lost' when it has looked for a block that the  *)
(* chain does not have: what it reads then is anything, or nothing the     *)
(* process may read.                                                       *)
read_round(f, r) ==
  LET off   == r.count % BLOCK_SIZE
      b     == physics_block(open[f].first, r.count \div BLOCK_SIZE)
      block == IF b = OffChain THEN zeros(BLOCK_SIZE) ELSE bytes[b]
  IN  IF off + r.left <= BLOCK_SIZE
        THEN [text |-> r.text \o SubSeq(block, off + 1, off + r.left),
              count |-> r.count + r.left, left |-> 0,
              lost |-> r.lost \/ b = OffChain]
        ELSE [text |-> r.text \o SubSeq(block, off + 1, BLOCK_SIZE),
              count |-> r.count + BLOCK_SIZE - off, left |-> r.left - BLOCK_SIZE - off,
              lost |-> r.lost \/ b = OffChain]

(* What do_read has done when `left' is 0; below 0 it is a size for memcpy *)
(* that no buffer has.                                                     *)
do_read(f, count, len) ==
  LET rounds[n \in 0..WRITE_SIZE] ==
        IF n = 0 THEN [text |-> <<>>, count |-> count,
                       left |-> wanted(f, count, len), lost |-> FALSE]
        ELSE IF rounds[n - 1].left <= 0 THEN rounds[n - 1]
        ELSE read_round(f, rounds[n - 1])
  IN  rounds[WRITE_SIZE]

Dies(r) == r.left < 0
-----------------------------------------------------------------------------
(* do_write *)

(* A bug the checks must notice: a new text is put over the old one. *)
composed_kept(mode, old, count, input) ==
  CASE mode = "w" -> overlay(old, 0, input)
    [] mode = "c" -> overlay(old, count, Front(input))
    [] mode = "a" -> overlay(old, count, Append(input, NUL))

(* What the user typed, over what the file holds: `w' instead of it; `c'   *)
(* over it at `count', without the last newline; `a' also at `count', and  *)
(* with the terminator.                                                    *)
composed(mode, old, count, input) ==
  CASE mode = "w" -> overlay(NoText, 0, input)
    [] mode = "c" -> overlay(old, count, Front(input))
    [] mode = "a" -> overlay(old, count, Append(input, NUL))

OldText(f) == overlay(NoText, 0, do_read(f, 0, open[f].length).text)

my_write(f, mode, at, input) ==
  LET count == IF mode = "c" THEN at ELSE open[f].count
      t     == composed(mode, OldText(f), count, input)
  IN  /\ Typed /\ f \in Made
      /\ (IF mode = "w" THEN 0 ELSE count) + Len(input) < WRITE_SIZE
      /\ write_begin(open[f].first, strlen(t) \div BLOCK_SIZE + 1)
      /\ text' = t /\ writing' = f
      /\ open' = [open EXCEPT ![f].count = count]
      /\ expected' = [expected EXCEPT ![f] = SubSeq(t, 1, strlen(t))]
      /\ UNCHANGED bytes

(* A bug the checks must notice: the pieces are counted from the end. *)
chunk_backwards == SubSeq(text, (num - 1) * BLOCK_SIZE + 1, num * BLOCK_SIZE)

chunk == SubSeq(text, (static_num - num) * BLOCK_SIZE + 1,
                      (static_num - num + 1) * BLOCK_SIZE)

Written ==
  IF pc' = "cmd"
    THEN /\ open' = [open EXCEPT ![writing].length = strlen(text)]
         /\ text' = NoText /\ writing' = "none"
    ELSE UNCHANGED <<open, text, writing>>

(* The process is gone; what it had not saved is too. *)
Forgotten ==
  /\ bytes' = [b \in Block |-> zeros(BLOCK_SIZE)]
  /\ open' = [f \in Files |-> Absent] /\ expected' = [f \in Files |-> <<>>]
  /\ text' = NoText /\ writing' = "none"

(* A bug the checks must notice: a piece is stored after the loop has gone *)
(* on to the next block.                                                   *)
store_block_late ==
  /\ write_next \/ write_extend
  /\ UNCHANGED commands
  /\ IF pc' = "off" THEN Forgotten
     ELSE /\ bytes' = [bytes EXCEPT ![cur'] = chunk]
          /\ UNCHANGED <<open, text, writing, expected>>

store_block ==
  /\ write_next \/ write_extend
  /\ UNCHANGED commands
  /\ IF pc' = "off" THEN Forgotten
     ELSE /\ bytes' = [bytes EXCEPT ![cur] = chunk]
          /\ UNCHANGED <<open, text, writing, expected>>

store_last ==
  /\ write_last /\ Written
  /\ bytes' = [bytes EXCEPT ![cur] = chunk]
  /\ UNCHANGED <<commands, expected>>

trim == trim_step /\ Written /\ UNCHANGED <<bytes, commands, expected>>
-----------------------------------------------------------------------------
(* The other commands *)

boot == (start_sys \/ fwrite_done) /\ UNCHANGED contentVars

(* create and open.  What the block held stays there. *)
my_create(f) ==
  /\ Typed /\ f \notin Made
  /\ allocate
  /\ open' = [open EXCEPT ![f] = [first |-> get_free(fat1, 1), length |-> 0, count |-> 0]]
  /\ UNCHANGED <<bytes, text, writing, expected>>

(* close and open: the length goes into the entry and back. *)
reopen(f) ==
  /\ Typed /\ f \in Made /\ open[f].count # 0
  /\ open' = [open EXCEPT ![f].count = 0]
  /\ UNCHANGED <<vars, bytes, text, writing, expected>>

(* -a reads from the beginning, -s from where it is told to. *)
my_read(f, at, len) ==
  LET r == do_read(f, at, len)
  IN  /\ Typed /\ f \in Made
      /\ ~Dies(r)
      /\ open' = [open EXCEPT ![f].count = r.count]
      /\ UNCHANGED <<vars, bytes, text, writing, expected>>

read_crash(f, at, len) ==
  LET r == do_read(f, at, len)
  IN  /\ Typed /\ f \in Made
      /\ Dies(r) \/ r.lost
      /\ Dead /\ Forgotten
      /\ UNCHANGED image

Reading ==
  \E f \in Files :
    \/ my_read(f, 0, open[f].length)
    \/ \E at \in Positions, len \in Lengths : my_read(f, at, len) \/ read_crash(f, at, len)

Writing ==
  \E f \in Files, input \in Inputs :
    \/ \E mode \in {"w", "a"} : my_write(f, mode, 0, input)
    \/ \E at \in Positions : my_write(f, "c", at, input)

ContentsNext ==
  \/ boot
  \/ \E f \in Files : my_create(f) \/ reopen(f)
  \/ Reading \/ Writing
  \/ store_block \/ store_last \/ trim

ContentsSpec == ContentsInit /\ [][ContentsNext]_everything
-----------------------------------------------------------------------------
(* What is where *)

(* The first n blocks of the chain that starts with h hold text s, as far  *)
(* as it goes.                                                             *)
Holds(h, n, s) ==
  \A k \in 0..(n - 1) :
    /\ physics_block(h, k) \in Block
    /\ \A i \in 1..BLOCK_SIZE :
         k * BLOCK_SIZE + i <= Len(s) =>
           bytes[physics_block(h, k)][i] = s[k * BLOCK_SIZE + i]

BlocksOf(s) == Len(s) \div BLOCK_SIZE + 1

ContentsTypeOK ==
  /\ bytes \in [Block -> [1..BLOCK_SIZE -> Character]]
  /\ open \in [Files -> [first : Block, length : 0..(WRITE_SIZE - 1), count : Nat]]
  /\ text \in [1..WRITE_SIZE -> Character]
  /\ expected \in [Files -> Seq(Character)]

(* The process is where the commands of this module take it, and what it   *)
(* started from was saved from a sound disk.                               *)
Undamaged ==
  /\ pc \in {"off", "formatting", "cmd", "write", "trim"}
  /\ pc # "off" => intact
  /\ image.exists /\ pc # "formatting" => image.intact
  /\ pc \in {"off", "formatting"} => Made = {}

(* Each file has a chain of its own, and a text that has a terminator.     *)
FilesApart ==
  /\ \A f \in Made : open[f].first \in heads \ SystemHeads
  /\ \A f, g \in Made : open[f].first = open[g].first => f = g
  /\ \A f \in Files \ Made : expected[f] = <<>>
  /\ \A f \in Files : /\ Len(expected[f]) < WRITE_SIZE
                      /\ \A i \in 1..Len(expected[f]) : expected[f][i] # NUL

Settled(f) ==
  /\ open[f].length = Len(expected[f])
  /\ Holds(open[f].first, BlocksOf(expected[f]), expected[f])

(* In the middle of do_write: the buffer holds the text, `cur' is at the   *)
(* block that takes the next piece of it, and the blocks before hold theirs. *)
Storing ==
  LET s == expected[writing]
  IN  /\ writing \in Made /\ open[writing].first = file
      /\ static_num = BlocksOf(s)
      /\ \A i \in 1..Len(s) : text[i] = s[i]
      /\ text[Len(s) + 1] = NUL
      /\ pc = "write" => /\ num \in 1..static_num
                         /\ cur = physics_block(file, static_num - num)
                         /\ Holds(file, static_num - num, s)
      /\ pc = "trim" => Holds(file, static_num, s)
-----------------------------------------------------------------------------
(* Properties *)

(* The inductive invariant: outside do_write every file is settled, its    *)
(* length that of its text and the blocks of its chain holding it in order; *)
(* in the middle of do_write every other file is, the blocks behind `cur'  *)
(* hold their pieces and the buffer holds the rest (simplefs.c:881-952).   *)
ContentsInv ==
  /\ ContentsTypeOK /\ Undamaged /\ FilesApart
  /\ pc \in {"write", "trim"} => Storing
  /\ \A f \in Made : (pc \in {"write", "trim"} => f # writing) => Settled(f)

(* At the prompt the blocks of each file's chain, read in order, hold the  *)
(* text that do_write composed for it last, up to its length: whatever the *)
(* sequence of writes, of growing and shrinking files, no block of text is *)
(* lost, swapped, or taken by another file (simplefs.c:881-952).           *)
Stored(f) ==
  LET blocks == [n \in 1..(open[f].length \div BLOCK_SIZE + 1) |->
                   bytes[physics_block(open[f].first, n - 1)]]
  IN  FlattenSeq(blocks)
StoredText ==
  pc = "cmd" =>
    \A f \in Made : /\ open[f].length = Len(expected[f])
                    /\ SubSeq(Stored(f), 1, open[f].length) = expected[f]

(* "[-a|-c|-w] append|cover|write" (simplefs.c:792): the text that is to   *)
(* be in a file after a write in its place, a cover of what begins at `at' *)
(* without the last newline, or an append.                                 *)
Meant(mode, old, at, input) ==
  CASE mode = "w" -> input
    [] mode = "c" -> SubSeq(old, 1, at) \o Front(input) \o SubSeq(old, at + Len(input), Len(old))
    [] mode = "a" -> old \o input

(* What do_write composes, from what it reads back and what was typed, is  *)
(* what the user asked for: of a write always, of a cover that begins in   *)
(* the text, and of an append when the position is at the end, as after    *)
(* read -a (simplefs.c:885-910).                                           *)
WritesMeant ==
  [][\A f \in Files, input \in Inputs :
       /\ my_write(f, "w", 0, input) => expected'[f] = Meant("w", expected[f], 0, input)
       /\ \A at \in Positions :
            at <= Len(expected[f]) /\ my_write(f, "c", at, input) =>
              expected'[f] = Meant("c", expected[f], at, input)
       /\ open[f].count = open[f].length /\ my_write(f, "a", 0, input) =>
            expected'[f] = Meant("a", expected[f], 0, input)]_everything

(* "append" (simplefs.c:792), the comment at 899 and the call commented    *)
(* out at 909: wherever the position is, the line comes after the old text. *)
AppendsAtEnd ==
  [][\A f \in Files, input \in Inputs :
       my_write(f, "a", 0, input) => expected'[f] = Meant("a", expected[f], 0, input)]_everything

(* The part of the text that read -s is asked for. *)
Asked(f, at, len) == SubSeq(expected[f], at + 1, at + Min({len, open[f].length - at}))

(* read -a shows the whole text.  read -s never leaves the chain, shows    *)
(* what it was asked for when it starts at a block's beginning or stays    *)
(* within a block, and nothing else in any case: what it shows is the      *)
(* beginning of what it was asked for, or all of it (simplefs.c:1047-1084). *)
ReadsRight ==
  pc = "cmd" =>
    \A f \in Made :
      /\ do_read(f, 0, open[f].length).text = expected[f]
      /\ \A at \in 0..open[f].length, len \in 1..WRITE_SIZE :
           LET r   == do_read(f, at, len)
               n   == Min({len, open[f].length - at})
               off == at % BLOCK_SIZE
           IN  /\ ~r.lost
               /\ off = 0 \/ off + n <= BLOCK_SIZE =>
                    ~Dies(r) /\ r.text = Asked(f, at, len)
               /\ ~Dies(r) => \E m \in 0..n : r.text = SubSeq(expected[f], at + 1, at + m)

(* The loop is to go on for the characters "still to be read" (simplefs.c: *)
(* 1082) of as many as can be read (1052-1056): every part of a text can   *)
(* be shown.                                                               *)
ReadsAsked ==
  pc = "cmd" =>
    \A f \in Made, len \in Lengths :
      \A at \in Positions \cap 0..open[f].length :
        LET r == do_read(f, at, len)
        IN  ~Dies(r) /\ r.text = Asked(f, at, len)
=============================================================================
