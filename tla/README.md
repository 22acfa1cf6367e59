# A TLA+ verification of Operator_System

Operator_System is a set of operating system exercises in C. This directory holds TLA+ modules
translated from the code under `src/`, the TLC runs that check them on small instances, and TLAPS
proofs of what matters most for every size. `PROJECT.json` lists components, runs, mutants (a
plausible bug for each property, which the property must notice), the lines each definition stands
for, findings, hazards and theorems.

## The system

| part | state | operations | interaction | what is hard |
|---|---|---|---|---|
| Lab5 `simplefs.c`: block store | two allocation tables, the disk in memory, `./fsfile` | `get_free`, `set_free`, loops of `do_write`, `do_format`, `start_sys`, the save in `my_exit_sys` | called by every file command | chains rewritten one entry at a time, the second table copied at the end, a full disk, a save that can be cut short |
| Lab5 `simplefs.c`: contents | the bytes in the blocks, `count` and `length` of an open file, the buffers of `do_read` and `do_write` | the text part of `do_write`, `my_write`, `do_read`, `my_read` | over the block store | text cut into blocks and put together again, appends and covers at a position that may be stale, a count-down that skips |
| Lab5 `simplefs.c`: commands | directory entries in blocks, `openfile_list`, `curdir`, `current_dir` | `my_cd`, `my_mkdir`, `my_rmdir`, `my_create`, `my_rm`, `my_open`, `my_close`, `my_read`, `my_write`, exit | over the block store; a file's length is in its entry *and* in the open file table | two copies of an entry, slots that outlive their file, aliases of a path, blocks whose old contents read as entries |
| Lab5 `main.c` | none of its own | read, split, dispatch | runs one builtin at a time | end of input |
| Lab3 `Exp3_3` | six semaphores, a System V queue | `sender1`, `sender2`, `receiver` threads | semaphores and messages | one turn handed round three threads, a queue removed at the end |
| Lab3 `Exp3_3_fake` | two semaphores, a queue with a fixed key | the same threads, first version | the same | the queue is removed without waiting, and outlives a killed process |
| Lab3 `Exp3_4` | three named semaphores, one text of shared memory | `sender.c`, `receiver.c` | semaphores and memory | memory read after it was handed over; semaphores and memory outlive a killed program |
| Lab3 `Exp3_2` | a pipe, three named semaphores | a parent and three children | pipe, semaphores, `wait` | non-blocking reads and writes on shared ends, named semaphores that survive an interrupt |
| Lab3 `Exp3_1` | none | read, split, dispatch | - | - |
| Lab1 `sys.c`, `demo.c`; Lab2 modules | the kernel's | one call, two list walks | kernel | processes that end meanwhile |

What makes them correct:

* block store: every allocated block belongs to exactly one chain and no block is lost, at each
  iteration; the copies of the table agree; an operation on one file leaves the others alone; what
  a finished save leaves can be booted;
* contents: the chain of a file, read in order, holds what was written to it, and reads show it;
* commands: folders form a tree that owns each chain once; nothing open has been removed; the
  length of a file and its chain agree, in memory and once saved;
* message queue and shared memory: one line is under way at a time, each line is looked at once,
  answers reach their sender, nothing is removed while in use, everyone ends;
* pipe: the size that is printed is the pipe's, both messages are read and nothing else, everyone
  ends.

## Modules

| module | models | proofs |
|---|---|---|
| `Fat` | `get_free`, `set_free`, the table `do_format` leaves, as functions | `DiskProofs` |
| `Disk` | the block store: one action per iteration of a loop, saves, kills | `DiskProofs` |
| `Contents` | the bytes of the files, composed with `Disk`: every action conjoins one of `Disk`'s or leaves the disk alone, so that what is proved of `Disk` holds here by construction | `ContentsProofs` |
| `Folders` | names, entries, paths, `find_fcb`, `do_close`, as functions | `FsProofs` |
| `SimpleFS` | the commands, composed with `Disk` in the same way | `FsProofs`, `TreeProofs` |
| `Turns`, `Handoff` | what the programs of Exp3_3, Exp3_3_fake and Exp3_4 promise | - |
| `MessageQueue` | Exp3_3, one action per semaphore or queue call; implements `Turns` | `QueueProofs` |
| `FakeQueue` | Exp3_3_fake, likewise, killed and started again; its steps in a fresh process are `Turns`' | `FakeProofs` |
| `SharedMemory` | Exp3_4, one action per semaphore call or access, killed and started again; implements `Handoff` until one is killed | `MemoryProofs` |
| `Pipe` | Exp3_2, one action per call on the pipe or a semaphore, interrupted and started again | `PipeProofs` |
| `MCDisk`, `MCContents`, `MCSimpleFS`, `MCMessageQueue`, `MCFakeQueue`, `MCSharedMemory`, `MCPipe` | instances for TLC | - |

### Disk

`fat1`, `fat2` are the tables, `pc` says which loop or save is in progress, `cur`, `file`, `num`,
`static_num` are the locals of the loops, `image` is what `./fsfile` holds. `heads` (the first blocks
of areas in use) and `intact` (no command has been misled yet) are history variables. A command is a
beginning and one step per iteration, so that a kill can come anywhere; commands never interleave,
as the shell runs one at a time. A save empties the file, then writes; a kill inside it leaves any
prefix of the disk, at the granularity of a block (a format that is killed before its first block is
written is what `format -x` amounts to).

`set_free` in mode 1 divides a difference of pointers, which C already counts in entries, once more
by the size of an entry. After the first entry the loop is at a block that has nothing to do with the
chain (`ReclaimNext`); run `disk_reclaim` shows it. `intact` turns FALSE when it happens, the
invariants speak of disks on which it has not, and with `KeepGoing = FALSE` TLC stops typing commands
then. The proofs hold for either value.
A write on a full disk stores `get_free`'s -1 as END and goes on at block 65535, 64 MB away:
the process dies (`write_extend`). The comment on `get_free` (simplefs.c:1111) says that it returns 0
without enough space; the code returns -1 (1141), which mkdir and create compare it with, and so does
the model.

### Contents

Characters are in the blocks here: `bytes` holds them, `open` the length and position of each file,
`text` the buffer `do_write` is storing, and each iteration of its loop is an iteration of `Disk`'s.
Writes replace, append or cover; appending copies the terminator and so cuts off what follows the
position, which is where the last read or cover left it and not the end. `composed` is the buffer as
the code fills it, and `expected` the text in it up to its first terminator; what the user *meant* is
`Meant`, from the usage text (simplefs.c:792), and is compared with it: `WritesMeant` says where the
two agree, `AppendsAtEnd` that they agree for every append, which fails. `do_read` is one function
from file, position and length to the text it shows, the position it leaves, or the process's death:
its count-down subtracts a whole block where it has copied less. `ReadsRight` says what can be relied
on, `ReadsAsked` what the comments say, which fails. A read beyond the end, where a shorter text
leaves the position, may walk off the chain. Files are open from when they are made; removing and
saving are in `SimpleFS`, which knows a text by its length.

What a byte may be is the constant `Character`; all that is asked of it is that the terminator and
the newline are in it. `ContentsInv` is the inductive invariant, checked by the run and proved: see
below.

### SimpleFS

The commands add `blk`, the blocks read as arrays of entries (nothing in a block says what it is,
and `rmdir` or `rm` leave contents behind), the open file table, the current directory and the
blocks of the image. Text is an entry that no name matches. The content of a file is its length, in
bytes as the code counts it (the comment on the field, simplefs.h:55, calls it a number of blocks); a
read that dies (`read_crash`) is the one that dies in `Contents`.

Nothing stops a user from doing things the code should have refused. `tidy` is a history variable
that is TRUE until such a command is carried out; each of them is written at its action, as the
argument of `Untidy`, and every one was found because an invariant failed without it:

* format while files are open or the current directory is not the root;
* create or mkdir below something that is not a folder, and any path that leads through a file;
* rmdir of a folder with entries, of a "." or ".." under another path, of one open under an alias;
* opening a file that is open;
* closing a slot that is stale (`Stale`), at exit too: one that was written at some time, as nothing
  resets `fcb_state`, and whose path now leads nowhere, through a file or to an entry that differs in
  more than its length, or that is free and would overwrite a newer length;
* `close -a` when a slot is stale or its length has not been saved.

The last case of a stale slot was found by the proof of `FsInv`: a file that was written and
closed, then opened in a lower slot, written again and closed, leaves the first slot free with an
older length, which exit, going up the table, stores last (simplefs.c:1097-1099, 783-788). The file
then has more blocks than its entry says, or fewer.

`TreeSound`, `OpenLive`, `SizesAgree` and `SavedTree` say what holds until then: what is wrong with a
disk after such a command they do not say. `fs_exit_crash` shows one of these going wrong from a tidy
disk. As with `intact`, TLC types no further commands after such a command, but may exit, save,
be killed and boot.

`rmdir` refuses the arguments ".", ".." and "/" as they are typed (`ReadOnly`), so that "/." and
"/.." go through, the latter to the root directory's own blocks. `mkdir`'s buffer for the parent's
path is not initialised and not ended (simplefs.c:229, 247): `Parpaths` has the parent's path with its
last name made longer (`Longer`) and any of `Tails` behind it. A buffer that spells a name nobody has
typed finds no parent and the command is refused. The run has one further name at most and the
beginnings its names have ("a" of "a.d", "." of ".."); the proofs hold for any `Longer` and `Tails`.

Simplifications: one path per command, spelled without needless slashes; only the first block of a
directory holds entries (so it is in the code); names are not truncated; texts longer than the disk's bound are not typed. No entry leads to the blocks of
the tables, so `Disk`'s `write_over_tables` does not occur here.

### MessageQueue and FakeQueue

The label of a thread names the call it is at. Senders are a set (two in the code).
`MessageQueue` is one process that finds an empty queue, so that all of it implements `Turns`;
`FakeQueue` shows what a queue that is left over does to such a program. `msgsnd` blocking on a full host queue (ten messages at
most are under way) is not modelled.

`FakeQueue` is the first version, with two semaphores for six. Its process may be killed at any step
and started again: the semaphores are new then, the queue is what it was, and the history variable
`leftover` counts its messages. A process for which that is 0 does what `Turns` promises, but for the
last answer: the receiver removes the queue as soon as it has sent it, and the sender's CHECK may
fail. A process that finds messages shows every line that many lines late, and an answer among
them lets a sender go before its own exit has been taken. Every thread has opened the queue before
any of them uses it.

### SharedMemory

An access to the text is atomic: the only race in the code, the sender's second `strncmp` against
the receiver's `strcpy`, has then the two outcomes that matter, exit seen or not. Either program may
be killed at any step and started again on semaphores and memory as they are; `clean` is TRUE as long
as that has not happened. What is said of lines and answers holds while `clean`. The sender ends with
one call after the other (sender.c:43-51): it removes the memory, then unlinks `empty`, `full` and
`rcv_to_snd`, and may be killed between any two of them, as the receiver may while it detaches
(receiver.c:45-48). After the removal nothing is started before both programs have ended; then
`start_over` makes the memory and the unlinked semaphores anew and finds those still in `names` as
they were left.

There is at most one turn at the memory (a killed program may take it with it) as long as `full` and
`empty` are equally old, which `whole` says. They are not when a sender that took part in a run with a
killed program is itself killed after `sem_unlink(EMPTY_PATH)` and before `sem_unlink(FULL_PATH)`: an
old `full` of 1 and a new `empty` of 1 are two turns. After a clean run the old semaphores are what new
ones would be, so that a sender cut short there does no harm. Both are in `MemInv`.

### Pipe

The pipe is counted in units: the first child writes `BUF` of them at a time, a message takes one
(in the code 8 KiB and 29 bytes; what matters is that both messages fit and that a message is less
than a block). O_NONBLOCK is one flag for all writers. A read that finds nothing returns -1
while someone has the write end open and 0 otherwise, for ever. An interrupt ends all four
processes and leaves the names that have not been unlinked with their values; `clean` says that the
run found them at 0. In a run that did not, a child may write before the pipe has been drained, and
the parent may read 0 for ever: the properties are about clean runs. Forks succeed.

## Runs

| run | asks | bounds |
|---|---|---|
| `disk` | are the chains, the copies, the image and the other files kept by every step; does every command end | 11 blocks, 3 of them for data, texts of up to 2 blocks; three blocks are enough for a chain that is extended, shortened, and has a neighbour; any block may be given to a command |
| `disk_reclaim` | is a removed file's space given back: no | 13 blocks, 5 of them for data |
| `contents` | is what `do_write` composes what was asked for, do chains hold it, in the middle of a write too, and do reads show it | 5 commands, 4 data blocks of 2 characters, 3 lines of 2 to 5, positions and lengths on and off block boundaries, texts of up to 3 blocks; two files so that chains interleave |
| `contents_append` | does append add at the end: only if the position is there | the same |
| `contents_read_part` | does `read -s` show what it is asked for: not across blocks | the same |
| `fs_commands` | do folders stay a tree; do lengths, chains, table and image agree | 6 commands on `a`, `b`, `a.d`, `b.d` in the root and on paths of two names, relative and absolute, with "." and "..", and through files; 2 data blocks, 3 slots in the table, entries for 2 names per folder, so that disk, table and folders are all full at times |
| `fs_exit_crash` | does exit save: it may crash before, or save an entry over another file's | 8 commands on `a`, `b`, `a.d`, `b.d` in the root |
| `message_queue` | turns, answers, removal, termination, `Turns` | 2 senders, 10 places as in the code, unbounded lines |
| `fake_queue` | what one process does that finds an empty queue, and one that does not | 2 senders, 3 processes one after the other, unbounded lines; the third may find what two others left |
| `shared_memory` | one turn, lines looked at once, removal, termination, `Handoff` | 5 different lines, unbounded number of them, 3 restarts |
| `shared_memory_exit` | does exit stop the sender: not always | the same |
| `pipe` | capacity, both messages, termination | capacity 5 and blocks of 2, so that the last block does not fit; 3 runs; 4 writes of the first child, one more than fill the pipe |

Deadlock is not checked where programs end or the user may stop typing; `CommandsReturn`,
`EveryoneEnds`, `FreshEnds`, `PipeEnds` and `ExitAnswered` say what must not get stuck.

Fairness: `Disk` asks that a command that has begun goes on; the modules of Lab 3 ask that each
thread or program that can take its next step takes it (weak fairness), which the
scheduler gives, and nothing of users, who need neither type nor start anything again, nor of the
order in which waiting threads get a semaphore.

## Proofs

What follows a chain, a path, the folders or a list of descriptors is defined by recursion (as a
recursive function), and what is said about it needs induction. The library's induction theorems
take an operator, which the provers cannot instantiate; the induction is therefore done with sets: a
set of naturals that is not empty has a least element (`LeastElement`), so that a set which has 0
and the successor of each number it has is all of them (`Induction`), and the recursive function
exists as a walk that obeys its equations (`WalkExists`). `ChainClosed`, `FindWalk`, `AbspathType`,
`CloseWalk` and `FolderWalk` do this once for `Chain`, `find_fcb`, `get_abspath`, `CloseAll` and
`FolderBlocks`; all other proofs use what they say.

* `DiskProofs`, first part, on the table: what `get_free` finds is free, and the layout after a format,
  for a disk of any size. `Chain` and `FolderBlocks` take as many rounds as the disk has blocks; that this is enough
  is a counting argument (`GrowthStops`: a set that grows by a block or more each round is soon the
  whole disk). `Partitioned` ("every chain ends, no two share a block, and they are all that is
  allocated") is not inductive in a usable way, as a step of a loop changes one entry and
  `Partitioned` speaks of whole chains. `Linked` says it entry by entry: no root is free, a
  link leads to a block that is in use, is no root and has no other link to it, and every block in
  use is on the chain of a root. The last part cannot be weakened to "is a root or linked to": blocks
  that link in a circle would pass, and be lost. `LinkedPartitioned` derives one from the other; one
  lemma for each change that a loop makes to the table (`LinkedAdd`, `LinkedExtend`, `LinkedCut`,
  `LinkedFreeFirst`) keeps `Linked`, and says which chains change and how (`ChainExtended`, `ChainCut`,
  `ChainRest`).
* `DiskProofs`, second part: `DiskInv` adds to `Linked` where `cur` is in each loop, that the system
  areas are where they belong, that the tables agree outside `do_write`, and how far the loop has come (`Progress`: as many blocks lie before `cur` as have been
  stored). From it, for every disk size, text length and value of the two bounds: `TypeOK`,
  `NoLeakNoShare`, `SavedIsSound`, `Mirrored`, and the action properties `NoCollateral` and
  `WrittenExactly`.
  All of it is of disks on which `set_free` has not been misled (`intact`): once it has, it may free
  entries of any area, the system's included, as run `disk_reclaim` shows.
* `ContentsProofs`: the bytes. It extends `DiskProofs`, and has four parts.
  - The n-th block of a chain (`BlockAtNext`, `BlockAtPlace`): it stays the same while the table agrees
    along the chain, no two are the same, and one more block of text is held when block n takes
    piece n and only it and its link change (`HoldsMore`).
  - The text of a chain and of a read: blocks put one after the other are the text (`FlattenHolds`), and
    `do_read`, round by round, has shown what `Shown` says: from the second round on it is at a block's
    beginning, so the count-down errs in the first round only, by twice the offset (`FirstShown`,
    `NextShown`).
  - The buffer of `do_write`: its first terminator stands where the text that is composed ends
    (`ComposedText`, for replacing, covering and appending, within the text and beyond it; `Strlen`).
  - `ContentsInv`: outside `do_write` each file is settled (its length is that of its text and its first
    `length \div BLOCK_SIZE + 1` blocks hold it); in the loops every other file is, `cur` is block
    `static_num - num` of the file, the blocks before it hold their pieces, and the buffer has the rest.
    `StoredText` alone is not inductive, as it is silent in the loops. What keeps the other files as
    they were comes from `Disk`: chains are disjoint and a write changes no entry of another one
    (`OthersUntouched`). There is one lemma for each command and each step of the loops (`CreateSound`
    to `TrimSound`).

  From it `StoredText`, `ReadsRight` and `WritesMeant`, for every size of disk and block, bound on texts, set of files and characters, lines, positions and lengths
  the user may type, and number of commands.
* `FsProofs`: `FsTypeOK` for all names, paths, slots and tables, also where a path goes through blocks
  that are no folders. That a step of the commands is one of `Disk`'s (`FsDrives`) or leaves it alone
  is how they are written, and only a lemma.
* `TreeProofs`: `FsInv`, the inductive invariant of the commands, which run `fs_commands` checks too. It
  says of an undamaged and tidy disk, and of images saved from one:
  - the folders form a tree whose items correspond one to one to the areas (`TreeOf`), and "." and ".."
    are in a folder's first two slots and nowhere else (`DotsFirst`), without which a path that ends in
    ".." could name an entry that is no folder's;
  - every slot in use is of an item of its kind, with its name if it is a file, and with its length
    unless `fcb_state` says otherwise; no two are of the same file; while the disk is
    saved they are all the root's (`TableSound`), so that no length is only in the table;
  - in the loops of `do_write`, that the slot at work is of the file at work (`DoWriteSound`);
  - every length that counts is that of the chain, but for the file at work (`SizesSound`).

  It rests on what the commands do to a tree in general: an entry is added (`TreeGrows`), one is
  removed (`TreeShrinks`), entries change in their lengths only (`TreeAlike`), a path that goes through
  folders ends in one of their entries (`PathEnds`), and a list of descriptors that are not stale
  writes each entry from a slot of its own file (`CloseAllWrites`). Then there is one lemma for each
  command, iteration, save and death (`CdStays` to `TornStays`). From it `TreeSound`,
  `OpenLive`, `SizesAgree` and `SavedTree`, for every disk size, number of entries in a folder and of
  slots in the table, set of names and paths, lengths of texts and number of commands.
* `QueueProofs`: the single turn is at one of a list of stages; each stage fixes the semaphores,
  the queue and the labels (`QueueInv`). From it the answers, the removal, one line at a time, and
  the refinement of `Turns`, for any number of senders.
* `FakeProofs`: two invariants side by side. For a process that found the queue empty, the stages of
  the turn, with `must_stop` the number of senders whose exit is unanswered (`FreshInv`): from it the
  bounds of the semaphores, that only the last answer can be lost, and that every step is one of
  `Turns`. For any process until someone says exit, how many messages are in the queue beyond
  those left there (`LateInv`): from it how late lines are shown. For any number of senders and runs.
* `MemoryProofs`: at most one turn at the memory, whoever is killed, while the semaphores of the turn
  are equally old, and while nobody is killed the three stages of the exchange (`MemInv`); from it the removal and the refinement of `Handoff`, for any
  set of lines and number of restarts.
* `PipeProofs`: a run has two halves. While the first child fills the pipe, it holds zeros only, as
  many as have been written or as fit; afterwards each of the
  `write_mutex`, the two messages and the two `read_mutex`es is in one of the places the labels
  allow, and the pipe holds the messages of those who have written. From it `TypeOK`, `BothMessages`
  and `SpaceMeasured`, for pipes and blocks of any size, with the one assumption that both messages
  fit.

Assumptions are those on the constants, next to their declaration; `NamesAssumption` says that
what stands before the dot of a name a user types is neither "." nor ".." nor the mark for text.
`Contents` asks that a line ends with a newline and has no terminator in it, and that no length is
typed that is longer than the buffers of a write or a read; the code looks at neither, nor at a
position below 0 or a text that ends beyond the buffer, and what it does then is outside the disk and
outside of what is modelled.

Every invariant and action property that a run checks is proved. Only model-checked is liveness
(`CommandsReturn`, `EveryoneEnds`, `LinesAttended`, `FreshEnds`, `ExitAnswered`, `PipeEnds`), which the
prover cannot do under fairness, and the disagreements of the violation runs.

## Findings

`set_free` does not give back files of two blocks; exit may crash before it saves, or save an old
entry over a new file; `write -a` puts its text at the position and not at the end, and cuts off what
followed; `read -s` shows twice the offset too little when it leaves the block it starts in, or dies;
the sender of Exp3_4 may wait for ever after exit. Each has a run that shows the steps.

Each of these takes one command from a sound disk, at the action that is not `tidy`, and has no run:

* `close -a` sets the slots free and saves no length (simplefs.c:743), where the comment says "Close file
  and save it." (726-727);
* a file that `open` reports as open is opened again (693-698): the `continue` is the inner loop's;
* `rmdir` says that "." and ".." are read only (319) and compares the argument only (318): `rmdir /a/.`
  and `rmdir /a/..` take the entries out of `a`'s own block and free the block they are of.

Modelled as the code has them and stated in the properties, as no text of the repository says
otherwise: the last answer of Exp3_3_fake may be lost (`OnlyLastAnswerLost`, where the CHECK on the
sender's `msgrcv` then fails); a sender of Exp3_4 killed between two `sem_unlink`s may leave
two turns (`MemInv`).

Comments that the code does not keep to, without a run as nothing depends on them: simplefs.c:1111,
by which `get_free` returns 0 without space, and simplefs.h:55, by which a length counts blocks.

## Plan

The block store was modelled first, then the commands over it, Exp3_3 and Exp3_4, contents, Exp3_2
and Exp3_3_fake, and the programs that are killed and started again; proofs followed in the same order.
What could come next:

* commands with several paths, and killed processes for `MessageQueue`, where the same happens as in
  `FakeQueue`.

## Not modelled

* What `create` keeps of its last argument's parent path (`simplefs.c:513`): it takes a command with two
  paths, the first two folders deep, and a folder of the same name in the second, which is more
  folders than instances that TLC can finish have blocks.
* Listings and dates (`my_ls`, `my_pwd`, `trans_date`, `trans_time`), truncation of names and paths
  to their fields.
* Splitting of command lines in Lab5's `main.c` and what it does at the end of the input; Exp3_1, the
  same dispatch loop without any state.
* Lab1 and Lab2: single calls into a kernel that is not part of the repository, so that neither what
  they read nor what may happen meanwhile can be translated from source.
