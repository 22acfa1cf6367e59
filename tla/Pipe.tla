-------------------------------- MODULE Pipe --------------------------------
(***************************************************************************)
(* Lab 3, Exp3_2: a parent and three children with one pipe and three      *)
(* named semaphores.  Child 1 fills the pipe to find out how much it       *)
(* holds, the parent drains it, then children 2 and 3 write a message each *)
(* and the parent reads both.  The label of a process names the call it is *)
(* at.  What a pipe holds is counted in units: child 1 writes BUF of them  *)
(* at a time, a message takes one.                                         *)
(*                                                                         *)
(* The semaphores have names and outlive a run that is interrupted before  *)
(* it has unlinked them.  An interrupt (Ctrl-C) ends all four processes.   *)
(* Forks succeed, and units are never shared by two writes.                *)
(***************************************************************************)
EXTENDS Integers, Sequences

CONSTANTS
  Capacity,     \* what the pipe holds, 64 KiB on Linux
  BUF,          \* BUF_MAX_SIZE, 8 KiB
  MaxRuns,      \* bound: how often the program is started
  MaxWrites     \* bound: writes of child 1 (a parent that reads meanwhile
                \* would keep it writing)

ASSUME CapacityAssumption == Capacity \in Nat /\ Capacity >= 2   \* both messages fit
ASSUME BUFAssumption == BUF \in Nat /\ BUF >= 2
ASSUME BoundsAssumption == MaxRuns \in Nat \ {0} /\ MaxWrites \in Nat

VARIABLES
  sem,         \* the semaphores' values
  unlinked,    \* the names that the parent has removed
  pipe,        \* what is in the pipe, oldest first
  nonblocking, \* O_NONBLOCK on the pipe's write end, which all share
  parent,      \* where the parent is
  child,       \* where each child is
  count,       \* writes of child 1 so far
  space,       \* what child 1 has printed, in units
  drained,     \* what the parent's loop has read
  printed,     \* what the parent has printed
  runs,        \* how often the program has been started
  clean        \* history: the semaphores were 0 when it was started last

vars == <<sem, unlinked, pipe, nonblocking, parent, child, count, space,
          drained, printed, runs, clean>>

Names == {"write_mutex", "read_mutex1", "read_mutex2"}
Children == 1..3
Talkers == {2, 3}
read_mutex(c) == IF c = 2 THEN "read_mutex1" ELSE "read_mutex2"

ParentLabels ==
  {"fork1", "fork2", "fork3", "wait", "close", "read", "V(write_mutex)",
   "P(read_mutex1)", "P(read_mutex2)", "read_last",
   "unlink1", "unlink2", "unlink3", "done"}
ChildLabels ==
  {"unforked", "fcntl", "P(write_mutex)", "close", "write", "printf",
   "V(write_mutex)", "V(read_mutex)", "exited"}

Message(c) == IF c = 2 THEN "second" ELSE "third"
Units == {"zeros", "second", "third"}

Init ==
  /\ sem = [n \in Names |-> 0] /\ unlinked = {} /\ clean = TRUE
  /\ pipe = <<>> /\ nonblocking = FALSE
  /\ parent = "fork1" /\ child = [c \in Children |-> "unforked"]
  /\ count = 0 /\ space = 0 /\ drained = {} /\ printed = <<>>
  /\ runs = 1

room == Capacity - Len(pipe)

(* The ends of the pipe that are still open.  A child closes its read end  *)
(* with its first call, or once it has the write_mutex.                    *)
ReadEndOpen ==
  parent # "done" \/ \E c \in Children : child[c] \in {"fcntl", "P(write_mutex)", "close"}
WriteEndOpen ==
  \/ parent \in {"fork1", "fork2", "fork3", "wait", "close"}
  \/ \E c \in Children : child[c] \notin {"unforked", "exited"}

goes(from, to)          == parent = from /\ parent' = to
child_goes(c, from, to) == child[c] = from /\ child' = [child EXCEPT ![c] = to]
P(n) == sem[n] > 0 /\ sem' = [sem EXCEPT ![n] = @ - 1]
V(n) == sem' = [sem EXCEPT ![n] = @ + 1]
SameRun == UNCHANGED <<runs, clean>>
-----------------------------------------------------------------------------
(* Child 1 *)

set_nonblocking ==
  /\ child_goes(1, "fcntl", "write")
  /\ nonblocking' = TRUE
  /\ UNCHANGED <<sem, unlinked, pipe, parent, count, space, drained, printed>> /\ SameRun

(* A write that does not fit is cut short, and counted as a whole one.     *)
fill ==
  /\ child_goes(1, "write", "write")
  /\ ReadEndOpen /\ room > 0 /\ count < MaxWrites
  /\ pipe' = pipe \o [i \in 1..(IF BUF < room THEN BUF ELSE room) |-> "zeros"]
  /\ count' = count + 1
  /\ UNCHANGED <<sem, unlinked, nonblocking, parent, space, drained, printed>> /\ SameRun

filled ==
  /\ child_goes(1, "write", "printf")
  /\ ReadEndOpen /\ room = 0
  /\ UNCHANGED <<sem, unlinked, pipe, nonblocking, parent, count, space, drained, printed>>
  /\ SameRun

print_space ==
  /\ child_goes(1, "printf", "exited")
  /\ space' = count * BUF
  /\ UNCHANGED <<sem, unlinked, pipe, nonblocking, parent, count, drained, printed>> /\ SameRun
-----------------------------------------------------------------------------
(* Children 2 and 3 *)

(* A bug the checks must notice: the child does not wait. *)
await_pipe_not(c) ==
  /\ child_goes(c, "P(write_mutex)", "close")
  /\ UNCHANGED <<sem, unlinked, pipe, nonblocking, parent, count, space, drained, printed>>
  /\ SameRun

await_pipe(c) ==
  /\ child_goes(c, "P(write_mutex)", "close")
  /\ P("write_mutex")
  /\ UNCHANGED <<unlinked, pipe, nonblocking, parent, count, space, drained, printed>>
  /\ SameRun

close_read_end(c) ==
  /\ c \in Talkers /\ child_goes(c, "close", "write")
  /\ UNCHANGED <<sem, unlinked, pipe, nonblocking, parent, count, space, drained, printed>>
  /\ SameRun

(* Its result is printed and otherwise ignored: when the pipe is full and  *)
(* child 1 has set O_NONBLOCK, the message is lost.                        *)
write(c) ==
  /\ c \in Talkers /\ child_goes(c, "write", "V(write_mutex)")
  /\ ReadEndOpen
  /\ \/ room > 0 /\ pipe' = Append(pipe, Message(c))
     \/ room = 0 /\ nonblocking /\ UNCHANGED pipe
  /\ UNCHANGED <<sem, unlinked, nonblocking, parent, count, space, drained, printed>>
  /\ SameRun

(* A bug the checks must notice: the write_mutex is kept. *)
give_pipe_not(c) ==
  /\ child_goes(c, "V(write_mutex)", "V(read_mutex)")
  /\ UNCHANGED <<sem, unlinked, pipe, nonblocking, parent, count, space, drained, printed>>
  /\ SameRun

give_pipe(c) ==
  /\ child_goes(c, "V(write_mutex)", "V(read_mutex)")
  /\ V("write_mutex")
  /\ UNCHANGED <<unlinked, pipe, nonblocking, parent, count, space, drained, printed>>
  /\ SameRun

announce(c) ==
  /\ child_goes(c, "V(read_mutex)", "exited")
  /\ V(read_mutex(c))
  /\ UNCHANGED <<unlinked, pipe, nonblocking, parent, count, space, drained, printed>>
  /\ SameRun

(* SIGPIPE ends a child that writes when nobody can read any more. *)
sigpipe(c) ==
  /\ child_goes(c, "write", "exited")
  /\ ~ReadEndOpen
  /\ UNCHANGED <<sem, unlinked, pipe, nonblocking, parent, count, space, drained, printed>>
  /\ SameRun
-----------------------------------------------------------------------------
(* The parent *)

fork ==
  /\ \/ goes("fork1", "fork2") /\ child' = [child EXCEPT ![1] = "fcntl"]
     \/ goes("fork2", "fork3") /\ child' = [child EXCEPT ![2] = "P(write_mutex)"]
     \/ goes("fork3", "wait")  /\ child' = [child EXCEPT ![3] = "P(write_mutex)"]
  /\ UNCHANGED <<sem, unlinked, pipe, nonblocking, count, space, drained, printed>> /\ SameRun

(* A bug the checks must notice: the parent waits for nobody. *)
wait_not ==
  /\ goes("wait", "close")
  /\ UNCHANGED <<sem, unlinked, pipe, nonblocking, child, count, space, drained, printed>>
  /\ SameRun

(* wait(0) returns when any child has exited. *)
wait ==
  /\ goes("wait", "close")
  /\ \E c \in Children : child[c] = "exited"
  /\ UNCHANGED <<sem, unlinked, pipe, nonblocking, child, count, space, drained, printed>>
  /\ SameRun

(* close of the write end, and O_NONBLOCK for the parent's own reads. *)
close ==
  /\ goes("close", "read")
  /\ UNCHANGED <<sem, unlinked, pipe, nonblocking, child, count, space, drained, printed>>
  /\ SameRun

available == IF BUF < Len(pipe) THEN BUF ELSE Len(pipe)

drain ==
  /\ goes("read", "read")
  /\ pipe # <<>>
  /\ drained' = drained \cup {pipe[i] : i \in 1..available}
  /\ pipe' = SubSeq(pipe, available + 1, Len(pipe))
  /\ UNCHANGED <<sem, unlinked, nonblocking, child, count, space, printed>> /\ SameRun

(* A bug the checks must notice: the loop ends with the first block. *)
drained_all_once ==
  /\ goes("read", "V(write_mutex)")
  /\ pipe = <<>> \/ drained # {}
  /\ UNCHANGED <<sem, unlinked, pipe, nonblocking, child, count, space, drained, printed>>
  /\ SameRun

(* read is -1 only while someone could still write.  When nobody can it is *)
(* 0, and the loop goes on for ever.                                       *)
drained_all ==
  /\ goes("read", "V(write_mutex)")
  /\ pipe = <<>> /\ WriteEndOpen
  /\ UNCHANGED <<sem, unlinked, pipe, nonblocking, child, count, space, drained, printed>>
  /\ SameRun

let_write ==
  /\ goes("V(write_mutex)", "P(read_mutex1)") /\ V("write_mutex")
  /\ UNCHANGED <<unlinked, pipe, nonblocking, child, count, space, drained, printed>>
  /\ SameRun

await_messages ==
  /\ \/ goes("P(read_mutex1)", "P(read_mutex2)") /\ P("read_mutex1")
     \/ goes("P(read_mutex2)", "read_last")      /\ P("read_mutex2")
  /\ UNCHANGED <<unlinked, pipe, nonblocking, child, count, space, drained, printed>>
  /\ SameRun

read_last ==
  /\ goes("read_last", "unlink1")
  /\ printed' = SubSeq(pipe, 1, available)
  /\ pipe' = SubSeq(pipe, available + 1, Len(pipe))
  /\ UNCHANGED <<sem, unlinked, nonblocking, child, count, space, drained>> /\ SameRun

unlink ==
  /\ \/ goes("unlink1", "unlink2") /\ unlinked' = unlinked \cup {"write_mutex"}
     \/ goes("unlink2", "unlink3") /\ unlinked' = unlinked \cup {"read_mutex1"}
     \/ goes("unlink3", "done")    /\ unlinked' = unlinked \cup {"read_mutex2"}
  /\ UNCHANGED <<sem, pipe, nonblocking, child, count, space, drained, printed>> /\ SameRun
-----------------------------------------------------------------------------
(* The program is interrupted, or has ended, and is started again.  A name *)
(* that was not unlinked still has the value it had.                       *)
start_again ==
  /\ runs < MaxRuns /\ runs' = runs + 1
  /\ sem' = [n \in Names |-> IF n \in unlinked THEN 0 ELSE sem[n]]
  /\ clean' = (\A n \in Names : sem'[n] = 0)
  /\ unlinked' = {} /\ pipe' = <<>> /\ nonblocking' = FALSE
  /\ parent' = "fork1" /\ child' = [c \in Children |-> "unforked"]
  /\ count' = 0 /\ space' = 0 /\ drained' = {} /\ printed' = <<>>

Child1Step == set_nonblocking \/ fill \/ filled \/ print_space \/ sigpipe(1)
TalkerStep(c) ==
  await_pipe(c) \/ close_read_end(c) \/ write(c) \/ give_pipe(c) \/ announce(c) \/ sigpipe(c)
ParentStep ==
  fork \/ wait \/ close \/ drain \/ drained_all \/ let_write \/ await_messages
    \/ read_last \/ unlink

Next == Child1Step \/ (\E c \in Talkers : TalkerStep(c)) \/ ParentStep \/ start_again

Spec == Init /\ [][Next]_vars

(* The processes run.  Nobody need start the program again. *)
FairSpec ==
  /\ Spec
  /\ WF_vars(Child1Step) /\ WF_vars(ParentStep)
  /\ \A c \in Talkers : WF_vars(TalkerStep(c))
-----------------------------------------------------------------------------
(* Properties *)

(* No more is in the pipe than it holds.  In a clean run the write_mutex   *)
(* and the children that have it are one turn, given out once the parent's *)
(* loop has ended.                                                         *)
Holding(c) == child[c] \in {"close", "write", "V(write_mutex)"}
Drained == parent \notin {"fork1", "fork2", "fork3", "wait", "close", "read", "V(write_mutex)"}
OneTurn ==
  /\ sem["write_mutex"] \in 0..1
  /\ \A c \in Talkers : Holding(c) => Drained /\ sem["write_mutex"] = 0
  /\ ~(Holding(2) /\ Holding(3))

Typed ==
  /\ sem \in [Names -> Nat] /\ unlinked \subseteq Names
  /\ pipe \in Seq(Units) /\ Len(pipe) <= Capacity /\ nonblocking \in BOOLEAN
  /\ parent \in ParentLabels /\ child \in [Children -> ChildLabels]
  /\ count \in 0..MaxWrites /\ space \in Nat
  /\ drained \subseteq Units /\ printed \in Seq(Units)
  /\ runs \in 1..MaxRuns /\ clean \in BOOLEAN

TypeOK == Typed /\ (clean => OneTurn)

(* In a run that found its semaphores new or at 0, the last read (main.c:  *)
(* 112) gets both messages and nothing else: all that child 1 wrote was    *)
(* read before, and nothing of the other two (main.c:72-110).              *)
BothMessages ==
  clean /\ parent \in {"unlink1", "unlink2", "unlink3", "done"} =>
    /\ printed \in {<<"second", "third">>, <<"third", "second">>}
    /\ drained = {"zeros"} /\ pipe = <<>>

(* What child 1 prints is the pipe's capacity, rounded up to whole writes, *)
(* and it has printed it before the parent takes anything out, though the  *)
(* parent waits for any child (main.c:56-69, 95).                          *)
SpaceMeasured ==
  clean /\ (parent = "read" \/ child[1] = "exited")
    => child[1] = "exited" /\ space >= Capacity /\ space - BUF < Capacity

(* A clean run ends unless it is interrupted: the parent has read and all  *)
(* children have exited.                                                   *)
PipeEnds ==
  \A r \in 1..MaxRuns :
    clean /\ runs = r
      ~> runs # r \/ (parent = "done" /\ \A c \in Children : child[c] = "exited")
=============================================================================
