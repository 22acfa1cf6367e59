----------------------------- MODULE PipeProofs -----------------------------
(***************************************************************************)
(* Proofs about Pipe for a pipe and blocks of any size: what a run that    *)
(* found its semaphores at 0 measures and prints.  Such a run has two      *)
(* halves: child 1 fills the pipe and the parent drains it while the other *)
(* children wait, and then those write, one at a time.                     *)
(***************************************************************************)
EXTENDS Pipe, SequenceTheorems, TLAPS

Forking == {"fork1", "fork2", "fork3", "wait"}
Measured == child[1] = "exited" /\ space >= Capacity /\ space - BUF < Capacity

(* How far child 1 and the parent's loop have come with the zeros. *)
Level ==
  \/ /\ parent \in Forking /\ child[1] \in {"unforked", "fcntl"}
     /\ parent = "fork1" => child[1] = "unforked"
     /\ count = 0 /\ Len(pipe) = 0 /\ drained = {}
  \/ /\ parent \in Forking \ {"fork1"} /\ child[1] = "write" /\ drained = {}
     /\ Len(pipe) = IF count * BUF < Capacity THEN count * BUF ELSE Capacity
     /\ count * BUF - BUF < Capacity
  \/ /\ parent \in Forking \ {"fork1"} /\ child[1] = "printf" /\ drained = {}
     /\ Len(pipe) = Capacity
     /\ Capacity <= count * BUF /\ count * BUF - BUF < Capacity
  \/ /\ parent \in (Forking \ {"fork1"}) \cup {"close", "read"} /\ Measured
     /\ Len(pipe) = Capacity /\ drained = {}
  \/ /\ parent = "read" /\ Measured /\ drained = {"zeros"}
  \/ /\ parent = "V(write_mutex)" /\ Measured /\ Len(pipe) = 0 /\ drained = {"zeros"}

Filling ==
  /\ ~Drained /\ printed = <<>>
  /\ \A n \in Names : sem[n] = 0
  /\ \A c \in Talkers : child[c] \in {"unforked", "P(write_mutex)"}
  /\ \A i \in 1..Len(pipe) : pipe[i] = "zeros"
  /\ Level

Wrote(c) == child[c] \in {"V(write_mutex)", "V(read_mutex)", "exited"}
MessagesIn(q) ==
  \/ ~Wrote(2) /\ ~Wrote(3) /\ q = <<>>
  \/ Wrote(2) /\ ~Wrote(3) /\ q = <<"second">>
  \/ ~Wrote(2) /\ Wrote(3) /\ q = <<"third">>
  \/ Wrote(2) /\ Wrote(3) /\ q \in {<<"second", "third">>, <<"third", "second">>}

(* Each child has one post of its read_mutex, which the parent takes. *)
Posts ==
  /\ sem["read_mutex1"] = IF child[2] = "exited" /\ parent = "P(read_mutex1)" THEN 1 ELSE 0
  /\ sem["read_mutex2"] =
       IF child[3] = "exited" /\ parent \in {"P(read_mutex1)", "P(read_mutex2)"} THEN 1 ELSE 0
  /\ parent # "P(read_mutex1)" => child[2] = "exited"
  /\ parent \notin {"P(read_mutex1)", "P(read_mutex2)"} => child[3] = "exited"

BeforeLast == parent \in {"P(read_mutex1)", "P(read_mutex2)", "read_last"}

Writing ==
  /\ Drained /\ Measured /\ drained = {"zeros"}
  /\ sem["write_mutex"] = IF Holding(2) \/ Holding(3) THEN 0 ELSE 1
  /\ ~(Holding(2) /\ Holding(3))
  /\ Posts
  /\ IF BeforeLast THEN printed = <<>> /\ MessagesIn(pipe)
                   ELSE pipe = <<>> /\ MessagesIn(printed)

Inv == Typed /\ (clean => Filling \/ Writing)
-----------------------------------------------------------------------------
(* What the calls do to the pipe. *)

LEMMA Constants == Capacity \in Nat /\ Capacity >= 2 /\ BUF \in Nat /\ BUF >= 2 /\ MaxWrites \in Nat /\ MaxRuns \in Nat /\ MaxRuns > 0
BY CapacityAssumption, BUFAssumption, BoundsAssumption

(* A block of zeros that fits, or what fits of it, is put behind the rest. *)
LEMMA FillPipe ==
  ASSUME NEW s \in Seq(Units), NEW k \in Nat
  PROVE  LET t == s \o [i \in 1..k |-> "zeros"] IN
           /\ t \in Seq(Units) /\ Len(t) = Len(s) + k
           /\ (\A i \in 1..Len(s) : s[i] = "zeros") => \A i \in 1..Len(t) : t[i] = "zeros"
<1> DEFINE z == [i \in 1..k |-> "zeros"]
           t == s \o z
<1>1. z \in Seq(Units) /\ Len(z) = k
  BY DEF Units
<1>2. /\ t \in Seq(Units) /\ Len(t) = Len(s) + k
      /\ \A i \in 1..(Len(s) + k) : t[i] = IF i <= Len(s) THEN s[i] ELSE z[i - Len(s)]
  <2> HIDE DEF z
  <2> QED
    BY <1>1, ConcatProperties
<1>3. Len(s) \in Nat
  BY LenProperties
<1>4. ASSUME \A i \in 1..Len(s) : s[i] = "zeros", NEW i \in 1..Len(t)
      PROVE  t[i] = "zeros"
  <2>1. CASE i <= Len(s)
    BY <1>2, <1>3, <1>4, <2>1
  <2>2. CASE ~(i <= Len(s))
    <3>1. i - Len(s) \in 1..k
      BY <1>2, <1>3, <2>2
    <3>2. z[i - Len(s)] = "zeros"
      BY <3>1
    <3> QED
      BY <1>2, <2>2, <3>2
  <2> QED
    BY <2>1, <2>2
<1> QED
  BY <1>2, <1>4

(* read takes what there is, up to a block, from the front. *)
LEMMA DrainPipe ==
  ASSUME pipe \in Seq(Units)
  PROVE  LET t == SubSeq(pipe, available + 1, Len(pipe)) IN
           /\ available \in 0..Len(pipe) /\ (Len(pipe) > 0 => available > 0)
           /\ t \in Seq(Units) /\ Len(t) = Len(pipe) - available
           /\ \A i \in 1..Len(t) : t[i] = pipe[i + available]
           /\ SubSeq(pipe, 1, available) \in Seq(Units)
           /\ \A i \in 1..available : pipe[i] \in Units
<1>1. Len(pipe) \in Nat /\ \A i \in 1..Len(pipe) : pipe[i] \in Units
  BY LenProperties, ElementOfSeq
<1>2. available \in 0..Len(pipe) /\ (Len(pipe) > 0 => available > 0)
  BY <1>1, Constants DEF available
<1>3. \A i \in (available + 1)..Len(pipe) : pipe[i] \in Units
  BY <1>1, <1>2
<1>4. \A i \in 1..available : pipe[i] \in Units
  BY <1>1, <1>2
<1> DEFINE t == SubSeq(pipe, available + 1, Len(pipe))
<1>5. /\ t \in Seq(Units)
      /\ Len(t) = IF available + 1 <= Len(pipe) THEN Len(pipe) - (available + 1) + 1 ELSE 0
      /\ \A i \in 1..(Len(pipe) - (available + 1) + 1) : t[i] = pipe[(available + 1) + i - 1]
  BY <1>1, <1>2, <1>3, SubSeqProperties
<1>6. Len(t) = Len(pipe) - available
  BY <1>1, <1>2, <1>5
<1>7. \A i \in 1..Len(t) : t[i] = pipe[i + available]
  BY <1>1, <1>2, <1>5, <1>6
<1>8. SubSeq(pipe, 1, available) \in Seq(Units)
  BY <1>2, <1>4, SubSeqProperties
<1> QED
  BY <1>2, <1>4, <1>5, <1>6, <1>7, <1>8

(* After the last read of up to two messages nothing is left. *)
LEMMA LastRead ==
  ASSUME pipe \in Seq(Units), Len(pipe) <= 2
  PROVE  SubSeq(pipe, 1, available) = pipe /\ SubSeq(pipe, available + 1, Len(pipe)) = <<>>
<1>1. Len(pipe) \in Nat
  BY LenProperties
<1>2. available = Len(pipe)
  BY <1>1, Constants DEF available
<1>3. SubSeq(pipe, 1, Len(pipe)) = pipe
  BY SubSeqFull
<1>4. SubSeq(pipe, Len(pipe) + 1, Len(pipe)) = <<>>
  BY <1>1, SubSeqEmpty
<1> QED
  BY <1>2, <1>3, <1>4

LEMMA Written == ASSUME NEW n \in Nat PROVE n * BUF \in Nat /\ (n + 1) * BUF = n * BUF + BUF
BY Constants
-----------------------------------------------------------------------------
(* Types *)

LEMMA TypedInit == Init => Typed
<1> SUFFICES ASSUME Init PROVE Typed
  OBVIOUS
<1>1. sem \in [Names -> Nat] /\ unlinked \subseteq Names
  BY DEF Init
<1>2. child \in [Children -> ChildLabels] /\ parent \in ParentLabels
  BY DEF Init, ChildLabels, ParentLabels
<1>3. pipe \in Seq(Units) /\ Len(pipe) <= Capacity /\ printed \in Seq(Units)
  BY EmptySeq, Constants DEF Init
<1>4. runs \in 1..MaxRuns /\ count \in 0..MaxWrites /\ space \in Nat /\ drained \subseteq Units
  BY Constants DEF Init
<1>5. clean \in BOOLEAN /\ nonblocking \in BOOLEAN
  BY DEF Init
<1> QED
  BY <1>1, <1>2, <1>3, <1>4, <1>5 DEF Typed

LEMMA ChildTyped ==
  ASSUME Typed, NEW c \in Children, NEW from, NEW to \in ChildLabels, child_goes(c, from, to)
  PROVE  child' \in [Children -> ChildLabels]
BY DEF Typed, child_goes

LEMMA SemTyped ==
  ASSUME Typed, NEW n \in Names, P(n) \/ V(n)
  PROVE  sem' \in [Names -> Nat]
<1>1. CASE P(n)
  BY <1>1 DEF Typed, P
<1>2. CASE V(n)
  BY <1>2 DEF Typed, V
<1> QED
  BY <1>1, <1>2

LEMMA Child1Typed == Typed /\ Child1Step => Typed'
<1> SUFFICES ASSUME Typed, Child1Step PROVE Typed'
  OBVIOUS
<1>1. 1 \in Children
  BY DEF Children
<1>2. CASE set_nonblocking
  BY <1>1, <1>2, ChildTyped DEF set_nonblocking, SameRun, Typed, ChildLabels
<1>3. CASE fill
  <2>1. Len(pipe) \in Nat
    BY LenProperties DEF Typed
  <2> DEFINE k == IF BUF < room THEN BUF ELSE room
  <2>2. k \in Nat /\ Len(pipe) + k <= Capacity
    BY <1>3, <2>1, Constants DEF fill, room
  <2>3. pipe' \in Seq(Units) /\ Len(pipe') = Len(pipe) + k
    <3> HIDE DEF k
    <3> pipe' = pipe \o [i \in 1..k |-> "zeros"]
      BY <1>3 DEF fill, k
    <3> QED
      BY <2>2, FillPipe DEF Typed
  <2>4. child' \in [Children -> ChildLabels]
    BY <1>1, <1>3, ChildTyped DEF fill, ChildLabels
  <2>5. count' \in 0..MaxWrites
    BY <1>3, Constants DEF fill, Typed
  <2> QED
    BY <1>3, <2>2, <2>3, <2>4, <2>5 DEF fill, SameRun, Typed
<1>4. CASE filled
  BY <1>1, <1>4, ChildTyped DEF filled, SameRun, Typed, ChildLabels
<1>5. CASE print_space
  <2>1. space' \in Nat
    BY <1>5, Written, Constants DEF print_space, Typed
  <2> QED
    BY <1>1, <1>5, <2>1, ChildTyped DEF print_space, SameRun, Typed, ChildLabels
<1>6. CASE sigpipe(1)
  BY <1>1, <1>6, ChildTyped DEF sigpipe, SameRun, Typed, ChildLabels
<1> QED
  BY <1>2, <1>3, <1>4, <1>5, <1>6 DEF Child1Step

LEMMA TalkerTyped == ASSUME Typed, NEW c \in Talkers, TalkerStep(c) PROVE Typed'
<1>1. c \in Children /\ read_mutex(c) \in Names /\ "write_mutex" \in Names
  BY DEF Talkers, Children, read_mutex, Names
<1>2. CASE await_pipe(c)
  BY <1>1, <1>2, ChildTyped, SemTyped DEF await_pipe, SameRun, Typed, ChildLabels
<1>3. CASE close_read_end(c)
  BY <1>1, <1>3, ChildTyped DEF close_read_end, SameRun, Typed, ChildLabels
<1>4. CASE write(c)
  <2>1. Message(c) \in Units
    BY DEF Message, Units
  <2>2. pipe' \in Seq(Units) /\ Len(pipe') <= Capacity
    <3>1. CASE room > 0 /\ pipe' = Append(pipe, Message(c))
      BY <2>1, <3>1, LenProperties, AppendProperties, Constants DEF room, Typed
    <3>2. CASE UNCHANGED pipe
      BY <3>2 DEF Typed
    <3> QED
      BY <1>4, <3>1, <3>2 DEF write
  <2> QED
    BY <1>1, <1>4, <2>2, ChildTyped DEF write, SameRun, Typed, ChildLabels
<1>5. CASE give_pipe(c)
  BY <1>1, <1>5, ChildTyped, SemTyped DEF give_pipe, SameRun, Typed, ChildLabels
<1>6. CASE announce(c)
  BY <1>1, <1>6, ChildTyped, SemTyped DEF announce, SameRun, Typed, ChildLabels
<1>7. CASE sigpipe(c)
  BY <1>1, <1>7, ChildTyped DEF sigpipe, SameRun, Typed, ChildLabels
<1> QED
  BY <1>2, <1>3, <1>4, <1>5, <1>6, <1>7 DEF TalkerStep

LEMMA ParentTyped == Typed /\ ParentStep => Typed'
<1> SUFFICES ASSUME Typed, ParentStep PROVE Typed'
  OBVIOUS
<1>1. "write_mutex" \in Names /\ "read_mutex1" \in Names /\ "read_mutex2" \in Names
  BY DEF Names
<1>2. CASE fork
  <2>1. child' \in [Children -> ChildLabels]
    BY <1>2 DEF fork, Typed, Children, ChildLabels
  <2>2. parent' \in ParentLabels
    BY <1>2 DEF fork, goes, ParentLabels
  <2> QED
    BY <1>2, <2>1, <2>2 DEF fork, SameRun, Typed
<1>3. CASE wait
  BY <1>3 DEF wait, goes, SameRun, Typed, ParentLabels
<1>4. CASE close
  BY <1>4 DEF close, goes, SameRun, Typed, ParentLabels
<1>5. CASE drain
  <2>1. pipe' \in Seq(Units) /\ Len(pipe') <= Capacity
    BY <1>5, DrainPipe, LenProperties, Constants DEF drain, Typed
  <2>2. drained' \subseteq Units
    BY <1>5, DrainPipe DEF drain, Typed
  <2> QED
    BY <1>5, <2>1, <2>2 DEF drain, goes, SameRun, Typed, ParentLabels
<1>6. CASE drained_all
  BY <1>6 DEF drained_all, goes, SameRun, Typed, ParentLabels
<1>7. CASE let_write
  BY <1>1, <1>7, SemTyped DEF let_write, goes, SameRun, Typed, ParentLabels
<1>8. CASE await_messages
  <2>1. sem' \in [Names -> Nat]
    BY <1>1, <1>8, SemTyped DEF await_messages
  <2>2. parent' \in ParentLabels
    BY <1>8 DEF await_messages, goes, ParentLabels
  <2> QED
    BY <1>8, <2>1, <2>2 DEF await_messages, SameRun, Typed
<1>9. CASE read_last
  <2> DEFINE t == SubSeq(pipe, available + 1, Len(pipe))
  <2>2. /\ t \in Seq(Units) /\ Len(t) = Len(pipe) - available
        /\ available \in 0..Len(pipe) /\ SubSeq(pipe, 1, available) \in Seq(Units)
    BY DrainPipe DEF Typed
  <2>3. Len(pipe) \in Nat /\ Len(pipe) <= Capacity
    BY LenProperties DEF Typed
  <2>1. pipe' \in Seq(Units) /\ Len(pipe') <= Capacity /\ printed' \in Seq(Units)
    <3>1. Len(t) <= Capacity
      BY <2>2, <2>3, Constants
    <3>2. pipe' = t /\ printed' = SubSeq(pipe, 1, available)
      BY <1>9 DEF read_last
    <3> QED
      BY <2>2, <3>1, <3>2
  <2> QED
    BY <1>9, <2>1 DEF read_last, goes, SameRun, Typed, ParentLabels
<1>10. CASE unlink
  <2>1. unlinked' \subseteq Names /\ parent' \in ParentLabels
    BY <1>1, <1>10 DEF unlink, goes, ParentLabels, Typed
  <2> QED
    BY <1>10, <2>1 DEF unlink, SameRun, Typed
<1> QED
  BY <1>2, <1>3, <1>4, <1>5, <1>6, <1>7, <1>8, <1>9, <1>10 DEF ParentStep

LEMMA AgainTyped == Typed /\ start_again => Typed'
<1> SUFFICES ASSUME Typed, start_again PROVE Typed'
  OBVIOUS
<1>1. sem' \in [Names -> Nat]
  BY DEF start_again, Typed
<1>2. child' \in [Children -> ChildLabels] /\ parent' \in ParentLabels
  BY DEF start_again, ChildLabels, ParentLabels
<1>3. pipe' \in Seq(Units) /\ Len(pipe') <= Capacity /\ printed' \in Seq(Units)
  BY EmptySeq, Constants DEF start_again
<1>4. runs' \in 1..MaxRuns
  BY Constants DEF start_again, Typed
<1>5. count' \in 0..MaxWrites /\ space' \in Nat /\ drained' \subseteq Units /\ unlinked' \subseteq Names
  BY Constants DEF start_again
<1>6. clean' \in BOOLEAN /\ nonblocking' \in BOOLEAN
  BY DEF start_again
<1> QED
  BY <1>1, <1>2, <1>3, <1>4, <1>5, <1>6 DEF Typed
-----------------------------------------------------------------------------
(* The first half: child 1 fills the pipe, the parent drains it. *)

LEMMA InitFills == Init => Filling
<1> SUFFICES ASSUME Init PROVE Filling
  OBVIOUS
<1>1. Len(pipe) = 0
  BY DEF Init
<1>2. child[1] = "unforked" /\ child[2] = "unforked" /\ child[3] = "unforked"
  BY DEF Init, Children
<1> QED
  BY <1>1, <1>2 DEF Init, Filling, Level, Drained, Talkers, Forking

Zeros == \A i \in 1..Len(pipe) : pipe[i] = "zeros"

LEMMA Child1Fills == Typed /\ Filling /\ Child1Step => Filling'
<1> SUFFICES ASSUME Typed, Filling, Child1Step PROVE Filling'
  OBVIOUS
<1>1. Len(pipe) \in Nat /\ count \in Nat /\ count * BUF \in Nat
      /\ (count + 1) * BUF = count * BUF + BUF
  BY LenProperties, Written DEF Typed
<1>2. /\ child \in [Children -> ChildLabels] /\ Capacity \in Nat /\ Capacity >= 2
      /\ BUF \in Nat /\ BUF >= 2
  BY Constants DEF Typed
<1>3. CASE set_nonblocking
  <2>1. child[1] = "fcntl" /\ child' = [child EXCEPT ![1] = "write"] /\ UNCHANGED <<sem, pipe, parent, count, drained, printed>>
    BY <1>3 DEF set_nonblocking, child_goes
  <2>2. child'[1] = "write" /\ child'[2] = child[2] /\ child'[3] = child[3]
    BY <1>2, <2>1 DEF Children
  <2>3. parent \in Forking \ {"fork1"} /\ count = 0 /\ Len(pipe) = 0 /\ drained = {}
    BY <2>1 DEF Filling, Level, Forking, Measured
  <2>4. count * BUF = 0
    BY <1>2, <2>3
  <2>5. Level'
    BY <1>2, <2>1, <2>2, <2>3, <2>4 DEF Level
  <2> QED
    BY <2>1, <2>2, <2>5 DEF Filling, Drained, Talkers
<1>4. CASE fill
  <2> DEFINE k == IF BUF < room THEN BUF ELSE room
  <2>1. /\ child[1] = "write" /\ child' = [child EXCEPT ![1] = "write"] /\ room > 0
        /\ count' = count + 1 /\ UNCHANGED <<sem, parent, drained, printed>>
        /\ pipe' = pipe \o [i \in 1..k |-> "zeros"]
    BY <1>4 DEF fill, child_goes
  <2>2. child'[1] = "write" /\ child'[2] = child[2] /\ child'[3] = child[3]
    BY <1>2, <2>1 DEF Children
  <2>3. /\ parent \in Forking \ {"fork1"} /\ drained = {}
        /\ Len(pipe) = IF count * BUF < Capacity THEN count * BUF ELSE Capacity
    BY <2>1 DEF Filling, Level, Measured
  <2>4. Len(pipe) = count * BUF /\ count * BUF < Capacity
    BY <1>1, <1>2, <2>1, <2>3 DEF room
  <2>5. k \in Nat /\ k = IF BUF < Capacity - count * BUF THEN BUF ELSE Capacity - count * BUF
    BY <1>1, <1>2, <2>4 DEF room
  <2>6. Zeros' /\ Len(pipe') = Len(pipe) + k
    <3> HIDE DEF k
    <3>1. pipe \in Seq(Units) /\ \A i \in 1..Len(pipe) : pipe[i] = "zeros"
      BY DEF Typed, Filling
    <3> QED
      BY <2>1, <2>5, <3>1, FillPipe DEF Zeros
  <2>7. count' * BUF = count * BUF + BUF
    BY <1>1, <2>1
  <2>8. /\ Len(pipe') = IF count' * BUF < Capacity THEN count' * BUF ELSE Capacity
        /\ count' * BUF - BUF < Capacity
    <3> DEFINE b == count * BUF
               c == count' * BUF
               l == Len(pipe')
    <3>1. /\ b \in Nat /\ b < Capacity /\ c = b + BUF /\ l = b + k
          /\ k = IF BUF < Capacity - b THEN BUF ELSE Capacity - b
      BY <1>1, <2>4, <2>5, <2>6, <2>7
    <3> HIDE DEF b, c, l, k
    <3>2. l = (IF c < Capacity THEN c ELSE Capacity) /\ c - BUF < Capacity
      BY <1>2, <3>1
    <3> QED
      BY <3>2 DEF c, l
  <2>9. Level'
    BY <2>1, <2>2, <2>3, <2>8 DEF Level
  <2> QED
    BY <2>1, <2>2, <2>6, <2>9 DEF Filling, Drained, Talkers, Zeros
<1>5. CASE filled
  <2>1. /\ child[1] = "write" /\ child' = [child EXCEPT ![1] = "printf"] /\ room = 0
        /\ UNCHANGED <<sem, pipe, parent, count, drained, printed>>
    BY <1>5 DEF filled, child_goes
  <2>2. child'[1] = "printf" /\ child'[2] = child[2] /\ child'[3] = child[3]
    BY <1>2, <2>1 DEF Children
  <2>3. /\ parent \in Forking \ {"fork1"} /\ drained = {}
        /\ Len(pipe) = IF count * BUF < Capacity THEN count * BUF ELSE Capacity
        /\ count * BUF - BUF < Capacity
    BY <2>1 DEF Filling, Level, Measured
  <2>4. Len(pipe) = Capacity /\ Capacity <= count * BUF
    BY <1>1, <1>2, <2>1, <2>3 DEF room
  <2>5. Level'
    BY <2>1, <2>2, <2>3, <2>4 DEF Level
  <2> QED
    BY <2>1, <2>2, <2>5 DEF Filling, Drained, Talkers
<1>6. CASE print_space
  <2>1. /\ child[1] = "printf" /\ child' = [child EXCEPT ![1] = "exited"] /\ space' = count * BUF
        /\ UNCHANGED <<sem, pipe, parent, count, drained, printed>>
    BY <1>6 DEF print_space, child_goes
  <2>2. child'[1] = "exited" /\ child'[2] = child[2] /\ child'[3] = child[3]
    BY <1>2, <2>1 DEF Children
  <2>3. /\ parent \in Forking \ {"fork1"} /\ drained = {} /\ Len(pipe) = Capacity
        /\ Capacity <= count * BUF /\ count * BUF - BUF < Capacity
    BY <2>1 DEF Filling, Level, Measured
  <2>4. Measured'
    BY <1>1, <1>2, <2>1, <2>2, <2>3 DEF Measured
  <2>5. Level'
    BY <2>1, <2>2, <2>3, <2>4 DEF Level
  <2> QED
    BY <2>1, <2>2, <2>5 DEF Filling, Drained, Talkers
<1>7. ~sigpipe(1)
  BY DEF sigpipe, ReadEndOpen, Filling, Drained
<1> QED
  BY <1>3, <1>4, <1>5, <1>6, <1>7 DEF Child1Step

LEMMA TalkersWait == ASSUME Filling, NEW c \in Talkers PROVE ~TalkerStep(c)
BY DEF Filling, TalkerStep, await_pipe, close_read_end, write, give_pipe, announce, sigpipe,
       child_goes, P, Names

LEMMA ParentFills == Typed /\ Filling /\ ParentStep => Filling' \/ Writing'
<1> SUFFICES ASSUME Typed, Filling, ParentStep PROVE Filling' \/ Writing'
  OBVIOUS
<1>1. Len(pipe) \in Nat /\ Capacity \in Nat /\ Capacity >= 2
  BY LenProperties, Constants DEF Typed
<1>2. child \in [Children -> ChildLabels] /\ sem \in [Names -> Nat]
  BY DEF Typed
<1>3. CASE fork
  <2>1. UNCHANGED <<sem, pipe, count, space, drained, printed>>
    BY <1>3 DEF fork
  <2>2. CASE goes("fork1", "fork2") /\ child' = [child EXCEPT ![1] = "fcntl"]
    <3>1. child'[1] = "fcntl" /\ child'[2] = child[2] /\ child'[3] = child[3]
      BY <1>2, <2>2 DEF Children
    <3>2. count = 0 /\ Len(pipe) = 0 /\ drained = {}
      BY <2>2 DEF goes, Filling, Level, Forking
    <3>3. Level'
      BY <2>1, <2>2, <3>1, <3>2 DEF Level, goes, Forking
    <3> QED
      BY <2>1, <2>2, <3>1, <3>3 DEF Filling, Drained, Talkers, goes
  <2>3. CASE goes("fork2", "fork3") /\ child' = [child EXCEPT ![2] = "P(write_mutex)"]
    <3>1. child'[1] = child[1] /\ child'[2] = "P(write_mutex)" /\ child'[3] = child[3]
      BY <1>2, <2>3 DEF Children
    <3>2. Level'
      BY <2>1, <2>3, <3>1 DEF Filling, Level, Measured, goes, Forking
    <3> QED
      BY <2>1, <2>3, <3>1, <3>2 DEF Filling, Drained, Talkers, goes
  <2>4. CASE goes("fork3", "wait") /\ child' = [child EXCEPT ![3] = "P(write_mutex)"]
    <3>1. child'[1] = child[1] /\ child'[2] = child[2] /\ child'[3] = "P(write_mutex)"
      BY <1>2, <2>4 DEF Children
    <3>2. Level'
      BY <2>1, <2>4, <3>1 DEF Filling, Level, Measured, goes, Forking
    <3> QED
      BY <2>1, <2>4, <3>1, <3>2 DEF Filling, Drained, Talkers, goes
  <2> QED
    BY <1>3, <2>2, <2>3, <2>4 DEF fork
<1>4. CASE wait
  <2>1. UNCHANGED <<sem, pipe, child, count, space, drained, printed>> /\ parent = "wait" /\ parent' = "close"
    BY <1>4 DEF wait, goes
  <2>2. child[1] = "exited"
    BY <1>4 DEF wait, Filling, Children, Talkers
  <2>3. Level'
    BY <2>1, <2>2 DEF Filling, Level, Measured, Forking
  <2> QED
    BY <2>1, <2>3 DEF Filling, Drained
<1>5. CASE close
  <2>1. UNCHANGED <<sem, pipe, child, count, space, drained, printed>> /\ parent = "close" /\ parent' = "read"
    BY <1>5 DEF close, goes
  <2>2. Level'
    BY <2>1 DEF Filling, Level, Measured, Forking
  <2> QED
    BY <2>1, <2>2 DEF Filling, Drained
<1>6. CASE drain
  <2> DEFINE t == SubSeq(pipe, available + 1, Len(pipe))
  <2>1. /\ UNCHANGED <<sem, child, count, space, printed>> /\ parent = "read" /\ parent' = "read"
        /\ pipe # <<>> /\ pipe' = t /\ drained' = drained \cup {pipe[i] : i \in 1..available}
    BY <1>6 DEF drain, goes
  <2>2. /\ available \in 0..Len(pipe) /\ Len(t) = Len(pipe) - available
        /\ Len(pipe) > 0 => available > 0
        /\ \A i \in 1..Len(t) : t[i] = pipe[i + available]
    BY DrainPipe DEF Typed
  <2>3. Len(pipe) > 0
    BY <2>1, EmptySeq DEF Typed
  <2>4. drained' = {"zeros"}
    <3>1. drained \in {{}, {"zeros"}}
      BY <2>1 DEF Filling, Level, Forking
    <3>2. \A i \in 1..available : pipe[i] = "zeros"
      BY <1>1, <2>2 DEF Filling
    <3>3. 1 \in 1..available
      BY <1>1, <2>2, <2>3
    <3> QED
      BY <2>1, <3>1, <3>2, <3>3
  <2>5. Zeros'
    <3>1. ASSUME NEW i \in 1..Len(t) PROVE t[i] = "zeros"
      <4>1. i + available \in 1..Len(pipe)
        BY <1>1, <2>2
      <4> QED
        BY <2>2, <4>1 DEF Filling
    <3> QED
      BY <2>1, <3>1 DEF Zeros
  <2>6. Measured'
    BY <2>1 DEF Filling, Level, Measured, Forking
  <2>7. Level'
    BY <2>1, <2>4, <2>6 DEF Level
  <2> QED
    BY <2>1, <2>5, <2>7 DEF Filling, Drained, Zeros
<1>7. CASE drained_all
  <2>1. /\ UNCHANGED <<sem, pipe, child, count, space, drained, printed>>
        /\ parent = "read" /\ parent' = "V(write_mutex)" /\ pipe = <<>>
    BY <1>7 DEF drained_all, goes
  <2>2. Len(pipe) = 0
    BY <2>1
  <2>3. drained = {"zeros"} /\ Measured
    BY <1>1, <2>1, <2>2 DEF Filling, Level, Forking
  <2>4. Level'
    BY <2>1, <2>2, <2>3 DEF Level, Measured
  <2> QED
    BY <2>1, <2>4 DEF Filling, Drained
<1>8. CASE let_write
  <2>1. /\ UNCHANGED <<pipe, child, count, space, drained, printed>>
        /\ parent = "V(write_mutex)" /\ parent' = "P(read_mutex1)"
        /\ sem' = [sem EXCEPT !["write_mutex"] = @ + 1]
    BY <1>8 DEF let_write, goes, V
  <2>2. drained = {"zeros"} /\ Measured /\ Len(pipe) = 0
    BY <2>1 DEF Filling, Level, Forking
  <2>3. pipe = <<>>
    BY <2>2, EmptySeq DEF Typed
  <2>4. sem'["write_mutex"] = 1 /\ sem'["read_mutex1"] = 0 /\ sem'["read_mutex2"] = 0
    BY <1>2, <2>1 DEF Filling, Names
  <2>5. \A c \in Talkers : child'[c] \in {"unforked", "P(write_mutex)"}
    BY <2>1 DEF Filling
  <2>6. printed' = <<>> /\ pipe' = <<>> /\ drained' = {"zeros"} /\ Measured'
    BY <2>1, <2>2, <2>3 DEF Measured, Filling
  <2>7. MessagesIn(pipe)' /\ Posts' /\ ~Holding(2)' /\ ~Holding(3)'
    BY <2>1, <2>4, <2>5, <2>6 DEF MessagesIn, Wrote, Posts, Talkers, Holding
  <2> QED
    BY <2>1, <2>4, <2>6, <2>7 DEF Writing, Drained, BeforeLast
<1>9. ~await_messages /\ ~read_last /\ ~unlink
  BY DEF Filling, Drained, await_messages, read_last, unlink, goes
<1> QED
  BY <1>3, <1>4, <1>5, <1>6, <1>7, <1>8, <1>9 DEF ParentStep
-----------------------------------------------------------------------------
(* The second half: the other children write, and the parent reads. *)

LEMMA Lengths ==
  /\ Len(<<>>) = 0
  /\ \A u : Len(<<u>>) = 1
  /\ \A u, v : Len(<<u, v>>) = 2
OBVIOUS

(* There is room for a message as long as one has not been written.        *)
LEMMA Room ==
  ASSUME Typed, Writing, NEW c \in Talkers, child[c] = "write"
  PROVE  BeforeLast /\ room > 0 /\ ReadEndOpen
<1>1. BeforeLast
  BY DEF BeforeLast, Writing, Drained, Posts, Talkers, Typed, ParentLabels
<1>2. Len(pipe) <= 1
  <2>1. \/ pipe = <<>> \/ pipe = <<"second">> \/ pipe = <<"third">>
    BY <1>1 DEF Writing, MessagesIn, Wrote, Talkers
  <2>2. CASE pipe = <<>>
    BY <2>2
  <2>3. CASE pipe = <<"second">>
    <3>1. Len(pipe) = 1
      BY <2>3, Lengths
    <3> QED
      BY <3>1
  <2>4. CASE pipe = <<"third">>
    <3>1. Len(pipe) = 1
      BY <2>4, Lengths
    <3> QED
      BY <3>1
  <2> QED
    BY <2>1, <2>2, <2>3, <2>4
<1> QED
  BY <1>1, <1>2, LenProperties, Constants DEF room, ReadEndOpen, BeforeLast, Typed

LEMMA Child1Done == ASSUME Writing PROVE ~Child1Step
BY DEF Writing, Measured, Child1Step, set_nonblocking, fill, filled, print_space, sigpipe, child_goes

(* What the talkers' steps leave alone. *)
Rest == <<pipe, parent, space, drained, printed>>

LEMMA TalkersWrite ==
  ASSUME Typed, Writing, NEW c \in Talkers, TalkerStep(c) PROVE Writing'
<1> DEFINE d == IF c = 2 THEN 3 ELSE 2
<1>1. c \in {2, 3} /\ d \in {2, 3} /\ c # d /\ {c, d} = {2, 3}
  BY DEF Talkers
<1>2. child \in [Children -> ChildLabels] /\ sem \in [Names -> Nat] /\ pipe \in Seq(Units)
  BY DEF Typed
<1>3. ASSUME NEW from, NEW to, child_goes(c, from, to)
      PROVE  child[c] = from /\ child'[c] = to /\ child'[d] = child[d] /\ child'[1] = child[1]
  BY <1>1, <1>2, <1>3 DEF child_goes, Children
<1>4. sem["write_mutex"] = IF Holding(c) \/ Holding(d) THEN 0 ELSE 1
  BY <1>1 DEF Writing
<1>5. ~(Holding(c) /\ Holding(d))
  BY <1>1 DEF Writing
<1> HIDE DEF d
<1>6. ASSUME Measured', UNCHANGED <<parent, drained>>, Posts',
             sem'["write_mutex"] = IF Holding(c)' \/ Holding(d)' THEN 0 ELSE 1,
             ~(Holding(c)' /\ Holding(d)'),
             IF BeforeLast THEN printed' = <<>> /\ MessagesIn(pipe)'
                           ELSE pipe' = <<>> /\ MessagesIn(printed)'
      PROVE  Writing'
  BY <1>1, <1>6 DEF Writing, Drained, BeforeLast
<1>7. CASE await_pipe(c)
  <2>1. /\ child_goes(c, "P(write_mutex)", "close") /\ UNCHANGED Rest
        /\ sem["write_mutex"] > 0 /\ sem' = [sem EXCEPT !["write_mutex"] = @ - 1]
    BY <1>7 DEF await_pipe, P, Rest
  <2>2. child[c] = "P(write_mutex)" /\ child'[c] = "close" /\ child'[d] = child[d] /\ child'[1] = child[1]
    BY <1>3, <2>1
  <2>3. /\ sem'["write_mutex"] = sem["write_mutex"] - 1
        /\ sem'["read_mutex1"] = sem["read_mutex1"] /\ sem'["read_mutex2"] = sem["read_mutex2"]
    BY <1>2, <2>1 DEF Names
  <2>4. sem["write_mutex"] = 1 /\ ~Holding(d)
    BY <1>4, <2>1
  <2>5. Holding(c)' /\ ~Holding(d)' /\ sem'["write_mutex"] = 0
    BY <2>2, <2>3, <2>4 DEF Holding
  <2>6. Measured' /\ Posts'
    BY <1>1, <2>1, <2>2, <2>3 DEF Writing, Measured, Posts, Rest
  <2>7. Wrote(c)' = Wrote(c) /\ Wrote(d)' = Wrote(d)
    BY <2>2 DEF Wrote
  <2>8. MessagesIn(pipe)' = MessagesIn(pipe) /\ MessagesIn(printed)' = MessagesIn(printed)
    BY <1>1, <2>1, <2>7 DEF MessagesIn, Rest
  <2> QED
    BY <1>6, <2>1, <2>5, <2>6, <2>8 DEF Writing, Rest
<1>8. CASE close_read_end(c)
  <2>1. child_goes(c, "close", "write") /\ UNCHANGED Rest /\ UNCHANGED sem
    BY <1>8 DEF close_read_end, Rest
  <2>2. child[c] = "close" /\ child'[c] = "write" /\ child'[d] = child[d] /\ child'[1] = child[1]
    BY <1>3, <2>1
  <2>3. Holding(c)' = Holding(c) /\ Holding(d)' = Holding(d)
    BY <2>2 DEF Holding
  <2>4. Measured' /\ Posts'
    BY <1>1, <2>1, <2>2 DEF Writing, Measured, Posts, Rest
  <2>5. Wrote(c)' = Wrote(c) /\ Wrote(d)' = Wrote(d)
    BY <2>2 DEF Wrote
  <2>6. MessagesIn(pipe)' = MessagesIn(pipe) /\ MessagesIn(printed)' = MessagesIn(printed)
    BY <1>1, <2>1, <2>5 DEF MessagesIn, Rest
  <2> QED
    BY <1>4, <1>5, <1>6, <2>1, <2>3, <2>4, <2>6 DEF Writing, Rest
<1>9. CASE write(c)
  <2>1. child_goes(c, "write", "V(write_mutex)") /\ UNCHANGED <<sem, parent, space, drained, printed>>
    BY <1>9 DEF write
  <2>2. child[c] = "write" /\ child'[c] = "V(write_mutex)" /\ child'[d] = child[d] /\ child'[1] = child[1]
    BY <1>3, <2>1
  <2>3. BeforeLast /\ pipe' = Append(pipe, Message(c))
    BY <1>9, <2>2, Room DEF write
  <2>4. Holding(c)' = Holding(c) /\ Holding(d)' = Holding(d)
    BY <2>2 DEF Holding
  <2>5. Measured' /\ Posts'
    BY <1>1, <2>1, <2>2 DEF Writing, Measured, Posts
  <2>6. Wrote(c)' /\ ~Wrote(c) /\ Wrote(d)' = Wrote(d)
    BY <2>2 DEF Wrote
  <2>7. MessagesIn(pipe)'
    <3>1. CASE c = 2 /\ d = 3
      <4>1. pipe = IF Wrote(3) THEN <<"third">> ELSE <<>>
        BY <2>3, <2>6, <3>1 DEF Writing, MessagesIn
      <4>2. pipe' = IF Wrote(3) THEN <<"third", "second">> ELSE <<"second">>
        BY <2>3, <3>1, <4>1 DEF Message
      <4> QED
        BY <2>6, <3>1, <4>2 DEF MessagesIn
    <3>2. CASE c = 3 /\ d = 2
      <4>1. pipe = IF Wrote(2) THEN <<"second">> ELSE <<>>
        BY <2>3, <2>6, <3>2 DEF Writing, MessagesIn
      <4>2. pipe' = IF Wrote(2) THEN <<"second", "third">> ELSE <<"third">>
        BY <2>3, <3>2, <4>1 DEF Message
      <4> QED
        BY <2>6, <3>2, <4>2 DEF MessagesIn
    <3> QED
      BY <1>1, <3>1, <3>2
  <2> QED
    BY <1>4, <1>5, <1>6, <2>1, <2>3, <2>4, <2>5, <2>7 DEF Writing
<1>10. CASE give_pipe(c)
  <2>1. /\ child_goes(c, "V(write_mutex)", "V(read_mutex)") /\ UNCHANGED Rest
        /\ sem' = [sem EXCEPT !["write_mutex"] = @ + 1]
    BY <1>10 DEF give_pipe, V, Rest
  <2>2. child[c] = "V(write_mutex)" /\ child'[c] = "V(read_mutex)" /\ child'[d] = child[d] /\ child'[1] = child[1]
    BY <1>3, <2>1
  <2>3. /\ sem'["write_mutex"] = sem["write_mutex"] + 1
        /\ sem'["read_mutex1"] = sem["read_mutex1"] /\ sem'["read_mutex2"] = sem["read_mutex2"]
    BY <1>2, <2>1 DEF Names
  <2>4. Holding(c) /\ ~Holding(d) /\ sem["write_mutex"] = 0
    BY <1>4, <1>5, <2>2 DEF Holding
  <2>5. ~Holding(c)' /\ ~Holding(d)' /\ sem'["write_mutex"] = 1
    BY <2>2, <2>3, <2>4 DEF Holding
  <2>6. Measured' /\ Posts'
    BY <1>1, <2>1, <2>2, <2>3 DEF Writing, Measured, Posts, Rest
  <2>7. Wrote(c)' = Wrote(c) /\ Wrote(d)' = Wrote(d)
    BY <2>2 DEF Wrote
  <2>8. MessagesIn(pipe)' = MessagesIn(pipe) /\ MessagesIn(printed)' = MessagesIn(printed)
    BY <1>1, <2>1, <2>7 DEF MessagesIn, Rest
  <2> QED
    BY <1>6, <2>1, <2>5, <2>6, <2>8 DEF Writing, Rest
<1>11. CASE announce(c)
  <2>1. /\ child_goes(c, "V(read_mutex)", "exited") /\ UNCHANGED Rest
        /\ sem' = [sem EXCEPT ![read_mutex(c)] = @ + 1]
    BY <1>11 DEF announce, V, Rest
  <2>2. child[c] = "V(read_mutex)" /\ child'[c] = "exited" /\ child'[d] = child[d] /\ child'[1] = child[1]
    BY <1>3, <2>1
  <2>3. read_mutex(c) \in Names \ {"write_mutex"}
    BY DEF read_mutex, Names
  <2>4. /\ sem'["write_mutex"] = sem["write_mutex"]
        /\ sem'["read_mutex1"] = sem["read_mutex1"] + (IF c = 2 THEN 1 ELSE 0)
        /\ sem'["read_mutex2"] = sem["read_mutex2"] + (IF c = 2 THEN 0 ELSE 1)
    BY <1>2, <2>1, <2>3 DEF Names, read_mutex
  <2>5. Holding(c)' = Holding(c) /\ Holding(d)' = Holding(d)
    BY <2>2 DEF Holding
  <2>6. Measured'
    BY <2>1, <2>2 DEF Writing, Measured, Rest
  <2>7. Posts'
    <3>1. CASE c = 2 /\ d = 3
      BY <2>1, <2>2, <2>4, <3>1 DEF Writing, Posts, Rest
    <3>2. CASE c = 3 /\ d = 2
      BY <2>1, <2>2, <2>4, <3>2 DEF Writing, Posts, Rest
    <3> QED
      BY <1>1, <3>1, <3>2
  <2>8. Wrote(c)' = Wrote(c) /\ Wrote(d)' = Wrote(d)
    BY <2>2 DEF Wrote
  <2>9. MessagesIn(pipe)' = MessagesIn(pipe) /\ MessagesIn(printed)' = MessagesIn(printed)
    BY <1>1, <2>1, <2>8 DEF MessagesIn, Rest
  <2> QED
    BY <1>4, <1>5, <1>6, <2>1, <2>4, <2>5, <2>6, <2>7, <2>9 DEF Writing, Rest
<1>12. ~sigpipe(c)
  BY Room DEF sigpipe, child_goes
<1> QED
  BY <1>7, <1>8, <1>9, <1>10, <1>11, <1>12 DEF TalkerStep

LEMMA ParentWrites == Typed /\ Writing /\ ParentStep => Writing'
<1> SUFFICES ASSUME Typed, Writing, ParentStep PROVE Writing'
  OBVIOUS
<1>1. child \in [Children -> ChildLabels] /\ sem \in [Names -> Nat] /\ pipe \in Seq(Units)
  BY DEF Typed
<1>2. ~fork /\ ~wait /\ ~close /\ ~drain /\ ~drained_all /\ ~let_write
  BY DEF Writing, Drained, fork, wait, close, drain, drained_all, let_write, goes
<1>3. CASE await_messages
  <2>1. UNCHANGED <<child, pipe, space, drained, printed>>
    BY <1>3 DEF await_messages
  <2>2. Measured' /\ Holding(2)' = Holding(2) /\ Holding(3)' = Holding(3)
        /\ Wrote(2)' = Wrote(2) /\ Wrote(3)' = Wrote(3)
    BY <2>1 DEF Writing, Measured, Holding, Wrote
  <2>3. MessagesIn(pipe)' = MessagesIn(pipe)
    BY <2>1, <2>2 DEF MessagesIn
  <2>4. CASE goes("P(read_mutex1)", "P(read_mutex2)") /\ P("read_mutex1")
    <3>1. /\ sem["read_mutex1"] > 0 /\ sem'["write_mutex"] = sem["write_mutex"]
          /\ sem'["read_mutex1"] = sem["read_mutex1"] - 1 /\ sem'["read_mutex2"] = sem["read_mutex2"]
      BY <1>1, <2>4 DEF P, Names
    <3>2. Posts'
      BY <2>1, <2>4, <3>1 DEF Writing, Posts, goes
    <3> QED
      BY <2>1, <2>2, <2>3, <2>4, <3>1, <3>2 DEF Writing, Drained, BeforeLast, goes
  <2>5. CASE goes("P(read_mutex2)", "read_last") /\ P("read_mutex2")
    <3>1. /\ sem["read_mutex2"] > 0 /\ sem'["write_mutex"] = sem["write_mutex"]
          /\ sem'["read_mutex2"] = sem["read_mutex2"] - 1 /\ sem'["read_mutex1"] = sem["read_mutex1"]
      BY <1>1, <2>5 DEF P, Names
    <3>2. Posts'
      BY <2>1, <2>5, <3>1 DEF Writing, Posts, goes
    <3> QED
      BY <2>1, <2>2, <2>3, <2>5, <3>1, <3>2 DEF Writing, Drained, BeforeLast, goes
  <2> QED
    BY <1>3, <2>4, <2>5 DEF await_messages
<1>4. CASE read_last
  <2>1. /\ parent = "read_last" /\ parent' = "unlink1" /\ UNCHANGED <<sem, child, space, drained>>
        /\ printed' = SubSeq(pipe, 1, available) /\ pipe' = SubSeq(pipe, available + 1, Len(pipe))
    BY <1>4 DEF read_last, goes
  <2>2. MessagesIn(pipe)
    BY <2>1 DEF Writing, BeforeLast
  <2>3. Len(pipe) <= 2
    <3>1. \/ pipe = <<>> \/ pipe = <<"second">> \/ pipe = <<"third">>
          \/ pipe = <<"second", "third">> \/ pipe = <<"third", "second">>
      BY <2>2 DEF MessagesIn
    <3>2. Len(pipe) = 0 \/ Len(pipe) = 1 \/ Len(pipe) = 2
      <4>1. CASE pipe = <<>>
        BY <4>1
      <4>2. CASE pipe = <<"second">>
        BY <4>2
      <4>3. CASE pipe = <<"third">>
        BY <4>3
      <4>4. CASE pipe = <<"second", "third">>
        BY <4>4
      <4>5. CASE pipe = <<"third", "second">>
        BY <4>5
      <4> QED
        BY <3>1, <4>1, <4>2, <4>3, <4>4, <4>5
    <3>3. CASE Len(pipe) = 0
      BY <3>3
    <3>4. CASE Len(pipe) = 1
      BY <3>4
    <3>5. CASE Len(pipe) = 2
      BY <3>5
    <3> QED
      BY <3>2, <3>3, <3>4, <3>5
  <2>4. printed' = pipe /\ pipe' = <<>>
    BY <1>1, <2>1, <2>3, LastRead
  <2>5. Wrote(2)' = Wrote(2) /\ Wrote(3)' = Wrote(3) /\ Holding(2)' = Holding(2) /\ Holding(3)' = Holding(3)
    BY <2>1 DEF Wrote, Holding
  <2>6. MessagesIn(printed)'
    BY <2>2, <2>4, <2>5 DEF MessagesIn
  <2>7. Posts' /\ Measured'
    BY <2>1 DEF Writing, Posts, Measured
  <2> QED
    BY <2>1, <2>4, <2>5, <2>6, <2>7 DEF Writing, Drained, BeforeLast
<1>5. CASE unlink
  <2>1. UNCHANGED <<sem, pipe, child, space, drained, printed>>
    BY <1>5 DEF unlink
  <2>2. /\ parent \in {"unlink1", "unlink2", "unlink3"} /\ parent' \in {"unlink2", "unlink3", "done"}
    BY <1>5 DEF unlink, goes
  <2>3. Wrote(2)' = Wrote(2) /\ Wrote(3)' = Wrote(3) /\ Holding(2)' = Holding(2) /\ Holding(3)' = Holding(3)
    BY <2>1 DEF Wrote, Holding
  <2>4. MessagesIn(printed)' = MessagesIn(printed)
    BY <2>1, <2>3 DEF MessagesIn
  <2>5. Posts' /\ Measured'
    BY <2>1, <2>2 DEF Writing, Posts, Measured
  <2> QED
    BY <2>1, <2>2, <2>3, <2>4, <2>5 DEF Writing, Drained, BeforeLast
<1> QED
  BY <1>2, <1>3, <1>4, <1>5 DEF ParentStep
-----------------------------------------------------------------------------
LEMMA AgainFills == start_again /\ clean' => Filling'
<1> SUFFICES ASSUME start_again, clean' PROVE Filling'
  OBVIOUS
<1>1. parent' = "fork1" /\ printed' = <<>> /\ count' = 0 /\ drained' = {} /\ pipe' = <<>>
  BY DEF start_again
<1>2. Len(pipe') = 0
  BY <1>1
<1>3. child'[1] = "unforked" /\ child'[2] = "unforked" /\ child'[3] = "unforked"
  BY DEF start_again, Children
<1>4. \A n \in Names : sem'[n] = 0
  BY DEF start_again
<1> QED
  BY <1>1, <1>2, <1>3, <1>4 DEF Filling, Level, Drained, Talkers, Forking

LEMMA NextInv == Inv /\ [Next]_vars => Inv'
<1> SUFFICES ASSUME Inv, [Next]_vars PROVE Inv'
  OBVIOUS
<1>1. Typed /\ (clean => Filling \/ Writing)
  BY DEF Inv
<1>2. CASE Child1Step
  <2>1. clean' = clean
    BY <1>2 DEF Child1Step, set_nonblocking, fill, filled, print_space, sigpipe, SameRun
  <2> QED
    BY <1>1, <1>2, <2>1, Child1Typed, Child1Fills, Child1Done DEF Inv
<1>3. ASSUME NEW c \in Talkers, TalkerStep(c) PROVE Inv'
  <2>1. clean' = clean
    BY <1>3 DEF TalkerStep, await_pipe, close_read_end, write, give_pipe, announce, sigpipe, SameRun
  <2> QED
    BY <1>1, <1>3, <2>1, TalkerTyped, TalkersWait, TalkersWrite DEF Inv
<1>4. CASE ParentStep
  <2>1. clean' = clean
    BY <1>4 DEF ParentStep, fork, wait, close, drain, drained_all, let_write, await_messages,
                read_last, unlink, SameRun
  <2> QED
    BY <1>1, <1>4, <2>1, ParentTyped, ParentFills, ParentWrites DEF Inv
<1>5. CASE start_again
  BY <1>1, <1>5, AgainTyped, AgainFills DEF Inv
<1>6. CASE UNCHANGED vars
  <2>1. Typed'
    BY <1>1, <1>6 DEF vars, Typed
  <2>2. Filling' = Filling
    BY <1>6 DEF vars, Filling, Level, Drained, Measured
  <2>3. Writing' = Writing
    BY <1>6 DEF vars, Writing, Drained, Measured, Posts, BeforeLast, MessagesIn, Wrote, Holding
  <2> QED
    BY <1>1, <1>6, <2>1, <2>2, <2>3 DEF Inv, vars
<1> QED
  BY <1>2, <1>3, <1>4, <1>5, <1>6 DEF Next

(* In a run that found its semaphores at 0 the pipe is filled and drained  *)
(* before the other children write, and they write one at a time.          *)
THEOREM Inductive == Spec => []Inv
<1>1. Init => Inv
  BY TypedInit, InitFills DEF Inv
<1> QED
  BY <1>1, NextInv, PTL DEF Spec

(* The pipe holds no more than it can, and write_mutex and the children    *)
(* that have it are one turn, given out after the draining (main.c:75-107).*)
THEOREM TypeCorrect == Spec => []TypeOK
<1>1. Inv => TypeOK
  BY DEF Inv, TypeOK, OneTurn, Filling, Writing, Talkers, Names, Holding
<1> QED
  BY Inductive, <1>1, PTL

(* The last read gets both messages and nothing else (main.c:72-115).      *)
THEOREM BothArrive == Spec => []BothMessages
<1>1. Inv => BothMessages
  BY DEF Inv, BothMessages, Filling, Writing, Drained, BeforeLast, MessagesIn, Posts, Wrote
<1> QED
  BY Inductive, <1>1, PTL

(* Child 1 prints the capacity, rounded up to whole writes, before any of  *)
(* it is taken out (main.c:56-69, 95).                                     *)
THEOREM Measures == Spec => []SpaceMeasured
<1>1. Inv => SpaceMeasured
  BY DEF Inv, SpaceMeasured, Filling, Writing, Level, Measured, Drained, Forking
<1> QED
  BY Inductive, <1>1, PTL
=============================================================================
