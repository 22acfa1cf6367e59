----------------------------- MODULE FakeProofs -----------------------------
(***************************************************************************)
(* Proofs about FakeQueue for any number of senders and of runs: what a    *)
(* process does that found the queue empty, and how late the lines of one  *)
(* that did not are shown.                                                 *)
(***************************************************************************)
EXTENDS FakeQueue, FiniteSetTheorems, SequenceTheorems, TLAPS

(* Types that hold in every process. *)
Kinds ==
  /\ snd_mutex \in Nat /\ rcv_mutex \in Nat
  /\ queue \in Seq(Messages) /\ removed \in BOOLEAN /\ failed \in BOOLEAN
  /\ snd \in [Senders -> SndLabels]
  /\ buf \in [Senders -> {"none", "text", "exit", "over"}]
  /\ rcv \in RcvLabels /\ rbuf \in Messages \cup {NoMessage}
  /\ must_stop \in 0..Cardinality(Senders)
  /\ runs \in 1..MaxRuns /\ leftover \in Nat
  /\ rcv = "strncmp" => rbuf \in Messages
  /\ rcv \in {"msgctl", "done"} <=> must_stop = 0

Idle(s)  == snd[s] = "P(snd_mutex)" /\ buf[s] \in {"none", "text"}
Ended(s) == snd[s] = "done" /\ buf[s] = "over"
Alone(s) == \A t \in Senders \ {s} : Idle(t) \/ Ended(t)
Resting  == rcv \in {"P(rcv_mutex)", "msgctl", "done"} /\ rcv_mutex = 0

(* The stages of a turn, which one sender has. *)
Typing(s) ==
  /\ \/ snd[s] = "fgets" /\ buf[s] \in {"none", "text"}
     \/ snd[s] = "msgsnd" /\ buf[s] \in {"text", "exit"}
  /\ Resting /\ queue = <<>>
Posting(s) ==
  /\ snd[s] = "V(rcv_mutex)" /\ buf[s] \in {"text", "exit"}
  /\ Resting /\ queue = <<Request(s, buf[s])>>
Sent(s) == \/ snd[s] = "P(snd_mutex)" /\ buf[s] = "text"
           \/ snd[s] = "msgrcv" /\ buf[s] = "exit"
Posted(s) ==
  /\ Sent(s) /\ queue = <<Request(s, buf[s])>>
  /\ \/ rcv = "P(rcv_mutex)" /\ rcv_mutex = 1
     \/ rcv = "msgrcv" /\ rcv_mutex = 0
Taken(s) ==
  /\ Sent(s) /\ queue = <<>> /\ rbuf = Request(s, buf[s])
  /\ rcv = "strncmp" /\ rcv_mutex = 0
Shown(s) == snd[s] = "P(snd_mutex)" /\ buf[s] = "text" /\ queue = <<>>
              /\ rcv = "V(snd_mutex)" /\ rcv_mutex = 0
Answered(s) ==
  /\ snd[s] = "msgrcv" /\ buf[s] = "exit" /\ Resting
  /\ queue = IF removed THEN <<>> ELSE <<Reply(s)>>
Ending(s) == snd[s] = "V(snd_mutex)" /\ buf[s] = "over" /\ Resting /\ queue = <<>>
Lost(s)   == snd[s] = "V(snd_mutex)" /\ buf[s] = "exit" /\ removed /\ Resting /\ queue = <<>>

Quiet == (\A s \in Senders : Idle(s) \/ Ended(s)) /\ Resting /\ queue = <<>>

Turn(s) ==
  \/ ~failed /\ (Typing(s) \/ Posting(s) \/ Posted(s) \/ Taken(s) \/ Shown(s)
                   \/ Answered(s) \/ Ending(s))
  \/ failed /\ Lost(s)

Stage ==
  \/ snd_mutex = 1 /\ ~failed /\ Quiet
  \/ snd_mutex = 0 /\ \E s \in Senders : Alone(s) /\ Turn(s)

(* The senders whose exit has not been answered. *)
Told(s) == buf[s] = "over" \/ (buf[s] = "exit" /\ snd[s] \in {"msgrcv", "V(snd_mutex)"} /\ Resting)
Untold  == {s \in Senders : ~Told(s)}

FreshInv ==
  /\ removed <=> rcv = "done"
  /\ must_stop = Cardinality(Untold)
  /\ Stage

(* Until someone says exit, there are so many messages more in the queue   *)
(* than were left there, and whoever has the turn has it alone.            *)
Early ==
  /\ must_stop = Cardinality(Senders)
  /\ \A s \in Senders : buf[s] \in {"none", "text"}
Extra == IF (\E s \in Senders : snd[s] = "V(rcv_mutex)") \/ rcv_mutex = 1 \/ rcv = "msgrcv"
           THEN 1 ELSE 0
Prompted == {s \in Senders : snd[s] \in {"fgets", "msgsnd", "V(rcv_mutex)"}}
LateInv ==
  /\ Len(queue) = leftover + Extra
  /\ \A s \in Senders : snd[s] \in {"P(snd_mutex)", "fgets", "msgsnd", "V(rcv_mutex)"}
  /\ rcv \in {"P(rcv_mutex)", "msgrcv", "strncmp", "V(snd_mutex)"}
  /\ \/ /\ snd_mutex = 1 /\ rcv_mutex = 0 /\ Prompted = {} /\ rcv = "P(rcv_mutex)"
     \/ /\ snd_mutex = 0 /\ rcv_mutex = 0 /\ rcv = "P(rcv_mutex)"
        /\ \E s \in Senders : Prompted = {s}
     \/ snd_mutex = 0 /\ rcv_mutex = 1 /\ Prompted = {} /\ rcv = "P(rcv_mutex)"
     \/ snd_mutex = 0 /\ rcv_mutex = 0 /\ Prompted = {} /\ rcv # "P(rcv_mutex)"

(* A sender that has said exit does not come back to its prompt, and one    *)
(* that is about to send has typed a line.                                 *)
Leavers ==
  \A s \in Senders :
    /\ buf[s] \in {"exit", "over"} => snd[s] \notin {"P(snd_mutex)", "fgets"}
    /\ snd[s] \in {"msgsnd", "V(rcv_mutex)"} => buf[s] \in {"text", "exit"}

Inv == Kinds /\ Leavers /\ (Fresh => FreshInv) /\ (Early => LateInv /\ ~failed /\ ~removed)
-----------------------------------------------------------------------------
(* Types *)

LEMMA Bounds ==
  /\ IsFiniteSet(Senders) /\ Cardinality(Senders) \in Nat /\ Cardinality(Senders) > 0
  /\ MaxRuns \in Nat /\ MaxRuns > 0
BY SendersAssumption, MaxRunsAssumption, FS_CardinalityType, FS_EmptySet

LEMMA InitKinds == Init => Kinds
<1> SUFFICES ASSUME Init PROVE Kinds
  OBVIOUS
<1>1. snd \in [Senders -> SndLabels] /\ buf \in [Senders -> {"none", "text", "exit", "over"}]
  BY DEF Init, SndLabels
<1>2. queue \in Seq(Messages)
  BY EmptySeq DEF Init
<1>3. must_stop \in 0..Cardinality(Senders) /\ must_stop # 0
  BY Bounds DEF Init
<1>4. runs \in 1..MaxRuns
  BY Bounds DEF Init
<1> QED
  BY <1>1, <1>2, <1>3, <1>4 DEF Init, Kinds, RcvLabels

(* A message taken out of the middle of the queue leaves the rest. *)
LEMMA TakeOut ==
  ASSUME NEW q \in Seq(Messages), NEW i \in 1..Len(q)
  PROVE  SubSeq(q, 1, i - 1) \o SubSeq(q, i + 1, Len(q)) \in Seq(Messages)
<1>1. Len(q) \in Nat /\ \A j \in 1..Len(q) : q[j] \in Messages
  BY LenProperties, ElementOfSeq
<1>2. SubSeq(q, 1, i - 1) \in Seq(Messages)
  BY <1>1, SubSeqProperties
<1>3. SubSeq(q, i + 1, Len(q)) \in Seq(Messages)
  BY <1>1, SubSeqProperties
<1> QED
  BY <1>2, <1>3, ConcatProperties

LEMMA Parts ==
  /\ \A s \in Senders, text \in {"text", "exit"} :
       /\ Request(s, text) \in Messages
       /\ Request(s, text).who = s /\ Request(s, text).text = text
  /\ \A s \in Senders : Reply(s) \in Messages
  /\ \A m \in Messages : m.who \in Senders /\ m.text \in {"text", "exit", "over"}
<1>1. \A s \in Senders, text \in {"text", "exit"} : Request(s, text) \in Messages
  BY DEF Messages
<1>2. \A s \in Senders : Reply(s) \in Messages
  BY DEF Messages
<1>3. ASSUME NEW m \in Messages
      PROVE  m.who \in Senders /\ m.text \in {"text", "exit", "over"}
  <2>1. CASE \E s \in Senders, text \in {"text", "exit"} : m = Request(s, text)
    BY <2>1 DEF Request
  <2>2. CASE \E s \in Senders : m = Reply(s)
    BY <2>2 DEF Reply
  <2> QED
    BY <1>3, <2>1, <2>2 DEF Messages
<1>4. \A s \in Senders, text \in {"text", "exit"} :
        Request(s, text).who = s /\ Request(s, text).text = text
  BY DEF Request
<1> QED
  BY <1>1, <1>2, <1>3, <1>4

LEMMA Longer ==
  ASSUME Kinds, NEW m \in Messages
  PROVE  Append(queue, m) \in Seq(Messages)
BY AppendProperties DEF Kinds

LEMMA SenderKinds ==
  ASSUME Kinds, Leavers, NEW s \in Senders, SenderStep(s) \/ read_line(s)
  PROVE  Kinds'
<1>1. CASE take_turn(s)
  BY <1>1 DEF take_turn, goes, SameRun, Kinds, SndLabels
<1>2. CASE read_line(s)
  <2>1. buf' \in [Senders -> {"none", "text", "exit", "over"}]
    BY <1>2 DEF read_line, Kinds
  <2> QED
    BY <1>2, <2>1 DEF read_line, goes, SameRun, sems, Kinds, SndLabels
<1>3. CASE send(s)
  <2>1. buf[s] \in {"text", "exit"}
    BY <1>3 DEF send, goes, Leavers
  <2>2. Request(s, buf[s]) \in Messages
    BY <2>1, Parts
  <2>3. Append(queue, Request(s, buf[s])) \in Seq(Messages)
    BY <2>2, Longer
  <2>4. queue' \in Seq(Messages) /\ failed' \in BOOLEAN
    BY <1>3, <2>3 DEF send, CheckFails, Kinds
  <2> QED
    BY <1>3, <2>4 DEF send, goes, SameRun, sems, Kinds, SndLabels
<1>4. CASE announce(s)
  <2>1. snd' \in [Senders -> SndLabels]
    BY <1>4 DEF announce, goes, Kinds, SndLabels
  <2> QED
    BY <1>4, <2>1 DEF announce, SameRun, Kinds
<1>5. CASE read_reply(s)
  <2>1. /\ queue' \in Seq(Messages) /\ failed' \in BOOLEAN
        /\ buf' \in [Senders -> {"none", "text", "exit", "over"}]
    <3>1. CASE CheckFails /\ UNCHANGED buf
      BY <3>1 DEF CheckFails, Kinds
    <3>2. ASSUME NEW i \in 1..Len(queue),
                 queue' = SubSeq(queue, 1, i - 1) \o SubSeq(queue, i + 1, Len(queue)),
                 buf' = [buf EXCEPT ![s] = "over"], UNCHANGED failed
          PROVE  <2>1
      <4>1. queue' \in Seq(Messages)
        BY <3>2, TakeOut DEF Kinds
      <4> QED
        BY <3>2, <4>1 DEF Kinds
    <3> QED
      BY <1>5, <3>1, <3>2 DEF read_reply
  <2> QED
    BY <1>5, <2>1 DEF read_reply, goes, SameRun, sems, Kinds, SndLabels
<1>6. CASE end_turn(s)
  BY <1>6 DEF end_turn, goes, SameRun, Kinds, SndLabels
<1> QED
  BY <1>1, <1>2, <1>3, <1>4, <1>5, <1>6 DEF SenderStep

LEMMA ReceiverKinds == Kinds /\ ReceiverStep => Kinds'
<1> SUFFICES ASSUME Kinds, ReceiverStep PROVE Kinds'
  OBVIOUS
<1>1. CASE await_message
  BY <1>1 DEF await_message, rcv_goes, SameRun, Kinds, RcvLabels
<1>2. CASE receive
  <2>1. rbuf' \in Messages /\ queue' \in Seq(Messages)
    BY <1>2, HeadTailProperties DEF receive, Kinds
  <2> QED
    BY <1>2, <2>1 DEF receive, rcv_goes, SameRun, sems, Kinds, RcvLabels
<1>3. CASE answer
  <2>1. rbuf \in Messages /\ must_stop # 0
    BY <1>3 DEF answer, rcv_goes, Kinds
  <2>2. Reply(rbuf.who) \in Messages
    BY <2>1, Parts
  <2>3. queue' \in Seq(Messages)
    BY <1>3, <2>2, Longer DEF answer
  <2>4. must_stop' \in 0..Cardinality(Senders) /\ (must_stop' = 0 <=> must_stop = 1)
    BY <1>3, <2>1, Bounds DEF answer, Kinds
  <2>5. rcv' \in RcvLabels /\ (rcv' \in {"msgctl", "done"} <=> must_stop = 1) /\ rcv' # "strncmp"
    BY <1>3 DEF answer, rcv_goes, RcvLabels
  <2> QED
    BY <1>3, <2>3, <2>4, <2>5 DEF answer, SameRun, sems, Kinds
<1>4. CASE display
  BY <1>4 DEF display, rcv_goes, SameRun, sems, Kinds, RcvLabels
<1>5. CASE give_turn
  BY <1>5 DEF give_turn, rcv_goes, SameRun, Kinds, RcvLabels
<1>6. CASE remove
  <2>1. queue' \in Seq(Messages)
    BY <1>6, EmptySeq DEF remove
  <2> QED
    BY <1>6, <2>1 DEF remove, rcv_goes, SameRun, sems, Kinds, RcvLabels
<1> QED
  BY <1>1, <1>2, <1>3, <1>4, <1>5, <1>6 DEF ReceiverStep

LEMMA AgainKinds == Kinds /\ start_again => Kinds'
<1> SUFFICES ASSUME Kinds, start_again PROVE Kinds'
  OBVIOUS
<1>1. snd' \in [Senders -> SndLabels] /\ buf' \in [Senders -> {"none", "text", "exit", "over"}]
  BY DEF start_again, SndLabels
<1>2. leftover' \in Nat
  BY LenProperties DEF start_again, Kinds
<1>3. must_stop' \in 0..Cardinality(Senders) /\ must_stop' # 0
  BY Bounds DEF start_again
<1>4. runs' \in 1..MaxRuns
  BY Bounds DEF start_again, Kinds
<1> QED
  BY <1>1, <1>2, <1>3, <1>4 DEF start_again, Kinds, RcvLabels
-----------------------------------------------------------------------------
(* Who has said exit does not type again. *)

LEMMA OneMoves ==
  ASSUME Kinds, NEW s \in Senders, SenderStep(s) \/ read_line(s)
  PROVE  \A t \in Senders \ {s} : snd'[t] = snd[t] /\ buf'[t] = buf[t]
<1> USE DEF goes, Kinds
<1>1. take_turn(s) => \A t \in Senders \ {s} : snd'[t] = snd[t] /\ buf'[t] = buf[t]
  BY DEF take_turn
<1>2. read_line(s) => \A t \in Senders \ {s} : snd'[t] = snd[t] /\ buf'[t] = buf[t]
  BY DEF read_line
<1>3. send(s) => \A t \in Senders \ {s} : snd'[t] = snd[t] /\ buf'[t] = buf[t]
  BY DEF send
<1>4. announce(s) => \A t \in Senders \ {s} : snd'[t] = snd[t] /\ buf'[t] = buf[t]
  BY DEF announce
<1>5. read_reply(s) => \A t \in Senders \ {s} : snd'[t] = snd[t] /\ buf'[t] = buf[t]
  BY DEF read_reply
<1>6. end_turn(s) => \A t \in Senders \ {s} : snd'[t] = snd[t] /\ buf'[t] = buf[t]
  BY DEF end_turn
<1> QED
  BY <1>1, <1>2, <1>3, <1>4, <1>5, <1>6 DEF SenderStep

LEMMA SenderLeaves ==
  ASSUME Kinds, Leavers, NEW s \in Senders, SenderStep(s) \/ read_line(s)
  PROVE  Leavers'
<1> DEFINE L(t) == /\ buf'[t] \in {"exit", "over"} => snd'[t] \notin {"P(snd_mutex)", "fgets"}
                   /\ snd'[t] \in {"msgsnd", "V(rcv_mutex)"} => buf'[t] \in {"text", "exit"}
<1>1. \A t \in Senders \ {s} : L(t)
  BY OneMoves DEF Leavers
<1>2. L(s)
  <2>1. CASE take_turn(s)
    BY <2>1 DEF take_turn, goes, Kinds, Leavers
  <2>2. CASE read_line(s)
    BY <2>2 DEF read_line, goes, Kinds
  <2>3. CASE send(s)
    BY <2>3 DEF send, goes, Kinds, Leavers
  <2>4. CASE announce(s)
    BY <2>4 DEF announce, goes, Kinds, Leavers
  <2>5. CASE read_reply(s)
    BY <2>5 DEF read_reply, goes, Kinds
  <2>6. CASE end_turn(s)
    BY <2>6 DEF end_turn, goes, Kinds
  <2> QED
    BY <2>1, <2>2, <2>3, <2>4, <2>5, <2>6 DEF SenderStep
<1> QED
  BY <1>1, <1>2 DEF Leavers

LEMMA OthersLeave ==
  Leavers /\ (ReceiverStep \/ start_again \/ UNCHANGED vars) => Leavers'
BY DEF Leavers, ReceiverStep, await_message, receive, answer, display, give_turn, remove,
       start_again, vars, local
-----------------------------------------------------------------------------
(* The turn of a process that found the queue empty. *)

LEMMA Counting ==
  /\ Cardinality(Untold) \in Nat
  /\ \A s \in Untold : Cardinality(Untold) > 0 /\ Cardinality(Untold \ {s}) = Cardinality(Untold) - 1
  /\ Cardinality(Untold) = 0 => Untold = {}
<1>1. Untold \subseteq Senders
  BY DEF Untold
<1>2. IsFiniteSet(Untold)
  BY <1>1, Bounds, FS_Subset
<1>3. Cardinality(Untold) \in Nat /\ (Cardinality(Untold) = 0 <=> Untold = {})
  BY <1>2, FS_CardinalityType, FS_EmptySet
<1>4. \A s \in Untold : Cardinality(Untold \ {s}) = Cardinality(Untold) - 1
  BY <1>2, FS_RemoveElement
<1> QED
  BY <1>3, <1>4

(* As long as someone's exit is unanswered, the queue is there. *)
LEMMA Busy ==
  ASSUME Kinds, FreshInv, NEW s \in Senders, ~Told(s)
  PROVE  must_stop > 0 /\ ~removed /\ rcv \notin {"msgctl", "done"}
<1>1. s \in Untold
  BY DEF Untold
<1>2. must_stop > 0
  BY <1>1, Counting DEF FreshInv
<1> QED
  BY <1>2 DEF FreshInv, Kinds

LEMMA StaysAlone ==
  ASSUME NEW s \in Senders, Alone(s),
         \A t \in Senders \ {s} : snd'[t] = snd[t] /\ buf'[t] = buf[t]
  PROVE  Alone(s)'
BY DEF Alone, Idle, Ended

(* What the others have been told does not depend on the receiver. *)
LEMMA SameUntold ==
  ASSUME NEW s \in Senders, Alone(s), Told(s)' <=> Told(s),
         \A t \in Senders \ {s} : snd'[t] = snd[t] /\ buf'[t] = buf[t]
  PROVE  Untold' = Untold
<1>1. Alone(s)'
  BY StaysAlone
<1>2. \A t \in Senders \ {s} : Told(t)' <=> Told(t)
  BY <1>1 DEF Alone, Idle, Ended, Told
<1>3. \A t \in Senders : Told(t)' <=> Told(t)
  BY <1>2
<1> QED
  BY <1>3 DEF Untold

(* A step of the one who has the turn, after which it has it still. *)
LEMMA KeepsTurn ==
  ASSUME FreshInv, NEW s \in Senders, Alone(s), Told(s)' <=> Told(s),
         \A t \in Senders \ {s} : snd'[t] = snd[t] /\ buf'[t] = buf[t],
         snd_mutex' = 0, must_stop' = must_stop, removed' <=> rcv' = "done", Turn(s)'
  PROVE  FreshInv'
<1>1. Untold' = Untold
  BY SameUntold
<1>2. Alone(s)'
  BY StaysAlone
<1>3. Stage'
  BY <1>2 DEF Stage
<1> QED
  BY <1>1, <1>3 DEF FreshInv

LEMMA FreshSender ==
  ASSUME Kinds, Leavers, FreshInv, ~failed, NEW s \in Senders, SenderStep(s) \/ read_line(s)
  PROVE  FreshInv'
<1>1. \A t \in Senders \ {s} : snd'[t] = snd[t] /\ buf'[t] = buf[t]
  BY OneMoves
<1>2. CASE snd_mutex = 1 /\ Quiet
  <2>1. Idle(s) \/ Ended(s)
    BY <1>2 DEF Quiet
  <2>2. take_turn(s)
    BY <2>1 DEF SenderStep, read_line, send, announce, read_reply, end_turn, goes, Idle, Ended
  <2>3. snd'[s] = "fgets" /\ buf' = buf /\ snd_mutex' = 0
    BY <1>2, <2>2 DEF take_turn, goes, Kinds
  <2>4. Idle(s)
    BY <2>1, <2>2 DEF take_turn, goes, Ended
  <2>5. Alone(s)
    BY <1>2 DEF Quiet, Alone
  <2>6. UNCHANGED <<rcv_mutex, queue, removed, failed, rcv, must_stop>>
    BY <2>2 DEF take_turn
  <2>7. Told(s)' <=> Told(s)
    BY <2>3, <2>4, <2>6 DEF Told, Idle
  <2>8. Turn(s)'
    BY <1>2, <2>3, <2>4, <2>6 DEF Turn, Typing, Quiet, Resting, Idle
  <2>9. removed' <=> rcv' = "done"
    BY <2>6 DEF FreshInv
  <2> QED
    BY <1>1, <2>3, <2>5, <2>6, <2>7, <2>8, <2>9, KeepsTurn
<1>3. CASE snd_mutex = 0 /\ \E u \in Senders : Alone(u) /\ Turn(u)
  <2>1. PICK u \in Senders : Alone(u) /\ Turn(u)
    BY <1>3
  <2>2. ~take_turn(s)
    BY <1>3 DEF take_turn
  <2>3. ~Idle(s) /\ ~Ended(s)
    BY <2>2 DEF SenderStep, read_line, send, announce, read_reply, end_turn, goes, Idle, Ended
  <2>4. Alone(s) /\ Turn(s)
    BY <2>1, <2>3 DEF Alone
  <2>5. CASE Typing(s)
    <3>1. ~Told(s)
      BY <2>5 DEF Typing, Told
    <3>2. ~removed
      BY <3>1, Busy
    <3>3. CASE read_line(s)
      <4>1. snd'[s] = "msgsnd" /\ buf'[s] \in {"text", "exit"}
        BY <3>3 DEF read_line, goes, Kinds
      <4>2. UNCHANGED <<snd_mutex, rcv_mutex, queue, removed, failed, rcv, must_stop>>
        BY <3>3 DEF read_line, sems
      <4>3. Turn(s)' /\ ~Told(s)'
        BY <2>5, <4>1, <4>2 DEF Turn, Typing, Resting, Told
      <4>4. removed' <=> rcv' = "done"
        BY <4>2 DEF FreshInv
      <4> QED
        BY <1>1, <1>3, <2>4, <3>1, <4>2, <4>3, <4>4, KeepsTurn
    <3>4. CASE send(s)
      <4>1. snd'[s] = "V(rcv_mutex)" /\ buf' = buf /\ snd[s] = "msgsnd"
        BY <3>4 DEF send, goes, Kinds
      <4>2. queue' = Append(queue, Request(s, buf[s])) /\ failed' = failed
        BY <3>2, <3>4 DEF send, CheckFails
      <4>3. UNCHANGED <<snd_mutex, rcv_mutex, removed, rcv, must_stop>>
        BY <3>4 DEF send, sems
      <4>4. queue' = <<Request(s, buf[s])>>
        BY <2>5, <4>2 DEF Typing
      <4>5. Posting(s)'
        BY <2>5, <4>1, <4>3, <4>4 DEF Posting, Typing, Resting
      <4>6. Turn(s)' /\ ~Told(s)'
        BY <4>1, <4>2, <4>5, <2>5 DEF Turn, Told, Typing, Posting
      <4>7. removed' <=> rcv' = "done"
        BY <4>3 DEF FreshInv
      <4> QED
        BY <1>1, <1>3, <2>4, <3>1, <4>3, <4>6, <4>7, KeepsTurn
    <3> QED
      BY <2>2, <2>5, <3>3, <3>4 DEF SenderStep, Typing, announce, read_reply, end_turn, goes
  <2>6. CASE Posting(s)
    <3>1. announce(s)
      BY <2>2, <2>6 DEF SenderStep, Posting, read_line, send, read_reply, end_turn, goes
    <3>2. ~Told(s)
      BY <2>6 DEF Posting, Told
    <3>3. ~removed /\ rcv = "P(rcv_mutex)"
      BY <2>6, <3>2, Busy DEF Posting, Resting
    <3>4. /\ buf' = buf /\ rcv_mutex' = 1
          /\ snd'[s] = IF buf[s] = "exit" THEN "msgrcv" ELSE "P(snd_mutex)"
      BY <2>6, <3>1 DEF announce, goes, Kinds, Posting, Resting
    <3>5. UNCHANGED <<snd_mutex, queue, removed, failed, rcv, must_stop>>
      BY <3>1 DEF announce
    <3>6. Sent(s)'
      BY <2>6, <3>4 DEF Sent, Posting
    <3>7. Posted(s)'
      BY <2>6, <3>3, <3>4, <3>5, <3>6 DEF Posted, Posting
    <3>8. Turn(s)' /\ ~Told(s)'
      BY <2>6, <3>4, <3>5, <3>7 DEF Turn, Told, Posting, Resting
    <3>9. removed' <=> rcv' = "done"
      BY <3>5 DEF FreshInv
    <3> QED
      BY <1>1, <1>3, <2>4, <3>2, <3>5, <3>8, <3>9, KeepsTurn
  <2>7. CASE Posted(s) \/ Taken(s)
    <3>1. ~Told(s)
      BY <2>7 DEF Posted, Taken, Sent, Told, Resting
    <3>2. ~removed
      BY <3>1, Busy
    <3>3. queue = <<Request(s, buf[s])>> \/ queue = <<>>
      BY <2>7 DEF Posted, Taken
    <3>4. \A i \in 1..Len(queue) : queue[i] # Reply(s)
      <4>1. CASE queue = <<Request(s, buf[s])>>
        BY <4>1 DEF Request, Reply
      <4>2. CASE queue = <<>>
        BY <4>2
      <4> QED
        BY <3>3, <4>1, <4>2
    <3>5. ~read_reply(s)
      BY <3>2, <3>4 DEF read_reply, CheckFails
    <3> QED
      BY <2>2, <2>7, <3>5 DEF SenderStep, Posted, Taken, Sent, read_line, send, announce,
           end_turn, goes
  <2>8. CASE Shown(s)
    BY <2>2, <2>8 DEF SenderStep, Shown, read_line, send, announce, read_reply, end_turn, goes
  <2>9. CASE Answered(s)
    <3>1. read_reply(s)
      BY <2>2, <2>9 DEF SenderStep, Answered, read_line, send, announce, end_turn, goes
    <3>2. Told(s)
      BY <2>9 DEF Answered, Told
    <3>3. snd'[s] = "V(snd_mutex)" /\ UNCHANGED <<snd_mutex, rcv_mutex, removed, rcv, must_stop>>
      BY <3>1 DEF read_reply, goes, Kinds, sems
    <3>4. removed' <=> rcv' = "done"
      BY <3>3 DEF FreshInv
    <3>5. CASE removed
      <4>1. failed' = TRUE /\ queue' = queue /\ buf' = buf
        BY <3>1, <3>5 DEF read_reply, CheckFails
      <4>2. Lost(s)' /\ Told(s)'
        BY <2>9, <3>3, <3>5, <4>1 DEF Answered, Lost, Told, Resting
      <4>3. Turn(s)'
        BY <4>1, <4>2 DEF Turn
      <4> QED
        BY <1>1, <1>3, <2>4, <3>2, <3>3, <3>4, <4>2, <4>3, KeepsTurn
    <3>6. CASE ~removed
      <4>1. queue = <<Reply(s)>>
        BY <2>9, <3>6 DEF Answered
      <4>2. PICK i \in 1..Len(queue) :
              /\ queue' = SubSeq(queue, 1, i - 1) \o SubSeq(queue, i + 1, Len(queue))
              /\ buf' = [buf EXCEPT ![s] = "over"]
              /\ UNCHANGED failed
        BY <3>1, <3>6 DEF read_reply, CheckFails
      <4>3. Len(queue) = 1 /\ i = 1
        BY <4>1
      <4>4. SubSeq(queue, 1, 0) = <<>> /\ SubSeq(queue, 2, 1) = <<>>
        BY <4>1
      <4>5. queue' = <<>>
        BY <4>2, <4>3, <4>4
      <4>6. buf'[s] = "over" /\ ~failed'
        BY <4>2 DEF Kinds
      <4>7. Ending(s)' /\ Told(s)'
        BY <2>9, <3>3, <4>5, <4>6 DEF Answered, Ending, Told, Resting
      <4>8. Turn(s)'
        BY <4>6, <4>7 DEF Turn
      <4> QED
        BY <1>1, <1>3, <2>4, <3>2, <3>3, <3>4, <4>7, <4>8, KeepsTurn
    <3> QED
      BY <3>5, <3>6
  <2>10. CASE Ending(s)
    <3>1. end_turn(s)
      BY <2>2, <2>10 DEF SenderStep, Ending, read_line, send, announce, read_reply, goes
    <3>2. snd_mutex' = 1 /\ snd'[s] = "done" /\ buf' = buf
      BY <1>3, <3>1 DEF end_turn, goes, Kinds
    <3>3. UNCHANGED <<rcv_mutex, queue, removed, failed, rcv, must_stop>>
      BY <3>1 DEF end_turn
    <3>4. Told(s) /\ Told(s)'
      BY <2>10, <3>2 DEF Ending, Told
    <3>5. Untold' = Untold
      BY <1>1, <2>4, <3>4, SameUntold
    <3>6. Alone(s)'
      BY <1>1, <2>4, StaysAlone
    <3>7. Ended(s)'
      BY <2>10, <3>2 DEF Ending, Ended
    <3>8. Quiet'
      BY <2>10, <3>3, <3>6, <3>7 DEF Ending, Quiet, Alone, Resting
    <3>9. Stage'
      BY <3>2, <3>3, <3>8 DEF Stage
    <3> QED
      BY <3>3, <3>5, <3>9 DEF FreshInv
  <2> QED
    BY <2>4, <2>5, <2>6, <2>7, <2>8, <2>9, <2>10 DEF Turn
<1> QED
  BY <1>2, <1>3 DEF FreshInv, Stage

(* The receiver ends with the last exit; until then the queue is there.    *)
LEMMA FreshRemoves ==
  ASSUME Kinds, FreshInv, ~failed, remove
  PROVE  FreshInv'
<1>1. rcv = "msgctl" /\ rcv' = "done" /\ removed' = TRUE /\ queue' = <<>>
  BY DEF remove, rcv_goes
<1>2. UNCHANGED <<snd_mutex, rcv_mutex, failed, snd, buf, must_stop>>
  BY DEF remove, sems
<1>3. \A s \in Senders : Told(s)' <=> Told(s)
  BY <1>1, <1>2 DEF Told, Resting
<1>4. Untold' = Untold
  BY <1>3 DEF Untold
<1>5. CASE snd_mutex = 1 /\ Quiet
  <2>1. Quiet'
    BY <1>1, <1>2, <1>5 DEF Quiet, Idle, Ended, Resting
  <2> QED
    BY <1>1, <1>2, <1>4, <1>5, <2>1 DEF FreshInv, Stage
<1>6. CASE snd_mutex = 0 /\ \E s \in Senders : Alone(s) /\ Turn(s)
  <2>1. PICK s \in Senders : Alone(s) /\ Turn(s)
    BY <1>6
  <2>2. Told(s)
    BY <1>1, Busy
  <2>3. Answered(s) \/ Ending(s)
    BY <1>1, <2>1, <2>2 DEF Turn, Typing, Posting, Posted, Taken, Shown, Sent, Told
  <2>4. Turn(s)'
    BY <1>1, <1>2, <2>3 DEF Turn, Answered, Ending, Resting
  <2>5. Alone(s)'
    BY <1>2, <2>1, StaysAlone
  <2> QED
    BY <1>1, <1>2, <1>4, <1>6, <2>4, <2>5 DEF FreshInv, Stage
<1> QED
  BY <1>5, <1>6 DEF FreshInv, Stage

LEMMA FreshReceiver ==
  ASSUME Kinds, Leavers, FreshInv, ~failed, ReceiverStep
  PROVE  FreshInv'
<1>1. snd' = snd /\ buf' = buf
  BY DEF ReceiverStep, await_message, receive, answer, display, give_turn, remove
<1>2. CASE remove
  BY <1>2, FreshRemoves
<1>3. CASE ~remove
  <2>1. ~Resting \/ rcv = "done" \/ rcv = "msgctl"
    BY <1>3 DEF ReceiverStep, await_message, receive, answer, display, give_turn, rcv_goes, Resting
  <2>2. ~Resting
    BY <1>3, <2>1 DEF ReceiverStep, await_message, receive, answer, display, give_turn, rcv_goes
  <2>3. PICK s \in Senders : Alone(s) /\ Turn(s)
    BY <2>2 DEF FreshInv, Stage, Quiet
  <2>4. snd_mutex = 0
    BY <2>2 DEF FreshInv, Stage, Quiet
  <2>5. Posted(s) \/ Taken(s) \/ Shown(s)
    BY <2>2, <2>3 DEF Turn, Typing, Posting, Answered, Ending, Lost
  <2>6. ~Told(s)
    BY <2>2, <2>5 DEF Posted, Taken, Shown, Sent, Told
  <2>7. must_stop > 0 /\ ~removed /\ rcv \notin {"msgctl", "done"}
    BY <2>6, Busy
  <2>8. \A t \in Senders \ {s} : snd'[t] = snd[t] /\ buf'[t] = buf[t]
    BY <1>1
  <2>9. CASE await_message
    <3>1. rcv = "P(rcv_mutex)" /\ rcv' = "msgrcv" /\ rcv_mutex' = rcv_mutex - 1
      BY <2>9 DEF await_message, rcv_goes
    <3>2. UNCHANGED <<snd_mutex, queue, removed, failed, must_stop>>
      BY <2>9 DEF await_message
    <3>3. Posted(s)'
      BY <1>1, <2>5, <3>1, <3>2 DEF Posted, Taken, Shown, Sent
    <3>4. Turn(s)' /\ ~Told(s)'
      BY <1>1, <2>2, <2>5, <2>3, <3>1, <3>2, <3>3 DEF Turn, Told, Resting, Posted, Sent, Lost
    <3>5. removed' <=> rcv' = "done"
      BY <2>7, <3>1, <3>2
    <3> QED
      BY <2>3, <2>4, <2>6, <2>8, <3>2, <3>4, <3>5, KeepsTurn
  <2>10. CASE receive
    <3>1. rcv = "msgrcv" /\ rcv' = "strncmp" /\ rbuf' = Head(queue) /\ queue' = Tail(queue)
      BY <2>10 DEF receive, rcv_goes
    <3>2. UNCHANGED <<snd_mutex, rcv_mutex, removed, failed, must_stop>>
      BY <2>10 DEF receive, sems
    <3>3. Posted(s)
      BY <2>5, <3>1 DEF Taken, Shown
    <3>4. queue = <<Request(s, buf[s])>> /\ rcv_mutex = 0 /\ Sent(s)
      BY <3>1, <3>3 DEF Posted
    <3>5. rbuf' = Request(s, buf[s]) /\ queue' = <<>>
      BY <3>1, <3>4
    <3>6. Taken(s)'
      BY <1>1, <3>1, <3>2, <3>4, <3>5 DEF Taken, Sent, Request
    <3>7. Turn(s)' /\ ~Told(s)'
      BY <1>1, <2>2, <2>3, <3>1, <3>2, <3>3, <3>6 DEF Turn, Told, Resting, Posted, Sent, Lost, Taken
    <3>8. removed' <=> rcv' = "done"
      BY <2>7, <3>1, <3>2
    <3> QED
      BY <2>3, <2>4, <2>6, <2>8, <3>2, <3>7, <3>8, KeepsTurn
  <2>11. CASE answer
    <3>1. /\ rcv = "strncmp" /\ rcv' \in {"msgctl", "P(rcv_mutex)"} /\ rbuf.text = "exit"
          /\ queue' = Append(queue, Reply(rbuf.who)) /\ must_stop' = must_stop - 1
      BY <2>11 DEF answer, rcv_goes
    <3>2. UNCHANGED <<snd_mutex, rcv_mutex, removed, failed>>
      BY <2>11 DEF answer, sems
    <3>3. Taken(s)
      BY <2>5, <3>1 DEF Posted, Shown
    <3>4. /\ queue = <<>> /\ rcv_mutex = 0
          /\ rbuf.who = s /\ rbuf.text = buf[s]
      BY <3>3 DEF Taken, Request
    <3>5. queue' = <<Reply(s)>> /\ buf[s] = "exit" /\ snd[s] = "msgrcv"
      BY <3>1, <3>3, <3>4 DEF Taken, Sent
    <3>6. Answered(s)'
      BY <1>1, <2>7, <3>1, <3>2, <3>4, <3>5 DEF Answered, Resting
    <3>7. Turn(s)' /\ Told(s)'
      BY <2>3, <3>2, <3>3, <3>6 DEF Turn, Told, Lost, Taken, Sent, Answered
    <3>8. Alone(s)'
      BY <2>3, <2>8, StaysAlone
    <3>9. \A t \in Senders \ {s} : Told(t)' <=> Told(t)
      BY <2>3, <2>8, <3>8 DEF Alone, Idle, Ended, Told
    <3>10. Untold' = Untold \ {s} /\ s \in Untold
      BY <2>6, <3>7, <3>9 DEF Untold
    <3>11. must_stop' = Cardinality(Untold')
      BY <3>1, <3>10, Counting DEF FreshInv
    <3>12. Stage' /\ (removed' <=> rcv' = "done")
      BY <2>4, <2>7, <3>1, <3>2, <3>7, <3>8 DEF Stage
    <3> QED
      BY <3>11, <3>12 DEF FreshInv
  <2>12. CASE display
    <3>1. rcv = "strncmp" /\ rcv' = "V(snd_mutex)" /\ rbuf.text # "exit"
      BY <2>12 DEF display, rcv_goes
    <3>2. UNCHANGED <<snd_mutex, rcv_mutex, queue, removed, failed, must_stop>>
      BY <2>12 DEF display, sems
    <3>3. Taken(s)
      BY <2>5, <3>1 DEF Posted, Shown
    <3>4. rbuf.text = buf[s]
      BY <3>3 DEF Taken, Request
    <3>5. Shown(s)'
      BY <1>1, <3>1, <3>2, <3>3, <3>4 DEF Taken, Sent, Shown
    <3>6. Turn(s)' /\ ~Told(s)'
      BY <2>3, <3>2, <3>3, <3>5 DEF Turn, Told, Lost, Taken, Sent, Shown
    <3>7. removed' <=> rcv' = "done"
      BY <2>7, <3>1, <3>2
    <3> QED
      BY <2>3, <2>4, <2>6, <2>8, <3>2, <3>6, <3>7, KeepsTurn
  <2>13. CASE give_turn
    <3>1. rcv = "V(snd_mutex)" /\ rcv' = "P(rcv_mutex)" /\ snd_mutex' = 1
      BY <2>4, <2>13 DEF give_turn, rcv_goes
    <3>2. UNCHANGED <<rcv_mutex, queue, removed, failed, must_stop>>
      BY <2>13 DEF give_turn
    <3>3. Shown(s)
      BY <2>5, <3>1 DEF Posted, Taken
    <3>4. Told(s)' <=> Told(s)
      BY <1>1, <2>6, <3>3 DEF Shown, Told
    <3>5. Untold' = Untold
      BY <2>3, <2>8, <3>4, SameUntold
    <3>6. Quiet'
      BY <1>1, <2>3, <3>1, <3>2, <3>3 DEF Quiet, Alone, Shown, Idle, Ended, Resting
    <3>7. ~failed'
      BY <3>2
    <3> QED
      BY <2>7, <3>1, <3>2, <3>5, <3>6, <3>7 DEF FreshInv, Stage
  <2> QED
    BY <1>3, <2>9, <2>10, <2>11, <2>12, <2>13 DEF ReceiverStep
<1> QED
  BY <1>2, <1>3

(* How a process begins. *)
LEMMA FreshStarts ==
  ASSUME start_again, Kinds, leftover' = 0
  PROVE  FreshInv'
<1>1. queue' = <<>>
  <2>1. queue' = queue /\ Len(queue) = 0
    BY DEF start_again
  <2> QED
    BY <2>1, EmptySeq DEF Kinds
<1>2. \A s \in Senders : Idle(s)' /\ ~Told(s)'
  BY DEF start_again, Idle, Told
<1>3. Untold' = Senders
  BY <1>2 DEF Untold
<1>4. Quiet'
  BY <1>1, <1>2 DEF start_again, Quiet, Resting
<1> QED
  BY <1>3, <1>4 DEF start_again, FreshInv, Stage
-----------------------------------------------------------------------------
(* What was left behind is shown first. *)

LEMMA LateStarts ==
  ASSUME start_again, Kinds
  PROVE  LateInv' /\ ~failed' /\ ~removed'
<1>1. \A s \in Senders : snd'[s] = "P(snd_mutex)"
  BY DEF start_again
<1>2. snd_mutex' = 1 /\ rcv_mutex' = 0 /\ rcv' = "P(rcv_mutex)" /\ ~failed' /\ ~removed'
  BY DEF start_again
<1>3. Extra' = 0 /\ Prompted' = {}
  BY <1>1, <1>2 DEF Extra, Prompted
<1>4. leftover' \in Nat /\ leftover' + 0 = leftover'
  BY LenProperties DEF start_again, Kinds
<1>5. Len(queue') = leftover'
  BY DEF start_again
<1>6. Len(queue') = leftover' + Extra'
  BY <1>3, <1>4, <1>5
<1> QED
  BY <1>1, <1>2, <1>3, <1>6 DEF LateInv

LEMMA Earlier ==
  ASSUME Kinds, Leavers, Early', \/ ReceiverStep
                                \/ \E s \in Senders : SenderStep(s) \/ read_line(s)
  PROVE  Early
<1>1. CASE ReceiverStep
  <2>1. buf' = buf /\ (must_stop' = must_stop \/ must_stop' = must_stop - 1)
    BY <1>1 DEF ReceiverStep, await_message, receive, answer, display, give_turn, remove
  <2>2. must_stop = Cardinality(Senders)
    BY <2>1, Bounds DEF Early, Kinds
  <2> QED
    BY <2>1, <2>2 DEF Early
<1>2. ASSUME NEW s \in Senders, SenderStep(s) \/ read_line(s)
      PROVE  Early
  <2>1. must_stop' = must_stop
    BY <1>2 DEF SenderStep, take_turn, read_line, send, announce, read_reply, end_turn
  <2>2. \A t \in Senders \ {s} : buf[t] = buf'[t]
    BY <1>2, OneMoves
  <2>3. buf[s] \in {"none", "text"}
    <3>1. CASE read_line(s)
      BY <3>1 DEF read_line, goes, Leavers, Kinds
    <3>2. CASE read_reply(s)
      BY <3>2 DEF read_reply, Early, Kinds
    <3>3. CASE ~read_line(s) /\ ~read_reply(s)
      BY <1>2, <3>3 DEF SenderStep, take_turn, send, announce, end_turn, Early
    <3> QED
      BY <3>1, <3>2, <3>3
  <2> QED
    BY <2>1, <2>2, <2>3 DEF Early
<1> QED
  BY <1>1, <1>2

(* A sender's step while no one has said exit. *)
LEMMA LateSender ==
  ASSUME Kinds, Leavers, Early, Early', LateInv, ~failed, ~removed,
         NEW s \in Senders, SenderStep(s) \/ read_line(s)
  PROVE  LateInv' /\ ~failed' /\ ~removed'
<1>1. \A t \in Senders \ {s} : snd'[t] = snd[t] /\ buf'[t] = buf[t]
  BY OneMoves
<1>2. Len(queue) \in Nat /\ leftover \in Nat /\ Len(queue) = leftover + Extra
  BY LenProperties DEF Kinds, LateInv
<1>3. CASE take_turn(s)
  <2>1. snd[s] = "P(snd_mutex)" /\ snd'[s] = "fgets" /\ snd_mutex = 1 /\ snd_mutex' = 0
    BY <1>3 DEF take_turn, goes, Kinds, LateInv
  <2>2. UNCHANGED <<rcv_mutex, queue, removed, failed, rcv, leftover>>
    BY <1>3 DEF take_turn, SameRun
  <2>3. rcv_mutex = 0 /\ Prompted = {} /\ rcv = "P(rcv_mutex)"
    BY <2>1 DEF LateInv
  <2>4. Prompted' = {s}
    BY <1>1, <2>1, <2>3 DEF Prompted
  <2>5. Extra = 0 /\ Extra' = 0
    <3>1. \A t \in Senders : snd[t] # "V(rcv_mutex)" /\ snd'[t] # "V(rcv_mutex)"
      BY <1>1, <2>1, <2>3 DEF Prompted
    <3> QED
      BY <2>2, <2>3, <3>1 DEF Extra
  <2>6. \A t \in Senders : snd'[t] \in {"P(snd_mutex)", "fgets", "msgsnd", "V(rcv_mutex)"}
    BY <1>1, <2>1 DEF LateInv
  <2>7. Len(queue') = leftover' + Extra'
    BY <1>2, <2>2, <2>5
  <2> QED
    BY <2>1, <2>2, <2>3, <2>4, <2>6, <2>7 DEF LateInv
<1>4. CASE read_line(s)
  <2>1. snd[s] = "fgets" /\ snd'[s] = "msgsnd"
    BY <1>4 DEF read_line, goes, Kinds
  <2>2. UNCHANGED <<snd_mutex, rcv_mutex, queue, removed, failed, rcv, leftover>>
    BY <1>4 DEF read_line, sems, SameRun
  <2>3. Prompted' = Prompted
    BY <1>1, <2>1 DEF Prompted
  <2>4. Extra' = Extra
    <3>1. (\E t \in Senders : snd'[t] = "V(rcv_mutex)") <=> (\E t \in Senders : snd[t] = "V(rcv_mutex)")
      BY <1>1, <2>1
    <3> QED
      BY <2>2, <3>1 DEF Extra
  <2>5. \A t \in Senders : snd'[t] \in {"P(snd_mutex)", "fgets", "msgsnd", "V(rcv_mutex)"}
    BY <1>1, <2>1 DEF LateInv
  <2> QED
    BY <2>2, <2>3, <2>4, <2>5 DEF LateInv
<1>5. CASE send(s)
  <2>1. snd[s] = "msgsnd" /\ snd'[s] = "V(rcv_mutex)"
    BY <1>5 DEF send, goes, Kinds
  <2>2. UNCHANGED <<snd_mutex, rcv_mutex, removed, failed, rcv, leftover>>
    BY <1>5 DEF send, CheckFails, sems, SameRun
  <2>3. queue' = Append(queue, Request(s, buf[s])) /\ Len(queue') = Len(queue) + 1
    BY <1>5, AppendProperties DEF send, CheckFails, Kinds
  <2>4. s \in Prompted
    BY <2>1 DEF Prompted
  <2>5. snd_mutex = 0 /\ rcv_mutex = 0 /\ rcv = "P(rcv_mutex)" /\ Prompted = {s}
    BY <2>4 DEF LateInv
  <2>6. Prompted' = Prompted
    BY <1>1, <2>1 DEF Prompted
  <2>7. \A t \in Senders : snd[t] # "V(rcv_mutex)"
    BY <2>1, <2>5 DEF Prompted
  <2>8. Extra = 0 /\ Extra' = 1
    BY <2>1, <2>5, <2>7 DEF Extra
  <2>9. \A t \in Senders : snd'[t] \in {"P(snd_mutex)", "fgets", "msgsnd", "V(rcv_mutex)"}
    BY <1>1, <2>1 DEF LateInv
  <2>10. Len(queue') = leftover' + Extra'
    BY <1>2, <2>2, <2>3, <2>8
  <2> QED
    BY <2>2, <2>5, <2>6, <2>9, <2>10 DEF LateInv
<1>6. CASE announce(s)
  <2>1. snd[s] = "V(rcv_mutex)"
    BY <1>6 DEF announce, goes
  <2>2. buf[s] # "exit"
    BY DEF Early
  <2>3. snd'[s] = "P(snd_mutex)" /\ rcv_mutex' = rcv_mutex + 1
    BY <1>6, <2>2 DEF announce, goes, Kinds
  <2>4. UNCHANGED <<snd_mutex, queue, removed, failed, rcv, leftover>>
    BY <1>6 DEF announce, SameRun
  <2>5. s \in Prompted
    BY <2>1 DEF Prompted
  <2>6. snd_mutex = 0 /\ rcv_mutex = 0 /\ rcv = "P(rcv_mutex)" /\ Prompted = {s}
    BY <2>5 DEF LateInv
  <2>7. Prompted' = {}
    BY <1>1, <2>3, <2>6 DEF Prompted
  <2>8. Extra = 1 /\ Extra' = 1
    BY <2>1, <2>3, <2>6 DEF Extra
  <2>9. \A t \in Senders : snd'[t] \in {"P(snd_mutex)", "fgets", "msgsnd", "V(rcv_mutex)"}
    BY <1>1, <2>3 DEF LateInv
  <2>10. Len(queue') = leftover' + Extra'
    BY <1>2, <2>4, <2>8
  <2> QED
    BY <2>3, <2>4, <2>6, <2>7, <2>9, <2>10 DEF LateInv
<1>7. ~read_reply(s) /\ ~end_turn(s)
  BY DEF LateInv, read_reply, end_turn, goes
<1> QED
  BY <1>3, <1>4, <1>5, <1>6, <1>7 DEF SenderStep

(* A step of the receiver while no one has said exit. *)
LEMMA LateReceiver ==
  ASSUME Kinds, Early, Early', LateInv, ~failed, ~removed, ReceiverStep
  PROVE  LateInv' /\ ~failed' /\ ~removed'
<1>1. Len(queue) \in Nat /\ leftover \in Nat /\ Len(queue) = leftover + Extra
  BY LenProperties DEF Kinds, LateInv
<1>2. snd' = snd /\ leftover' = leftover /\ failed' = failed
  BY DEF ReceiverStep, await_message, receive, answer, display, give_turn, remove, SameRun
<1>3. Prompted' = Prompted
  BY <1>2 DEF Prompted
<1>4. \A t \in Senders : snd'[t] \in {"P(snd_mutex)", "fgets", "msgsnd", "V(rcv_mutex)"}
  BY <1>2 DEF LateInv
<1>5. rcv # "P(rcv_mutex)" \/ rcv_mutex = 1 => Prompted = {} /\ snd_mutex = 0
  BY DEF LateInv
<1>6. Prompted = {} => \A t \in Senders : snd[t] # "V(rcv_mutex)"
  BY DEF Prompted
<1>7. CASE await_message
  <2>1. rcv = "P(rcv_mutex)" /\ rcv' = "msgrcv" /\ rcv_mutex = 1 /\ rcv_mutex' = 0
    BY <1>7 DEF await_message, rcv_goes, LateInv
  <2>2. UNCHANGED <<snd_mutex, queue, removed>>
    BY <1>7 DEF await_message
  <2>3. Extra = 1 /\ Extra' = 1
    BY <2>1 DEF Extra
  <2>4. Len(queue') = leftover' + Extra'
    BY <1>1, <1>2, <2>2, <2>3
  <2> QED
    BY <1>2, <1>3, <1>4, <1>5, <2>1, <2>2, <2>4 DEF LateInv
<1>8. CASE receive
  <2>1. rcv = "msgrcv" /\ rcv' = "strncmp" /\ queue # <<>> /\ queue' = Tail(queue)
    BY <1>8 DEF receive, rcv_goes
  <2>2. UNCHANGED <<snd_mutex, rcv_mutex, removed>>
    BY <1>8 DEF receive, sems
  <2>3. Len(queue') = Len(queue) - 1
    BY <2>1, HeadTailProperties DEF Kinds
  <2>4. rcv_mutex = 0 /\ Prompted = {}
    BY <2>1 DEF LateInv
  <2>5. Extra = 1 /\ Extra' = 0
    BY <1>2, <1>6, <2>1, <2>2, <2>4 DEF Extra
  <2>6. Len(queue') = leftover' + Extra'
    BY <1>1, <1>2, <2>3, <2>5
  <2> QED
    BY <1>2, <1>3, <1>4, <1>5, <2>1, <2>2, <2>4, <2>6 DEF LateInv
<1>9. ~answer
  BY Bounds DEF answer, Early, Kinds
<1>10. CASE display
  <2>1. rcv = "strncmp" /\ rcv' = "V(snd_mutex)"
    BY <1>10 DEF display, rcv_goes
  <2>2. UNCHANGED <<snd_mutex, rcv_mutex, queue, removed>>
    BY <1>10 DEF display, sems
  <2>3. rcv_mutex = 0 /\ Prompted = {}
    BY <2>1 DEF LateInv
  <2>4. Extra' = Extra
    BY <1>2, <2>1, <2>2 DEF Extra
  <2> QED
    BY <1>2, <1>3, <1>4, <1>5, <2>1, <2>2, <2>3, <2>4 DEF LateInv
<1>11. CASE give_turn
  <2>1. rcv = "V(snd_mutex)" /\ rcv' = "P(rcv_mutex)" /\ snd_mutex' = snd_mutex + 1
    BY <1>11 DEF give_turn, rcv_goes
  <2>2. UNCHANGED <<rcv_mutex, queue, removed>>
    BY <1>11 DEF give_turn
  <2>3. rcv_mutex = 0 /\ Prompted = {} /\ snd_mutex = 0
    BY <2>1 DEF LateInv
  <2>4. Extra' = Extra
    BY <1>2, <2>1, <2>2 DEF Extra
  <2> QED
    BY <1>2, <1>3, <1>4, <2>1, <2>2, <2>3, <2>4 DEF LateInv
<1>12. ~remove
  BY DEF remove, rcv_goes, LateInv
<1> QED
  BY <1>7, <1>8, <1>9, <1>10, <1>11, <1>12 DEF ReceiverStep
-----------------------------------------------------------------------------
(* Theorems *)

LEMMA InitInv == Init => Inv
<1> SUFFICES ASSUME Init PROVE Inv
  OBVIOUS
<1>1. Kinds /\ Leavers
  BY InitKinds DEF Init, Leavers
<1>2. FreshInv
  <2>1. \A s \in Senders : Idle(s) /\ ~Told(s)
    BY DEF Init, Idle, Told
  <2>2. Untold = Senders
    BY <2>1 DEF Untold
  <2>3. Quiet
    BY <2>1 DEF Init, Quiet, Resting
  <2> QED
    BY <2>2, <2>3 DEF Init, FreshInv, Stage
<1>3. LateInv
  <2>1. \A s \in Senders : snd[s] = "P(snd_mutex)"
    BY DEF Init
  <2>2. Extra = 0 /\ Prompted = {}
    BY <2>1 DEF Init, Extra, Prompted
  <2>3. Len(queue) = leftover + Extra
    BY <2>2 DEF Init
  <2> QED
    BY <2>1, <2>2, <2>3 DEF Init, LateInv
<1> QED
  BY <1>1, <1>2, <1>3 DEF Init, Inv

LEMMA StepInv == Inv /\ [Next]_vars => Inv'
<1> SUFFICES ASSUME Inv, [Next]_vars PROVE Inv'
  OBVIOUS
<1> USE DEF Inv
<1>1. ASSUME ~failed, NEW s \in Senders, SenderStep(s) \/ read_line(s)
      PROVE  Inv'
  <2>1. Kinds' /\ Leavers'
    BY <1>1, SenderKinds, SenderLeaves
  <2>2. Fresh' => Fresh
    BY <1>1 DEF SenderStep, take_turn, read_line, send, announce, read_reply, end_turn, SameRun, Fresh
  <2>3. Fresh' => FreshInv'
    BY <1>1, <2>2, FreshSender
  <2>4. Early' => LateInv' /\ ~failed' /\ ~removed'
    BY <1>1, Earlier, LateSender
  <2> QED
    BY <2>1, <2>3, <2>4
<1>2. ASSUME ~failed, ReceiverStep
      PROVE  Inv'
  <2>1. Kinds' /\ Leavers'
    BY <1>2, ReceiverKinds, OthersLeave
  <2>2. Fresh' => Fresh
    BY <1>2 DEF ReceiverStep, await_message, receive, answer, display, give_turn, remove, SameRun, Fresh
  <2>3. Fresh' => FreshInv'
    BY <1>2, <2>2, FreshReceiver
  <2>4. Early' => LateInv' /\ ~failed' /\ ~removed'
    BY <1>2, Earlier, LateReceiver
  <2> QED
    BY <2>1, <2>3, <2>4
<1>3. CASE start_again
  <2>1. Kinds' /\ Leavers'
    BY <1>3, AgainKinds, OthersLeave
  <2>2. Fresh' => FreshInv'
    BY <1>3, FreshStarts DEF Fresh
  <2>3. LateInv' /\ ~failed' /\ ~removed'
    BY <1>3, LateStarts
  <2> QED
    BY <2>1, <2>2, <2>3
<1>4. CASE UNCHANGED vars
  <2>1. Kinds'
    BY <1>4 DEF Kinds, vars, local, sems
  <2>2. Leavers'
    BY <1>4, OthersLeave
  <2>3. Fresh' => FreshInv'
    BY <1>4 DEF vars, local, sems, Fresh, FreshInv, Untold, Told, Stage, Quiet, Alone, Turn, Typing,
         Posting, Posted, Taken, Shown, Answered, Ending, Lost, Sent, Resting, Idle, Ended
  <2>4. Early' => LateInv' /\ ~failed' /\ ~removed'
    BY <1>4 DEF vars, local, sems, Early, LateInv, Extra, Prompted
  <2> QED
    BY <2>1, <2>2, <2>3, <2>4
<1> QED
  BY <1>1, <1>2, <1>3, <1>4 DEF Next

LEMMA Inductive == Spec => []Inv
<1>1. Init => Inv
  BY InitInv
<1>2. Inv /\ [Next]_vars => Inv'
  BY StepInv
<1> QED
  BY <1>1, <1>2, PTL DEF Spec

(* Types, and semaphores that count no further than one in a process that  *)
(* found the queue empty, however many senders there are.                  *)
THEOREM TypeCorrect == Spec => []TypeOK
<1>1. Inv => TypeOK
  <2> SUFFICES ASSUME Inv PROVE TypeOK
    OBVIOUS
  <2>1. Fresh => snd_mutex \in 0..1 /\ rcv_mutex \in 0..1
    BY DEF Inv, FreshInv, Stage, Quiet, Turn, Typing, Posting, Posted, Taken, Shown, Answered,
         Ending, Lost, Resting
  <2> QED
    BY <2>1 DEF Inv, Kinds, TypeOK
<1> QED
  BY <1>1, Inductive, PTL

(* The removal of the queue costs one answer at most, and it is the last   *)
(* (main.c:118): every other sender has had its own.                       *)
THEOREM OneAnswerLost == Spec => []OnlyLastAnswerLost
<1>1. Inv => OnlyLastAnswerLost
  <2> SUFFICES ASSUME Inv, Fresh, failed PROVE OnlyLastAnswerLost
    BY DEF OnlyLastAnswerLost
  <2>1. PICK s \in Senders : Alone(s) /\ Lost(s)
    BY DEF Inv, FreshInv, Stage, Turn
  <2>2. removed /\ buf[s] = "exit"
    BY <2>1 DEF Lost
  <2>3. must_stop = 0
    BY <2>2 DEF Inv, FreshInv, Kinds
  <2>4. Untold = {}
    BY <2>3, Counting DEF Inv, FreshInv
  <2>5. ASSUME NEW t \in Senders \ {s}
        PROVE  buf[t] = "over" /\ snd[t] = "done"
    <3>1. Told(t)
      BY <2>4 DEF Untold
    <3> QED
      BY <2>1, <3>1 DEF Alone, Idle, Ended, Told
  <2> QED
    BY <2>2, <2>5 DEF OnlyLastAnswerLost
<1> QED
  BY <1>1, Inductive, PTL

(* However many messages a killed process left behind, the lines of the    *)
(* next are shown that many late until someone says exit.                  *)
THEOREM LateForEver == Spec => []LateByLeftover
<1>1. Inv => LateByLeftover
  <2> SUFFICES ASSUME Inv, Early, snd_mutex = 1 \/ \E s \in Senders : snd[s] = "fgets"
               PROVE  Len(queue) = leftover
    BY DEF LateByLeftover, Early
  <2>1. LateInv /\ leftover \in Nat
    BY DEF Inv, Kinds
  <2>2. /\ \A s \in Senders : snd[s] # "V(rcv_mutex)"
        /\ rcv_mutex = 0 /\ rcv = "P(rcv_mutex)"
    BY <2>1 DEF LateInv, Prompted
  <2>3. Extra = 0
    BY <2>2 DEF Extra
  <2> QED
    BY <2>1, <2>3 DEF LateInv
<1> QED
  BY <1>1, Inductive, PTL
-----------------------------------------------------------------------------
(* The line under way in a process that found the queue empty, by the      *)
(* place where a thread is.                                                *)
Known ==
  /\ \A s \in Senders :
       /\ snd[s] = "fgets" => UnderWay = {}
       /\ snd[s] \in {"msgsnd", "V(rcv_mutex)"} => UnderWay = {Line(s, buf[s])}
       /\ snd[s] = "V(rcv_mutex)" => rcv_mutex = 0 /\ queue = <<Request(s, buf[s])>>
       /\ snd[s] = "msgrcv" => buf[s] = "exit" /\ UnderWay = {Line(s, "exit")}
       /\ snd[s] = "V(snd_mutex)" =>
            \/ buf[s] = "exit" /\ UnderWay = {Line(s, "exit")}
            \/ buf[s] = "over" /\ UnderWay = {}
  /\ rcv_mutex = 1 \/ rcv = "msgrcv" =>
       \E s \in Senders : queue = <<Request(s, buf[s])>> /\ UnderWay = {Line(s, buf[s])}
  /\ rcv = "strncmp" =>
       \E s \in Senders : /\ rbuf = Request(s, buf[s]) /\ UnderWay = {Line(s, buf[s])}
                          /\ buf[s] = "text" \/ (buf[s] = "exit" /\ snd[s] = "msgrcv")
  /\ rcv = "V(snd_mutex)" => UnderWay = {}
  /\ rcv \in {"msgctl", "done"} /\ ~failed =>
       UnderWay = {} \/ \E s \in Senders : snd[s] = "msgrcv"

LEMMA OnTheWay ==
  /\ Quiet => UnderWay = {}
  /\ \A s \in Senders : Alone(s) =>
       /\ Shown(s) \/ Ending(s) => UnderWay = {}
       /\ Typing(s) => UnderWay = IF snd[s] = "fgets" THEN {} ELSE {Line(s, buf[s])}
       /\ Posting(s) \/ Posted(s) \/ Taken(s) => UnderWay = {Line(s, buf[s])}
       /\ Answered(s) \/ Lost(s) => UnderWay = {Line(s, "exit")}
<1> DEFINE Sends  == {Line(t, buf[t]) : t \in {t \in Senders : Sending(t)}}
           Queued == {Line(queue[i].who, queue[i].text) :
                        i \in {i \in 1..Len(queue) : queue[i].to = "receiver"}}
           Held   == {Line(m.who, m.text) : m \in IF rcv = "strncmp" THEN {rbuf} ELSE {}}
<1>1. UnderWay = Sends \cup Queued \cup Held
  BY DEF UnderWay
<1>2. queue = <<>> => Queued = {}
  OBVIOUS
<1>3. \A s \in Senders : queue = <<Reply(s)>> => Queued = {}
  BY DEF Reply
<1>4. \A s \in Senders, text \in {"text", "exit"} :
        queue = <<Request(s, text)>> => Queued = {Line(s, text)}
  BY DEF Request
<1>5. rcv # "strncmp" => Held = {}
  OBVIOUS
<1>6. \A s \in Senders, text \in {"text", "exit"} :
        rcv = "strncmp" /\ rbuf = Request(s, text) => Held = {Line(s, text)}
  BY DEF Request
<1>7. Quiet => Sends = {}
  BY DEF Quiet, Idle, Ended, Sending
<1>8. ASSUME NEW s \in Senders, Alone(s)
      PROVE  Sends = IF Sending(s) THEN {Line(s, buf[s])} ELSE {}
  BY <1>8 DEF Alone, Idle, Ended, Sending
<1> HIDE DEF Sends, Queued, Held
<1>9. Quiet => UnderWay = {}
  BY <1>1, <1>2, <1>5, <1>7 DEF Quiet, Resting
<1>10. ASSUME NEW s \in Senders, Alone(s), Shown(s) \/ Ending(s)
       PROVE  UnderWay = {}
  <2>1. ~Sending(s)
    BY <1>10 DEF Shown, Ending, Sending
  <2> QED
    BY <1>1, <1>2, <1>5, <1>8, <1>10, <2>1 DEF Shown, Ending, Resting
<1>11. ASSUME NEW s \in Senders, Alone(s), Typing(s)
       PROVE  UnderWay = IF snd[s] = "fgets" THEN {} ELSE {Line(s, buf[s])}
  <2>1. Sending(s) <=> snd[s] # "fgets"
    BY <1>11 DEF Typing, Sending
  <2> QED
    BY <1>1, <1>2, <1>5, <1>8, <1>11, <2>1 DEF Typing, Resting
<1>12. ASSUME NEW s \in Senders, Alone(s), Posting(s) \/ Posted(s)
       PROVE  UnderWay = {Line(s, buf[s])}
  <2>1. buf[s] \in {"text", "exit"} /\ queue = <<Request(s, buf[s])>> /\ rcv # "strncmp"
    BY <1>12 DEF Posting, Posted, Sent, Resting
  <2>2. Queued = {Line(s, buf[s])} /\ Held = {}
    BY <1>4, <1>5, <2>1
  <2> QED
    BY <1>1, <1>8, <1>12, <2>2
<1>13. ASSUME NEW s \in Senders, Alone(s), Taken(s)
       PROVE  UnderWay = {Line(s, buf[s])}
  <2>1. buf[s] \in {"text", "exit"}
    BY <1>13 DEF Taken, Sent
  <2>2. Queued = {} /\ Held = {Line(s, buf[s])}
    BY <1>2, <1>6, <1>13, <2>1 DEF Taken
  <2> QED
    BY <1>1, <1>8, <1>13, <2>2
<1>14. ASSUME NEW s \in Senders, Alone(s), Answered(s) \/ Lost(s)
       PROVE  UnderWay = {Line(s, "exit")}
  <2>1. Sending(s) /\ buf[s] = "exit"
    BY <1>14 DEF Answered, Lost, Sending
  <2>2. Queued = {} /\ Held = {}
    BY <1>2, <1>3, <1>5, <1>14 DEF Answered, Lost, Resting
  <2> QED
    BY <1>1, <1>8, <1>14, <2>1, <2>2
<1> QED
  BY <1>9, <1>10, <1>11, <1>12, <1>13, <1>14

LEMMA Know == Kinds /\ FreshInv => Known
<1> SUFFICES ASSUME Kinds, FreshInv PROVE Known
  OBVIOUS
<1>1. CASE snd_mutex = 1 /\ ~failed /\ Quiet
  BY <1>1, OnTheWay DEF Known, Quiet, Idle, Ended, Resting
<1>2. CASE \E s \in Senders : Alone(s) /\ Turn(s)
  <2>1. PICK s \in Senders : Alone(s) /\ Turn(s)
    BY <1>2
  <2>2. \A t \in Senders \ {s} : snd[t] \in {"P(snd_mutex)", "done"}
    BY <2>1 DEF Alone, Idle, Ended
  <2>3. \A t \in Senders : snd[t] \notin {"P(snd_mutex)", "done"} => t = s
    BY <2>2
  <2>4. CASE Typing(s) /\ ~failed
    <3>1. ~Told(s)
      BY <2>4 DEF Typing, Told
    <3> QED
      BY <2>1, <2>3, <2>4, <3>1, Busy, OnTheWay DEF Known, Typing, Resting
  <2>5. CASE Posting(s) /\ ~failed
    <3>1. ~Told(s)
      BY <2>5 DEF Posting, Told
    <3> QED
      BY <2>1, <2>3, <2>5, <3>1, Busy, OnTheWay DEF Known, Posting, Resting
  <2>6. CASE Posted(s) /\ ~failed
    <3>1. UnderWay = {Line(s, buf[s])} /\ queue = <<Request(s, buf[s])>>
      BY <2>1, <2>6, OnTheWay DEF Posted
    <3> QED
      BY <2>3, <2>6, <3>1 DEF Known, Posted, Sent
  <2>7. CASE Taken(s) /\ ~failed
    <3>1. UnderWay = {Line(s, buf[s])} /\ rbuf = Request(s, buf[s])
      BY <2>1, <2>7, OnTheWay DEF Taken
    <3>2. snd[s] = "msgrcv" => buf[s] = "exit" /\ UnderWay = {Line(s, "exit")}
      BY <2>7, <3>1 DEF Taken, Sent
    <3>3. snd[s] \in {"P(snd_mutex)", "msgrcv"} /\ rcv = "strncmp" /\ rcv_mutex = 0
      BY <2>7 DEF Taken, Sent
    <3>4. buf[s] = "text" \/ (buf[s] = "exit" /\ snd[s] = "msgrcv")
      BY <2>7 DEF Taken, Sent
    <3> QED
      BY <2>3, <3>1, <3>2, <3>3, <3>4 DEF Known
  <2>8. CASE Shown(s) /\ ~failed
    BY <2>1, <2>3, <2>8, OnTheWay DEF Known, Shown
  <2>9. CASE Answered(s) /\ ~failed
    BY <2>1, <2>3, <2>9, OnTheWay DEF Known, Answered, Resting
  <2>10. CASE Ending(s) /\ ~failed
    BY <2>1, <2>3, <2>10, OnTheWay DEF Known, Ending, Resting
  <2>11. CASE Lost(s) /\ failed
    BY <2>1, <2>3, <2>11, OnTheWay DEF Known, Lost, Resting
  <2> QED
    BY <2>1, <2>4, <2>5, <2>6, <2>7, <2>8, <2>9, <2>10, <2>11 DEF Turn
<1> QED
  BY <1>1, <1>2 DEF FreshInv, Stage

LEMMA KnowNext == Kinds' /\ FreshInv' => Known'
BY Know, PTL

LineRight ==
  /\ UnderWay = {} => TheLine = [who |-> "none", text |-> "none"]
  /\ \A s \in Senders, text \in {"text", "exit"} : UnderWay = {Line(s, text)} => TheLine = Line(s, text)

LEMMA LineIs == LineRight
<1>1. \A l : UnderWay = {l} => TheLine = l
  BY DEF TheLine
<1> QED
  BY <1>1 DEF LineRight, TheLine

LEMMA LineIsNext == LineRight'
BY LineIs, PTL

LEMMA SameRequest ==
  ASSUME NEW s, NEW t, NEW a, NEW b, Request(s, a) = Request(t, b)
  PROVE  s = t /\ a = b
<1>1. Request(s, a).who = Request(t, b).who /\ Request(s, a).text = Request(t, b).text
  OBVIOUS
<1> QED
  BY <1>1 DEF Request

(* Steps that leave the line under way where it is, or carry it on. *)
LEMMA Carries ==
  ASSUME Kinds, Leavers, Known, Known', NEW s \in Senders,
         take_turn(s) \/ send(s) \/ announce(s) \/ end_turn(s)
  PROVE  UnderWay' = UnderWay /\ buf' = buf
<1>1. buf' = buf /\ rcv' = rcv /\ rbuf' = rbuf
  BY DEF take_turn, send, announce, end_turn
<1>2. CASE take_turn(s) \/ end_turn(s)
  <2>1. queue' = queue /\ \A t \in Senders : Sending(t)' <=> Sending(t)
    BY <1>2 DEF take_turn, end_turn, goes, Sending, Kinds
  <2> QED
    BY <1>1, <2>1 DEF UnderWay
<1>3. CASE send(s)
  <2>1. snd[s] = "msgsnd" /\ snd'[s] = "V(rcv_mutex)"
    BY <1>3 DEF send, goes, Kinds
  <2> QED
    BY <1>1, <2>1 DEF Known
<1>4. CASE announce(s)
  <2>1. snd[s] = "V(rcv_mutex)" /\ queue' = queue /\ rcv_mutex' = rcv_mutex + 1
    BY <1>4 DEF announce, goes
  <2>2. /\ UnderWay = {Line(s, buf[s])} /\ queue = <<Request(s, buf[s])>>
        /\ rcv_mutex' = 1
    BY <2>1 DEF Known
  <2>3. PICK t \in Senders : queue' = <<Request(t, buf'[t])>> /\ UnderWay' = {Line(t, buf'[t])}
    BY <2>2 DEF Known
  <2>4. Request(s, buf[s]) = Request(t, buf'[t])
    BY <2>1, <2>2, <2>3
  <2>5. s = t /\ buf[s] = buf'[t]
    BY <2>4, SameRequest
  <2> QED
    BY <1>1, <2>2, <2>3, <2>5
<1> QED
  BY <1>1, <1>2, <1>3, <1>4

LEMMA ReceiverCarries ==
  ASSUME Kinds, Leavers, FreshInv, ~failed, Known, Known', ReceiverStep, ~display
  PROVE  UnderWay' = UnderWay
<1>1. snd' = snd /\ buf' = buf /\ failed' = failed
  BY DEF ReceiverStep, await_message, receive, answer, display, give_turn, remove
<1>2. CASE await_message \/ give_turn
  <2>1. /\ queue' = queue /\ rcv # "strncmp" /\ rcv' # "strncmp"
        /\ \A t \in Senders : Sending(t)' <=> Sending(t)
    BY <1>1, <1>2 DEF await_message, give_turn, rcv_goes, Sending
  <2> QED
    BY <1>1, <2>1 DEF UnderWay
<1>3. CASE receive
  <2>1. rcv = "msgrcv" /\ rcv' = "strncmp" /\ rbuf' = Head(queue)
    BY <1>3 DEF receive, rcv_goes
  <2>2. PICK s \in Senders : queue = <<Request(s, buf[s])>> /\ UnderWay = {Line(s, buf[s])}
    BY <2>1 DEF Known
  <2>3. PICK t \in Senders : rbuf' = Request(t, buf'[t]) /\ UnderWay' = {Line(t, buf'[t])}
    BY <2>1 DEF Known
  <2>4. Request(s, buf[s]) = Request(t, buf'[t])
    BY <2>1, <2>2, <2>3
  <2>5. s = t /\ buf[s] = buf'[t]
    BY <2>4, SameRequest
  <2> QED
    BY <2>2, <2>3, <2>5
<1>4. CASE answer
  <2>1. rcv = "strncmp" /\ rbuf.text = "exit"
    BY <1>4 DEF answer, rcv_goes
  <2>2. PICK s \in Senders : /\ rbuf = Request(s, buf[s]) /\ UnderWay = {Line(s, buf[s])}
                             /\ buf[s] = "text" \/ (buf[s] = "exit" /\ snd[s] = "msgrcv")
    BY <2>1 DEF Known
  <2>3. buf[s] = "exit" /\ snd[s] = "msgrcv"
    BY <2>1, <2>2 DEF Request
  <2>4. UnderWay' = {Line(s, "exit")}
    BY <1>1, <2>3 DEF Known
  <2> QED
    BY <2>2, <2>3, <2>4
<1>5. CASE remove
  <2>1. rcv = "msgctl" /\ rcv' = "done"
    BY <1>5 DEF remove, rcv_goes
  <2>2. CASE \E s \in Senders : snd[s] = "msgrcv"
    BY <1>1, <2>2 DEF Known
  <2>3. CASE ~\E s \in Senders : snd[s] = "msgrcv"
    BY <1>1, <2>1, <2>3 DEF Known
  <2> QED
    BY <2>2, <2>3
<1> QED
  BY <1>2, <1>3, <1>4, <1>5 DEF ReceiverStep

LEMMA Company ==
  ASSUME buf' = buf
  PROVE  Talking' = Talking /\ HaveReply' = HaveReply
BY DEF Talking, HaveReply

LEMMA ReadLineTurns ==
  ASSUME Kinds, Leavers, Known, Known', NEW s \in Senders, read_line(s)
  PROVE  Theirs!Say(s) \/ Theirs!Stop(s)
<1>1. snd[s] = "fgets" /\ snd'[s] = "msgsnd"
  BY DEF read_line, goes, Kinds
<1>2. PICK text \in {"text", "exit"} : buf' = [buf EXCEPT ![s] = text]
  BY DEF read_line
<1>3. buf'[s] = text /\ buf[s] \notin {"exit", "over"} /\ \A t \in Senders \ {s} : buf'[t] = buf[t]
  BY <1>1, <1>2 DEF Kinds, Leavers
<1>4. UnderWay = {} /\ UnderWay' = {Line(s, text)}
  BY <1>1, <1>3 DEF Known
<1>5. TheLine = [who |-> "none", text |-> "none"] /\ TheLine' = Line(s, text)
  BY <1>4, LineIs, LineIsNext DEF LineRight
<1>6. HaveReply' = HaveReply
  BY <1>3 DEF HaveReply
<1>7. Talking' = (IF text = "exit" THEN Talking \ {s} ELSE Talking) /\ s \in Talking
  BY <1>3 DEF Talking
<1> QED
  BY <1>5, <1>6, <1>7 DEF Theirs!Say, Theirs!Stop, Theirs!Silence, Line

LEMMA ReplyTurns ==
  ASSUME Kinds, Leavers, Known, Known', NEW s \in Senders, read_reply(s)
  PROVE  Theirs!Answer(s) \/ UNCHANGED Theirs!turns
<1>1. snd[s] = "msgrcv" /\ snd'[s] = "V(snd_mutex)"
  BY DEF read_reply, goes, Kinds
<1>2. buf[s] = "exit" /\ UnderWay = {Line(s, "exit")}
  BY <1>1 DEF Known
<1>3. TheLine = Line(s, "exit")
  BY <1>2, LineIs DEF LineRight
<1>4. CASE buf' = buf
  <2>1. UnderWay' = UnderWay
    BY <1>1, <1>2, <1>4 DEF Known
  <2>2. TheLine' = TheLine
    BY <2>1 DEF TheLine
  <2> QED
    BY <1>4, <2>2, Company DEF Theirs!turns
<1>5. CASE buf' = [buf EXCEPT ![s] = "over"]
  <2>1. buf'[s] = "over" /\ \A t \in Senders \ {s} : buf'[t] = buf[t]
    BY <1>5 DEF Kinds
  <2>2. UnderWay' = {}
    BY <1>1, <2>1 DEF Known
  <2>3. TheLine' = [who |-> "none", text |-> "none"]
    BY <2>2, LineIsNext DEF LineRight
  <2>4. Talking' = Talking /\ HaveReply' = HaveReply \cup {s}
    BY <1>2, <2>1 DEF Talking, HaveReply
  <2> QED
    BY <1>3, <2>3, <2>4 DEF Theirs!Answer, Theirs!Silence, Line
<1> QED
  BY <1>4, <1>5 DEF read_reply

LEMMA ReceiverTurns ==
  ASSUME Kinds, Leavers, FreshInv, ~failed, Known, Known', ReceiverStep
  PROVE  Theirs!Show \/ UNCHANGED Theirs!turns
<1>1. Talking' = Talking /\ HaveReply' = HaveReply
  BY Company DEF ReceiverStep, await_message, receive, answer, display, give_turn, remove
<1>2. CASE display
  <2>1. rcv = "strncmp" /\ rcv' = "V(snd_mutex)" /\ rbuf.text # "exit"
    BY <1>2 DEF display, rcv_goes
  <2>2. PICK s \in Senders : /\ rbuf = Request(s, buf[s]) /\ UnderWay = {Line(s, buf[s])}
                             /\ buf[s] = "text" \/ (buf[s] = "exit" /\ snd[s] = "msgrcv")
    BY <2>1 DEF Known
  <2>3. buf[s] = "text"
    BY <2>1, <2>2 DEF Request
  <2>4. UnderWay' = {}
    BY <2>1 DEF Known
  <2>5. TheLine = Line(s, "text") /\ TheLine' = [who |-> "none", text |-> "none"]
    BY <2>2, <2>3, <2>4, LineIs, LineIsNext DEF LineRight
  <2>6. TheLine.text = "text" /\ TheLine # [who |-> "none", text |-> "none"]
    BY <2>5 DEF Line
  <2> QED
    BY <1>1, <2>5, <2>6 DEF Theirs!Show, Theirs!Silence
<1>3. CASE ~display
  <2>1. TheLine' = TheLine
    BY <1>3, ReceiverCarries DEF TheLine
  <2> QED
    BY <1>1, <2>1 DEF Theirs!turns
<1> QED
  BY <1>2, <1>3

(* A process that found the queue empty does what Turns promises, step by  *)
(* step, for any number of senders: two semaphores are enough for what     *)
(* Exp3_3 does with six, but for the last answer.                          *)
THEOREM FreshImplements == Spec => FreshTakesTurns
<1> DEFINE Keeps == Fresh /\ runs' = runs => Theirs!Next \/ UNCHANGED Theirs!turns
<1>1. Inv /\ Inv' /\ [Next]_vars => Keeps
  <2> SUFFICES ASSUME Inv, Inv', [Next]_vars, Fresh, runs' = runs
               PROVE  Theirs!Next \/ UNCHANGED Theirs!turns
    OBVIOUS
  <2>1. ~start_again
    BY DEF start_again, Inv, Kinds
  <2>2. Kinds /\ Leavers /\ FreshInv /\ Known
    BY Know DEF Inv
  <2>3. CASE UNCHANGED vars
    <3>1. TheLine' = TheLine
      BY <2>3 DEF vars, local, sems, TheLine, UnderWay, Sending
    <3>2. buf' = buf
      BY <2>3 DEF vars, local
    <3> QED
      BY <3>1, <3>2, Company DEF Theirs!turns
  <2>4. ASSUME Next
        PROVE  Theirs!Next \/ UNCHANGED Theirs!turns
    <3>1. ~failed /\ (ReceiverStep \/ \E s \in Senders : SenderStep(s) \/ read_line(s))
      BY <2>1, <2>4 DEF Next
    <3>2. Fresh'
      BY <3>1 DEF SenderStep, take_turn, read_line, send, announce, read_reply, end_turn,
         ReceiverStep, await_message, receive, answer, display, give_turn, remove, SameRun, Fresh
    <3>3. Known'
      BY <3>2, KnowNext DEF Inv
    <3>4. CASE ReceiverStep
      BY <2>2, <3>1, <3>3, <3>4, ReceiverTurns DEF Theirs!Next
    <3>5. ASSUME NEW s \in Senders, SenderStep(s) \/ read_line(s)
          PROVE  Theirs!Next \/ UNCHANGED Theirs!turns
      <4>1. CASE read_line(s)
        BY <2>2, <3>3, <4>1, ReadLineTurns DEF Theirs!Next
      <4>2. CASE read_reply(s)
        BY <2>2, <3>3, <4>2, ReplyTurns DEF Theirs!Next
      <4>3. CASE take_turn(s) \/ send(s) \/ announce(s) \/ end_turn(s)
        <5>1. UnderWay' = UnderWay /\ buf' = buf
          BY <2>2, <3>3, <4>3, Carries
        <5>2. TheLine' = TheLine
          BY <5>1 DEF TheLine
        <5> QED
          BY <5>1, <5>2, Company DEF Theirs!turns
      <4> QED
        BY <3>5, <4>1, <4>2, <4>3 DEF SenderStep
    <3> QED
      BY <3>1, <3>4, <3>5
  <2> QED
    BY <2>3, <2>4
<1> QED
  BY <1>1, Inductive, PTL DEF Spec, FreshTakesTurns
=============================================================================
