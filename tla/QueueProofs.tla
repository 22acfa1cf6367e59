---------------------------- MODULE QueueProofs ----------------------------
(***************************************************************************)
(* Proofs about MessageQueue for any number of senders and any number of   *)
(* slots: the invariant QueueInv is inductive, and what follows from it.   *)
(***************************************************************************)
EXTENDS MessageQueue, FiniteSetTheorems, SequenceTheorems, TLAPS

Inv == TypeOK /\ QueueInv

(* A step changes no semaphore but those it names, so the cases of the     *)
(* stage follow from where one thread is.                                  *)
LEMMA SenderStages ==
  ASSUME Inv, NEW s \in Senders
  PROVE  /\ snd[s] \in {"V(rcv_dp)", "fgets", "P(empty)"} => Typing(s)
         /\ snd[s] \in {"msgsnd", "V(full)"} => Posting(s)
         /\ snd[s] = "msgrcv" => Over(s)
         /\ snd[s] = "V(snd_dp)" => Ending(s)
         /\ snd_dp = 1 => Quiet
         /\ over = 1 => \E t \in Senders : Over(t)
BY DEF Inv, TypeOK, QueueInv, Stage, Quiet, Shown, Closing, Typing, Posting, Answered,
   Over, Ending, Posted, Taken, Counts, Pending, NobodysTurn, TurnOf, HasTurn, Stopped,
   Speaking, LinesHeld

LEMMA ReceiverStages ==
  ASSUME Inv
  PROVE  /\ full = 1 \/ rcv = "msgrcv" =>
              \E s \in Senders, text \in {"text", "exit"} : Posted(s, text)
         /\ rcv \in {"V(empty)", "strncmp"} =>
              \E s \in Senders, text \in {"text", "exit"} : Taken(s, text)
         /\ rcv = "V(over)" => \E s \in Senders : Answered(s)
         /\ rcv = "V(snd_dp)" => Shown
         /\ rcv \in {"msgctl", "done"} => Closing
BY DEF Inv, TypeOK, QueueInv, Stage, Quiet, Shown, Closing, Typing, Posting, Answered,
   Over, Ending, Posted, Taken, Counts

-----------------------------------------------------------------------------
(* What a step must re-establish, in three parts. *)
Places == 
  /\ ~failed /\ (removed <=> rcv = "done")
  /\ \A s, t \in Senders : Inside(s) /\ Inside(t) => s = t
  /\ w_mutex = 1 <=> \A s \in Senders : ~Inside(s)
  /\ LinesHeld
Count ==
  /\ must_stop = Cardinality(Untold)
  /\ rcv \in {"P(snd_dp)", "msgctl", "done"} <=> Untold = {}

LEMMA Rebuild ==
  ASSUME TypeOK', Places', Count', Stage' PROVE Inv'
BY DEF Inv, QueueInv, Places, Count

LEMMA CountKept ==
  ASSUME Inv, Untold' = Untold, must_stop' = must_stop,
         rcv' \in {"P(snd_dp)", "msgctl", "done"} <=> rcv \in {"P(snd_dp)", "msgctl", "done"}
  PROVE  Count'
BY DEF Inv, QueueInv, Count

(* enter and leave hand w_mutex over and leave the turn where it is. *)
LEMMA Entering ==
  ASSUME Inv, NEW s \in Senders, enter(s) PROVE Inv'
<1>1. TypeOK'
  BY DEF Inv, TypeOK, enter, goes, sems, SndLabels, Speaking
<1>2. Places'
  BY DEF Inv, TypeOK, QueueInv, enter, goes, Places, Inside, Speaking, LinesHeld
<1>3. Untold' = Untold
  BY DEF Inv, TypeOK, QueueInv, enter, goes, Untold, Told, Stopped, LinesHeld
<1>4. \A t \in Senders : HasTurn(t)' <=> HasTurn(t)
  BY DEF Inv, TypeOK, QueueInv, enter, goes, HasTurn, Stopped, Speaking
<1>5. Stage'
  BY <1>4 DEF Inv, TypeOK, QueueInv, enter, goes, Stage, Quiet, Shown, Closing, Typing, Posting,
     Answered, Over, Ending, Posted, Taken, Counts, Pending, NobodysTurn, TurnOf, Stopped
<1>6. QED
  BY <1>1, <1>2, <1>3, <1>5, CountKept, Rebuild DEF enter

LEMMA TakingTurn ==
  ASSUME Inv, NEW s \in Senders, take_turn(s) PROVE Inv'
<1>0. Quiet
  BY SenderStages DEF take_turn, Inv, TypeOK
<1>1. TypeOK'
  BY DEF Inv, TypeOK, take_turn, goes, sems, SndLabels, Speaking
<1>2. Places'
  BY DEF Inv, TypeOK, QueueInv, take_turn, goes, Places, Inside, Speaking, LinesHeld
<1>3. Untold' = Untold
  BY DEF Inv, TypeOK, QueueInv, take_turn, goes, Untold, Told, Stopped, LinesHeld
<1>4. Typing(s)'
  <2>1. rcv = "P(full)"
    BY <1>0 DEF Quiet, Inv, QueueInv, Untold, Told, take_turn, goes, Stopped
  <2>2. QED
    BY <1>0, <2>1 DEF Inv, TypeOK, QueueInv, take_turn, goes, Quiet, Typing, Counts, NobodysTurn, TurnOf,
       HasTurn, Stopped
<1>5. QED
  BY <1>1, <1>2, <1>3, <1>4, CountKept, Rebuild DEF take_turn, Stage

(* prompt, read_line and reserve are made by the sender whose turn it is. *)
LEMMA Typed ==
  ASSUME Inv, NEW s \in Senders, prompt(s) \/ read_line(s) \/ reserve(s) PROVE Inv'
<1>0. Typing(s)
  BY SenderStages DEF prompt, read_line, reserve, goes
<1>1. TypeOK'
  <2>1. CASE prompt(s)
    BY <1>0, <2>1 DEF Inv, TypeOK, prompt, goes, SndLabels, Speaking
  <2>2. CASE read_line(s)
    <3>1. buf' \in [Senders -> {"none", "text", "exit", "over"}]
      BY <2>2 DEF Inv, TypeOK, read_line
    <3>2. snd' \in [Senders -> SndLabels]
      BY <2>2 DEF Inv, TypeOK, read_line, goes, SndLabels, Speaking
    <3>3. QED
      BY <2>2, <3>1, <3>2 DEF Inv, TypeOK, read_line, sems
  <2>3. CASE reserve(s)
    <3>1. empty' \in 0..EmptySlots
      BY <2>3, EmptySlotsAssumption DEF Inv, TypeOK, reserve
    <3>2. QED
      BY <2>3, <3>1 DEF Inv, TypeOK, reserve, goes, SndLabels, Speaking
  <2>4. QED
    BY <2>1, <2>2, <2>3
<1>2. Places'
  BY DEF Inv, TypeOK, QueueInv, prompt, read_line, reserve, goes, sems, Places, Inside, Speaking, LinesHeld
<1>3. Untold' = Untold
  BY <1>0 DEF Inv, TypeOK, QueueInv, prompt, read_line, reserve, goes, sems, Untold, Told, Stopped, LinesHeld
<1>4. TurnOf(s)'
  BY <1>0 DEF Inv, TypeOK, prompt, read_line, reserve, goes, Typing, TurnOf, HasTurn, Stopped, Speaking
<1>5. Typing(s)' \/ Posting(s)'
  BY <1>0, <1>4, EmptySlotsAssumption DEF Inv, TypeOK, prompt, read_line, reserve, goes, sems, Typing, Posting, Counts
<1>6. QED
  BY <1>1, <1>2, <1>3, <1>5, CountKept, Rebuild DEF prompt, read_line, reserve, sems, Stage

LEMMA Announced ==
  ASSUME Inv, NEW s \in Senders, announce(s)
  PROVE  Posting(s) /\ Posted(s, buf[s])'
<1>1. Posting(s)
  BY SenderStages DEF announce, goes
<1>2. \A t \in Senders : HasTurn(t)' => t = s
  BY <1>1 DEF Inv, TypeOK, announce, goes, Posting, TurnOf, HasTurn, Stopped, Speaking
<1>3. QED
  BY <1>1, <1>2 DEF Inv, TypeOK, announce, goes, Posting, Posted, TurnOf, Counts, Pending, NobodysTurn,
     HasTurn, Stopped, Speaking

LEMMA Sent ==
  ASSUME Inv, NEW s \in Senders, send(s) \/ announce(s) PROVE Inv'
<1>0. Posting(s) /\ ~removed
  BY SenderStages DEF send, announce, goes, Posting, Inv, QueueInv
<1>1. TypeOK'
  <2>1. buf[s] \in {"text", "exit"} /\ Request(s, buf[s]) \in Messages
    BY <1>0 DEF Posting, Inv, QueueInv, LinesHeld, Messages
  <2>2. queue' \in Seq(Messages)
    BY <2>1 DEF Inv, TypeOK, send, announce
  <2>3. QED
    BY <1>0, <2>2 DEF Inv, TypeOK, send, announce, goes, sems, SndLabels, Speaking, Posting, Counts, CheckFails
<1>2. Places'
  BY <1>0 DEF Inv, TypeOK, QueueInv, send, announce, goes, sems, Places, Inside, Speaking, LinesHeld, CheckFails
<1>3. Untold' = Untold
  BY <1>0 DEF Inv, TypeOK, QueueInv, send, announce, goes, sems, Untold, Told, Stopped, LinesHeld,
     Posting, Counts
<1>4. \A t \in Senders : HasTurn(t)' => t = s
  BY <1>0 DEF Inv, TypeOK, send, announce, goes, Posting, TurnOf, HasTurn, Stopped, Speaking
<1>5. ASSUME send(s) PROVE Posting(s)'
  <2>1. queue' = <<Request(s, buf[s])>>
    BY <1>0, <1>5 DEF send, Posting, CheckFails, goes
  <2>2. QED
    BY <1>0, <1>4, <1>5, <2>1 DEF Inv, TypeOK, send, goes, sems, Posting, TurnOf, Counts
<1>6. ASSUME announce(s) PROVE Posted(s, buf[s])'
  BY <1>6, Announced
<1>7. buf[s] \in {"text", "exit"} /\ buf' = buf
  BY <1>0 DEF Posting, Inv, QueueInv, LinesHeld, send, announce
<1>8. Stage'
  BY <1>5, <1>6, <1>7 DEF Stage
<1>9. QED
  BY <1>1, <1>2, <1>3, <1>8, CountKept, Rebuild DEF send, announce, sems

LEMMA Leaving ==
  ASSUME Inv, NEW s \in Senders, leave(s) PROVE Inv'
<1>0. w_mutex = 0
  BY DEF Inv, TypeOK, QueueInv, leave, goes, Inside
<1>1. TypeOK'
  BY <1>0 DEF Inv, TypeOK, leave, goes, SndLabels, Speaking
<1>2. Places'
  BY <1>0 DEF Inv, TypeOK, QueueInv, leave, goes, Places, Inside, Speaking, LinesHeld
<1>3. Untold' = Untold
  BY DEF Inv, TypeOK, QueueInv, leave, goes, Untold, Told, Stopped, LinesHeld
<1>4. \A t \in Senders : HasTurn(t)' <=> HasTurn(t)
  BY DEF Inv, TypeOK, QueueInv, leave, goes, HasTurn, Stopped, Speaking
<1>5. Stage'
  BY <1>4 DEF Inv, TypeOK, QueueInv, leave, goes, Stage, Quiet, Shown, Closing, Typing, Posting,
     Answered, Over, Ending, Posted, Taken, Counts, Pending, NobodysTurn, TurnOf, Stopped
<1>6. QED
  BY <1>1, <1>2, <1>3, <1>5, CountKept, Rebuild DEF leave

LEMMA AwaitingOver ==
  ASSUME Inv, NEW s \in Senders, await_over(s) PROVE Inv'
<1>0. Over(s) /\ over = 1
  BY SenderStages DEF Inv, TypeOK, QueueInv, LinesHeld, await_over, goes, Over, TurnOf, HasTurn, Stopped
<1>1. TypeOK'
  BY <1>0 DEF Inv, TypeOK, await_over, goes, SndLabels, Speaking
<1>2. Places'
  BY DEF Inv, TypeOK, QueueInv, await_over, goes, Places, Inside, Speaking, LinesHeld
<1>3. Untold' = Untold
  BY <1>0 DEF Inv, TypeOK, QueueInv, await_over, goes, Untold, Told, Stopped, LinesHeld, Over, TurnOf, HasTurn
<1>4. Over(s)'
  BY <1>0 DEF Inv, TypeOK, await_over, goes, Over, TurnOf, HasTurn, Stopped, Speaking, Counts
<1>5. QED
  BY <1>1, <1>2, <1>3, <1>4, CountKept, Rebuild DEF await_over, Stage

(* The only message in the queue is the sender's answer. *)
LEMMA ReplyRead ==
  ASSUME Inv, NEW s \in Senders, read_reply(s)
  PROVE  /\ Over(s) /\ goes(s, "msgrcv", "V(snd_dp)")
         /\ queue' = <<>> /\ buf' = [buf EXCEPT ![s] = "over"]
         /\ UNCHANGED <<sems, removed, failed, rcv, rbuf, must_stop>>
<1>1. Over(s) /\ ~removed
  BY SenderStages DEF Inv, QueueInv, read_reply, goes, Over
<1>2. PICK i \in 1..Len(queue) :
         /\ queue' = SubSeq(queue, 1, i - 1) \o SubSeq(queue, i + 1, Len(queue))
         /\ buf' = [buf EXCEPT ![s] = "over"] /\ failed' = failed
  BY <1>1 DEF read_reply, CheckFails
<1>3. queue = <<Reply(s)>> /\ Len(queue) = 1 /\ i = 1
  BY <1>1, <1>2 DEF Over
<1>4. queue' = <<>>
  BY <1>2, <1>3
<1>5. goes(s, "msgrcv", "V(snd_dp)") /\ UNCHANGED <<sems, removed, rcv, rbuf, must_stop>>
  BY DEF read_reply
<1>6. QED
  BY <1>1, <1>2, <1>4, <1>5

LEMMA Reading ==
  ASSUME Inv, NEW s \in Senders, read_reply(s) PROVE Inv'
<1>0. /\ Over(s) /\ goes(s, "msgrcv", "V(snd_dp)")
      /\ queue' = <<>> /\ buf' = [buf EXCEPT ![s] = "over"]
      /\ UNCHANGED <<sems, removed, failed, rcv, rbuf, must_stop>>
  BY ReplyRead
<1>1. TypeOK'
  <2>1. queue' \in Seq(Messages)
    BY <1>0
  <2>2. buf' \in [Senders -> {"none", "text", "exit", "over"}]
    BY <1>0 DEF Inv, TypeOK
  <2>3. snd' \in [Senders -> SndLabels]
    BY <1>0 DEF Inv, TypeOK, goes, SndLabels
  <2>4. QED
    BY <1>0, <2>1, <2>2, <2>3 DEF Inv, TypeOK, sems
<1>2. Places'
  BY <1>0 DEF Inv, TypeOK, QueueInv, goes, sems, Places, Inside, Speaking, LinesHeld
<1>3. Untold' = Untold
  BY <1>0 DEF Inv, TypeOK, QueueInv, goes, sems, Untold, Told, Stopped, LinesHeld
<1>4. Ending(s)'
  BY <1>0 DEF Inv, TypeOK, goes, sems, Over, Ending, TurnOf, HasTurn, Stopped, Speaking, Counts
<1>5. QED
  BY <1>0, <1>1, <1>2, <1>3, <1>4, CountKept, Rebuild DEF Stage

LEMMA EndingTurn ==
  ASSUME Inv, NEW s \in Senders, end_turn(s) PROVE Inv'
<1>0. Ending(s)
  BY SenderStages DEF end_turn, goes
<1>1. TypeOK'
  BY <1>0 DEF Inv, TypeOK, end_turn, goes, SndLabels, Speaking, Ending, Counts
<1>2. Places'
  BY DEF Inv, TypeOK, QueueInv, end_turn, goes, Places, Inside, Speaking, LinesHeld
<1>3. Untold' = Untold
  BY DEF Inv, TypeOK, QueueInv, end_turn, goes, Untold, Told, Stopped, LinesHeld
<1>4. Quiet'
  BY <1>0 DEF Inv, TypeOK, QueueInv, LinesHeld, end_turn, goes, Quiet, Ending, TurnOf, NobodysTurn, HasTurn,
     Stopped, Speaking, Counts
<1>5. QED
  BY <1>1, <1>2, <1>3, <1>4, CountKept, Rebuild DEF end_turn, Stage

-----------------------------------------------------------------------------
(* The receiver's steps change nothing of the senders'. *)

LEMMA Awaiting ==
  ASSUME Inv, await_message PROVE Inv'
<1>0. PICK s \in Senders, text \in {"text", "exit"} : Posted(s, text)
  BY ReceiverStages DEF await_message, Inv, TypeOK
<1>1. TypeOK'
  BY DEF Inv, TypeOK, await_message, rcv_goes, RcvLabels
<1>2. Places'
  BY DEF Inv, QueueInv, await_message, rcv_goes, Places, Inside, LinesHeld
<1>3. Untold' = Untold
  BY DEF await_message, Untold, Told, Stopped
<1>4. Posted(s, text)'
  BY <1>0 DEF Inv, TypeOK, await_message, rcv_goes, Posted, Counts, Pending, NobodysTurn, TurnOf,
     HasTurn, Stopped
<1>5. QED
  BY <1>1, <1>2, <1>3, <1>4, CountKept, Rebuild DEF await_message, rcv_goes, Stage

LEMMA Receiving ==
  ASSUME Inv, receive PROVE Inv'
<1>0. PICK s \in Senders, text \in {"text", "exit"} : Posted(s, text)
  BY ReceiverStages DEF receive, rcv_goes
<1>1. queue' = <<>> /\ rbuf' = Request(s, text)
  BY <1>0 DEF receive, Posted
<1>2. TypeOK'
  <2>1. rbuf' \in Messages
    BY <1>1 DEF Messages
  <2>2. QED
    BY <1>1, <2>1 DEF Inv, TypeOK, receive, rcv_goes, sems, RcvLabels
<1>3. Places'
  BY DEF Inv, QueueInv, receive, rcv_goes, sems, Places, Inside, LinesHeld
<1>4. Untold' = Untold
  BY DEF receive, sems, Untold, Told, Stopped
<1>5. Taken(s, text)'
  BY <1>0, <1>1 DEF Inv, TypeOK, receive, rcv_goes, sems, Posted, Taken, Counts, Pending, NobodysTurn, TurnOf,
     HasTurn, Stopped
<1>6. QED
  BY <1>2, <1>3, <1>4, <1>5, CountKept, Rebuild DEF receive, rcv_goes, Stage

LEMMA Releasing ==
  ASSUME Inv, release_slot PROVE Inv'
<1>0. PICK s \in Senders, text \in {"text", "exit"} : Taken(s, text)
  BY ReceiverStages DEF release_slot, rcv_goes
<1>1. TypeOK'
  BY <1>0, EmptySlotsAssumption DEF Inv, TypeOK, release_slot, rcv_goes, RcvLabels, Taken, Counts
<1>2. Places'
  BY DEF Inv, QueueInv, release_slot, rcv_goes, Places, Inside, LinesHeld
<1>3. Untold' = Untold
  BY DEF release_slot, Untold, Told, Stopped
<1>4. Taken(s, text)'
  BY <1>0, EmptySlotsAssumption DEF release_slot, rcv_goes, Taken, Counts, Pending, NobodysTurn, TurnOf,
     HasTurn, Stopped
<1>5. QED
  BY <1>1, <1>2, <1>3, <1>4, CountKept, Rebuild DEF release_slot, rcv_goes, Stage

LEMMA Answering ==
  ASSUME Inv, answer PROVE Inv'
<1>0. PICK s \in Senders, text \in {"text", "exit"} : Taken(s, text)
  BY ReceiverStages DEF answer, rcv_goes
<1>1. text = "exit" /\ rbuf = Request(s, "exit") /\ rbuf.who = s
  BY <1>0 DEF answer, Taken, Request
<1>2. queue' = <<Reply(s)>>
  BY <1>0, <1>1 DEF answer, Taken
<1>3. TypeOK'
  <2>1. queue' \in Seq(Messages)
    BY <1>2 DEF Messages
  <2>2. QED
    BY <2>1 DEF Inv, TypeOK, answer, rcv_goes, sems, RcvLabels
<1>4. Places'
  BY DEF Inv, QueueInv, answer, rcv_goes, sems, Places, Inside, LinesHeld
<1>5. Untold' = Untold
  BY DEF answer, sems, Untold, Told, Stopped
<1>6. Answered(s)'
  BY <1>0, <1>1, <1>2 DEF answer, rcv_goes, sems, Taken, Answered, Counts, Pending, TurnOf, HasTurn, Stopped
<1>7. QED
  BY <1>3, <1>4, <1>5, <1>6, CountKept, Rebuild DEF answer, rcv_goes, Stage

LEMMA Displaying ==
  ASSUME Inv, display PROVE Inv'
<1>0. PICK s \in Senders, text \in {"text", "exit"} : Taken(s, text)
  BY ReceiverStages DEF display, rcv_goes
<1>1. text = "text"
  BY <1>0 DEF display, Taken, Request
<1>2. TypeOK'
  BY DEF Inv, TypeOK, display, rcv_goes, RcvLabels
<1>3. Places'
  BY DEF Inv, QueueInv, display, rcv_goes, Places, Inside, LinesHeld
<1>4. Untold' = Untold
  BY DEF display, Untold, Told, Stopped
<1>5. Shown'
  BY <1>0, <1>1 DEF display, rcv_goes, Taken, Shown, Counts, Pending, NobodysTurn, HasTurn, Stopped
<1>6. QED
  BY <1>2, <1>3, <1>4, <1>5, CountKept, Rebuild DEF display, rcv_goes, Stage

(* The sender that is answered is no longer untold, and no other is.       *)
LEMMA AnnouncingOver ==
  ASSUME Inv, announce_over PROVE Inv'
<1>0. PICK s \in Senders : Answered(s)
  BY ReceiverStages DEF announce_over, rcv_goes
<1>1. s \in Untold /\ Untold' = Untold \ {s}
  BY <1>0 DEF Inv, TypeOK, announce_over, Untold, Told, Answered, Pending, Counts, TurnOf, HasTurn, Stopped
<1>2. IsFiniteSet(Untold)
  BY SendersAssumption, FS_Subset DEF Untold
<1>3. /\ Cardinality(Untold') = Cardinality(Untold) - 1 /\ Cardinality(Untold) \in Nat
      /\ Cardinality(Untold') \in Nat
  BY <1>1, <1>2, FS_RemoveElement, FS_CardinalityType
<1>4. must_stop' = Cardinality(Untold') /\ (must_stop = 1 <=> Untold' = {})
  <2>1. IsFiniteSet(Untold')
    BY <1>1, <1>2, FS_RemoveElement
  <2>2. Cardinality(Untold') = 0 <=> Untold' = {}
    BY <2>1, FS_EmptySet
  <2>3. QED
    BY <1>3, <2>2 DEF Inv, QueueInv, announce_over
<1>5. TypeOK'
  <2>1. must_stop' \in 0..Cardinality(Senders)
    BY <1>3, <1>4, SendersAssumption, FS_CardinalityType DEF Inv, TypeOK, announce_over
  <2>2. QED
    BY <1>0, <2>1 DEF Inv, TypeOK, announce_over, rcv_goes, RcvLabels, Answered, Counts
<1>6. Places'
  BY DEF Inv, QueueInv, announce_over, rcv_goes, Places, Inside, LinesHeld
<1>7. Count'
  BY <1>4 DEF Count, announce_over, rcv_goes
<1>8. Over(s)'
  BY <1>0 DEF announce_over, rcv_goes, Answered, Over, Counts, Pending, TurnOf, HasTurn, Stopped
<1>9. QED
  BY <1>5, <1>6, <1>7, <1>8, Rebuild DEF Stage

LEMMA GivingTurn ==
  ASSUME Inv, give_turn PROVE Inv'
<1>0. Shown
  BY ReceiverStages DEF give_turn, rcv_goes
<1>1. TypeOK'
  BY <1>0 DEF Inv, TypeOK, give_turn, rcv_goes, RcvLabels, Shown, Counts
<1>2. Places'
  BY DEF Inv, QueueInv, give_turn, rcv_goes, Places, Inside, LinesHeld
<1>3. Untold' = Untold
  BY DEF give_turn, Untold, Told, Stopped
<1>4. Quiet'
  BY <1>0 DEF give_turn, rcv_goes, Shown, Quiet, Counts, NobodysTurn, HasTurn, Stopped
<1>5. QED
  BY <1>1, <1>2, <1>3, <1>4, CountKept, Rebuild DEF give_turn, rcv_goes, Stage

LEMMA Cleaning ==
  ASSUME Inv, await_quiet \/ remove PROVE Inv'
<1>0. /\ await_quiet => Quiet
      /\ remove => Closing
  BY SenderStages, ReceiverStages, SendersAssumption DEF await_quiet, remove, rcv_goes, Inv, TypeOK
<1>1. TypeOK'
  <2>1. CASE await_quiet
    BY <1>0, <2>1 DEF Inv, TypeOK, await_quiet, rcv_goes, RcvLabels, Quiet, Counts
  <2>2. CASE remove
    <3>1. queue' \in Seq(Messages) /\ removed' \in BOOLEAN
      BY <2>2 DEF remove
    <3>2. QED
      BY <2>2, <3>1 DEF Inv, TypeOK, remove, rcv_goes, sems, RcvLabels
  <2>3. QED
    BY <2>1, <2>2
<1>2. Places'
  BY DEF Inv, QueueInv, await_quiet, remove, rcv_goes, sems, Places, Inside, LinesHeld
<1>3. Untold' = Untold
  BY DEF await_quiet, remove, sems, Untold, Told, Stopped
<1>4. Closing'
  BY <1>0 DEF await_quiet, remove, rcv_goes, sems, Quiet, Closing, Counts, NobodysTurn, HasTurn, Stopped
<1>5. QED
  BY <1>1, <1>2, <1>3, <1>4, CountKept, Rebuild DEF await_quiet, remove, rcv_goes, Stage
-----------------------------------------------------------------------------
LEMMA InitInv == Init => Inv
<1> SUFFICES ASSUME Init PROVE Inv
  OBVIOUS
<1>1. Untold = Senders
  BY DEF Init, Untold, Told, Stopped
<1>2. TypeOK
  <2>1. Cardinality(Senders) \in Nat
    BY SendersAssumption, FS_CardinalityType
  <2>2. <<>> \in Seq(Messages)
    OBVIOUS
  <2>3. /\ snd \in [Senders -> SndLabels]
        /\ buf \in [Senders -> {"none", "text", "exit", "over"}]
    BY DEF Init, SndLabels
  <2>4. must_stop \in 0..Cardinality(Senders) /\ empty \in 0..EmptySlots
    BY <2>1, EmptySlotsAssumption DEF Init
  <2>5. queue \in Seq(Messages) /\ removed \in BOOLEAN /\ failed \in BOOLEAN
    BY <2>2 DEF Init
  <2>6. rcv \in RcvLabels /\ rbuf = NoMessage
    BY DEF Init, RcvLabels
  <2>7. w_mutex = 1 /\ snd_dp = 1 /\ rcv_dp = 0 /\ full = 0 /\ over = 0
    BY DEF Init
  <2>8. QED
    BY <2>3, <2>4, <2>5, <2>6, <2>7 DEF TypeOK
<1>3. Stage
  BY EmptySlotsAssumption DEF Init, Stage, Quiet, Counts, NobodysTurn, HasTurn, Stopped, Speaking
<1>4. QED
  BY <1>1, <1>2, <1>3, SendersAssumption DEF Inv, QueueInv, Init, Inside, Speaking, LinesHeld

LEMMA NextInv == Inv /\ [Next]_vars => Inv'
<1> SUFFICES ASSUME Inv, [Next]_vars PROVE Inv'
  OBVIOUS
<1>1. ASSUME NEW s \in Senders, SenderStep(s) \/ read_line(s) PROVE Inv'
  BY <1>1, Entering, TakingTurn, Typed, Sent, Leaving, AwaitingOver, Reading, EndingTurn DEF SenderStep
<1>2. ASSUME ReceiverStep PROVE Inv'
  BY <1>2, Awaiting, Receiving, Releasing, Answering, Displaying, AnnouncingOver, GivingTurn, Cleaning
  DEF ReceiverStep
<1>3. ASSUME UNCHANGED vars PROVE Inv'
  BY <1>3 DEF vars, sems, Inv, TypeOK, QueueInv, Inside, LinesHeld, Untold, Told, Stopped, Stage, Quiet, Shown,
     Closing, Typing, Posting, Answered, Over, Ending, Posted, Taken, Counts, Pending, NobodysTurn, TurnOf, HasTurn
<1>4. QED
  BY <1>1, <1>2, <1>3 DEF Next

(* The inductive invariant holds for any number of senders and of slots.   *)
THEOREM Inductive == Spec => []Inv
<1>1. Init => Inv
  BY InitInv
<1>2. Inv /\ [Next]_vars => Inv'
  BY NextInv
<1>3. QED
  BY <1>1, <1>2, PTL DEF Spec

(* There is one turn, and it is in the hands of one thread at a time: of a  *)
(* sender, of the receiver or of neither (main.c:22-45 and 106-131).        *)
THEOREM OneTurn == Spec => []QueueInv
<1>1. Inv => QueueInv
  BY DEF Inv
<1>2. QED
  BY <1>1, Inductive, PTL

(* Types are kept, no semaphore but rcv_dp ever exceeds what it started or  *)
(* is meant to hold.                                                        *)
THEOREM TypeCorrect == Spec => []TypeOK
<1>1. Inv => TypeOK
  BY DEF Inv
<1>2. QED
  BY <1>1, Inductive, PTL

(* Nobody uses the queue after the receiver has removed it, so no CHECK    *)
(* fails.                                                                  *)
THEOREM QueueOutlivesSenders == Spec => []RemovedLast
<1>1. Inv => RemovedLast
  <2> SUFFICES ASSUME Inv, removed PROVE \A s \in Senders : snd[s] = "done"
    BY DEF Inv, QueueInv, RemovedLast
  <2>1. Untold = {} /\ Closing
    BY ReceiverStages DEF Inv, QueueInv
  <2>2. QED
    BY <2>1 DEF Inv, QueueInv, LinesHeld, Untold, Told, Closing, NobodysTurn, HasTurn, Stopped
<1>2. QED
  BY <1>1, Inductive, PTL

(* The receiver takes only what senders sent, and a sender whose answer was *)
(* announced finds it.                                                      *)
THEOREM AnswersDelivered == Spec => []AnswersReachSenders
<1>1. Inv => AnswersReachSenders
  <2> SUFFICES ASSUME Inv PROVE AnswersReachSenders
    OBVIOUS
  <2>1. ASSUME rcv = "msgrcv" PROVE queue # <<>> /\ Head(queue).to = "receiver"
    <3>1. PICK s \in Senders, text \in {"text", "exit"} : Posted(s, text)
      BY <2>1, ReceiverStages
    <3>2. queue = <<Request(s, text)>>
      BY <3>1 DEF Posted
    <3>3. QED
      BY <3>2 DEF Request
  <2>2. ASSUME NEW s \in Senders, snd[s] = "msgrcv"
        PROVE  \E i \in 1..Len(queue) : queue[i] = Reply(s)
    <3>1. queue = <<Reply(s)>>
      BY <2>2, SenderStages DEF Over
    <3>2. QED
      BY <3>1
  <2>3. QED
    BY <2>1, <2>2 DEF AnswersReachSenders
<1>2. QED
  BY <1>1, Inductive, PTL
-----------------------------------------------------------------------------
(* What is under way at each stage. *)
Ways ==
  /\ Quiet \/ Shown \/ Closing => UnderWay = {}
  /\ \A s \in Senders :
       /\ Ending(s) => UnderWay = {}
       /\ Typing(s) =>
            UnderWay = IF snd[s] = "P(empty)" THEN {Line(s, buf[s])} ELSE {}
       /\ Posting(s) => UnderWay = {Line(s, buf[s])}
       /\ Answered(s) \/ Over(s) => UnderWay = {Line(s, "exit")}
       /\ \A text \in {"text", "exit"} :
            Posted(s, text) \/ Taken(s, text) => UnderWay = {Line(s, text)}

LEMMA OnTheWay == Inv => Ways
<1> SUFFICES ASSUME Inv PROVE Ways
  OBVIOUS
<1> DEFINE Sends  == {Line(t, buf[t]) : t \in {t \in Senders : Sending(t)}}
           Queued == {Line(queue[i].who, queue[i].text) :
                        i \in {i \in 1..Len(queue) : queue[i].to = "receiver"}}
           Held   == {Line(m.who, m.text) :
                        m \in IF rcv \in {"V(empty)", "strncmp"} THEN {rbuf} ELSE {}}
<1>1. UnderWay = Sends \cup Queued \cup Held
  BY DEF UnderWay
<1>2. queue = <<>> => Queued = {}
  OBVIOUS
<1>3. \A s \in Senders : queue = <<Reply(s)>> => Queued = {}
  BY DEF Reply
<1>4. \A s \in Senders, text \in {"text", "exit"} :
        queue = <<Request(s, text)>> => Queued = {Line(s, text)}
  BY DEF Request
<1>5. rcv \notin {"V(empty)", "strncmp"} => Held = {}
  OBVIOUS
<1>6. \A s \in Senders, text \in {"text", "exit"} :
        rcv \in {"V(empty)", "strncmp"} /\ rbuf = Request(s, text) => Held = {Line(s, text)}
  BY DEF Request
<1>7. NobodysTurn => Sends = {}
  BY DEF NobodysTurn, HasTurn, Sending, Stopped, Speaking
<1>8. ASSUME NEW s \in Senders, TurnOf(s)
      PROVE  Sends = IF Sending(s) THEN {Line(s, buf[s])} ELSE {}
  BY <1>8 DEF TurnOf, HasTurn, Sending, Stopped, Speaking
<1> HIDE DEF Sends, Queued, Held
<1>9. Quiet \/ Shown \/ Closing => UnderWay = {}
  BY <1>1, <1>2, <1>5, <1>7 DEF Quiet, Shown, Closing
<1>10. ASSUME NEW s \in Senders PROVE Ending(s) => UnderWay = {}
  BY <1>1, <1>2, <1>5, <1>8 DEF Ending, Sending
<1>11. ASSUME NEW s \in Senders, Typing(s)
       PROVE  UnderWay = IF snd[s] = "P(empty)" THEN {Line(s, buf[s])} ELSE {}
  <2>1. Sending(s) <=> snd[s] = "P(empty)"
    BY <1>11 DEF Typing, Sending
  <2>2. QED
    BY <1>1, <1>2, <1>5, <1>8, <1>11, <2>1 DEF Typing
<1>12. ASSUME NEW s \in Senders, Posting(s) PROVE UnderWay = {Line(s, buf[s])}
  <2>1. Sending(s) /\ buf[s] \in {"text", "exit"}
    BY <1>12 DEF Posting, Sending, Inv, QueueInv, LinesHeld
  <2>2. Queued \subseteq {Line(s, buf[s])} /\ Held = {}
    BY <1>2, <1>4, <1>5, <1>12, <2>1 DEF Posting
  <2>3. QED
    BY <1>1, <1>8, <1>12, <2>1, <2>2 DEF Posting
<1>13. ASSUME NEW s \in Senders, Answered(s) \/ Over(s) PROVE UnderWay = {Line(s, "exit")}
  <2>1. Sending(s) /\ buf[s] = "exit" /\ TurnOf(s)
    BY <1>13 DEF Answered, Over, Pending, Stopped, Sending
  <2>2. Queued = {} /\ Held = {}
    BY <1>3, <1>5, <1>13 DEF Answered, Over
  <2>3. QED
    BY <1>1, <1>8, <2>1, <2>2
<1>14. ASSUME NEW s \in Senders, NEW text \in {"text", "exit"}, Posted(s, text) \/ Taken(s, text)
       PROVE  UnderWay = {Line(s, text)}
  <2>1. Sends \subseteq {Line(s, text)}
    <3>1. CASE text = "exit"
      BY <1>8, <1>14, <3>1 DEF Posted, Taken, Pending
    <3>2. CASE text = "text"
      BY <1>7, <1>14, <3>2 DEF Posted, Taken, Pending
    <3>3. QED
      BY <3>1, <3>2
  <2>2. Queued \cup Held = {Line(s, text)}
    BY <1>2, <1>4, <1>5, <1>6, <1>14 DEF Posted, Taken
  <2>3. QED
    BY <1>1, <2>1, <2>2
<1>15. QED
  BY <1>9, <1>10, <1>11, <1>12, <1>13, <1>14 DEF Ways

LEMMA OneOnTheWay ==
  ASSUME Inv
  PROVE  \E l : UnderWay \subseteq {l}
<1>1. Stage
  BY DEF Inv, QueueInv
<1>2. QED
  BY <1>1, OnTheWay DEF Stage, Ways

(* At most one line is under way, and none while a sender is at its prompt. *)
THEOREM LinesOneByOne == Spec => []OneLineAtATime
<1>1. Inv => OneLineAtATime
  <2> SUFFICES ASSUME Inv PROVE OneLineAtATime
    OBVIOUS
  <2>1. \A l, m \in UnderWay : l = m
    BY OneOnTheWay
  <2>2. ASSUME NEW s \in Senders, snd[s] \in {"V(rcv_dp)", "fgets"} PROVE UnderWay = {}
    BY <2>2, SenderStages, OnTheWay DEF Ways
  <2>3. QED
    BY <2>1, <2>2 DEF OneLineAtATime
<1>2. QED
  BY <1>1, Inductive, PTL

LEMMA OnTheWayNext == Inv' => Ways'
BY OnTheWay, PTL

StagesOf ==
  /\ \A s \in Senders :
       /\ snd[s] \in {"V(rcv_dp)", "fgets", "P(empty)"} => Typing(s)
       /\ snd[s] \in {"msgsnd", "V(full)"} => Posting(s)
       /\ snd[s] = "msgrcv" => Over(s)
       /\ snd[s] = "V(snd_dp)" => Ending(s)
  /\ rcv = "msgrcv" => \E s \in Senders, text \in {"text", "exit"} : Posted(s, text)
  /\ rcv \in {"V(empty)", "strncmp"} =>
       \E s \in Senders, text \in {"text", "exit"} : Taken(s, text)
  /\ rcv = "V(over)" => \E s \in Senders : Answered(s)
  /\ rcv = "V(snd_dp)" => Shown
  /\ rcv \in {"msgctl", "done"} => Closing

LEMMA StagesKnown == Inv => StagesOf
BY SenderStages, ReceiverStages DEF StagesOf

LEMMA StagesKnownNext == Inv' => StagesOf'
BY StagesKnown, PTL

(* Steps between typing a line and showing or answering it do not change   *)
(* what is under way.                                                      *)
LEMMA SenderCarries ==
  ASSUME Inv, Inv', NEW s \in Senders,
         enter(s) \/ take_turn(s) \/ prompt(s) \/ reserve(s) \/ leave(s)
           \/ await_over(s) \/ end_turn(s)
  PROVE  UnderWay' = UnderWay
<1>1. Sending(s)' <=> Sending(s)
  <2>1. CASE enter(s)
    BY <2>1 DEF Inv, TypeOK, QueueInv, LinesHeld, enter, goes, Sending
  <2>2. CASE take_turn(s)
    BY <2>2 DEF Inv, TypeOK, QueueInv, LinesHeld, take_turn, goes, Sending
  <2>3. CASE prompt(s)
    BY <2>3 DEF Inv, TypeOK, QueueInv, LinesHeld, prompt, goes, Sending
  <2>4. CASE reserve(s)
    BY <2>4 DEF Inv, TypeOK, reserve, goes, Sending
  <2>5. CASE leave(s)
    BY <2>5 DEF Inv, TypeOK, QueueInv, LinesHeld, leave, goes, Sending
  <2>6. CASE await_over(s)
    BY <2>6 DEF Inv, TypeOK, QueueInv, LinesHeld, await_over, goes, Sending
  <2>7. CASE end_turn(s)
    BY <2>7 DEF Inv, TypeOK, QueueInv, LinesHeld, end_turn, goes, Sending
  <2>8. QED
    BY <2>1, <2>2, <2>3, <2>4, <2>5, <2>6, <2>7
<1>2. ASSUME NEW t \in Senders, t # s PROVE Sending(t)' <=> Sending(t)
  BY <1>2 DEF Inv, TypeOK, enter, take_turn, prompt, reserve, leave, await_over, end_turn, goes, Sending
<1>3. buf' = buf /\ queue' = queue /\ rcv' = rcv /\ rbuf' = rbuf
  BY DEF enter, take_turn, prompt, reserve, leave, await_over, end_turn
<1>4. QED
  BY <1>1, <1>2, <1>3 DEF UnderWay

LEMMA AnnounceCarries ==
  ASSUME Inv, Inv', NEW s \in Senders, announce(s)
  PROVE  UnderWay' = UnderWay
<1>1. Posting(s) /\ Posted(s, buf[s])'
  BY Announced
<1>2. buf' = buf /\ buf[s] \in {"text", "exit"}
  BY DEF announce, goes, Inv, QueueInv, LinesHeld
<1>3. QED
  BY <1>1, <1>2, OnTheWay, OnTheWayNext DEF Ways

LEMMA SendCarries ==
  ASSUME Inv, Inv', NEW s \in Senders, send(s)
  PROVE  UnderWay' = UnderWay /\ buf' = buf
<1>1. Posting(s)
  BY SenderStages DEF send, goes
<1>2. snd'[s] = "V(full)" /\ buf' = buf
  BY DEF Inv, TypeOK, send, goes
<1>3. Posting(s)'
  BY <1>2, StagesKnownNext DEF StagesOf
<1>4. QED
  BY <1>1, <1>2, <1>3, OnTheWay, OnTheWayNext DEF Ways

LEMMA ReceiverCarries ==
  ASSUME Inv, Inv',
         await_message \/ release_slot \/ announce_over \/ give_turn \/ await_quiet
  PROVE  UnderWay' = UnderWay
<1>1. buf' = buf /\ snd' = snd /\ queue' = queue /\ rbuf' = rbuf
  BY DEF await_message, release_slot, announce_over, give_turn, await_quiet
<1>2. rcv' \in {"V(empty)", "strncmp"} <=> rcv \in {"V(empty)", "strncmp"}
  BY DEF await_message, release_slot, announce_over, give_turn, await_quiet, rcv_goes
<1>3. QED
  BY <1>1, <1>2 DEF UnderWay, Sending

LEMMA ReceiveCarries ==
  ASSUME Inv, Inv', receive
  PROVE  UnderWay' = UnderWay
<1>1. PICK s \in Senders, text \in {"text", "exit"} : Posted(s, text)
  BY ReceiverStages DEF receive, rcv_goes
<1>2. PICK t \in Senders, word \in {"text", "exit"} : Taken(t, word)'
  BY StagesKnownNext DEF StagesOf, receive, rcv_goes
<1>3. Request(s, text) = Request(t, word)
  BY <1>1, <1>2 DEF receive, Posted, Taken
<1>4. s = t /\ text = word
  BY <1>3 DEF Request
<1>5. QED
  BY <1>1, <1>2, <1>4, OnTheWay, OnTheWayNext DEF Ways

LEMMA AnswerCarries ==
  ASSUME Inv, Inv', answer
  PROVE  UnderWay' = UnderWay
<1>1. PICK s \in Senders, text \in {"text", "exit"} : Taken(s, text)
  BY ReceiverStages DEF answer, rcv_goes
<1>2. PICK t \in Senders : Answered(t)'
  BY StagesKnownNext DEF StagesOf, answer, rcv_goes
<1>3. rbuf = Request(s, text) /\ rbuf = Request(t, "exit")
  BY <1>1, <1>2 DEF answer, Taken, Answered
<1>4. s = t /\ text = "exit"
  BY <1>3 DEF Request
<1>5. QED
  BY <1>1, <1>2, <1>4, OnTheWay, OnTheWayNext DEF Ways

LEMMA RemoveCarries ==
  ASSUME Inv, Inv', remove
  PROVE  UnderWay' = UnderWay
<1>1. Closing /\ Closing'
  BY ReceiverStages, StagesKnownNext DEF StagesOf, remove, rcv_goes
<1>2. QED
  BY <1>1, OnTheWay, OnTheWayNext DEF Ways

(* The steps that change it. *)
LEMMA ReadLineSays ==
  ASSUME Inv, Inv', NEW s \in Senders, read_line(s)
  PROVE  UnderWay = {} /\ UnderWay' = {Line(s, buf'[s])}
<1>1. Typing(s) /\ snd[s] # "P(empty)"
  BY SenderStages DEF read_line, goes
<1>2. snd'[s] = "P(empty)"
  BY DEF Inv, TypeOK, read_line, goes
<1>3. Typing(s)'
  BY <1>2, StagesKnownNext DEF StagesOf
<1>4. QED
  BY <1>1, <1>2, <1>3, OnTheWay, OnTheWayNext DEF Ways

LEMMA DisplayShows ==
  ASSUME Inv, Inv', display
  PROVE  UnderWay' = {} /\ \E s \in Senders : UnderWay = {Line(s, "text")}
<1>1. PICK s \in Senders, text \in {"text", "exit"} : Taken(s, text)
  BY ReceiverStages DEF display, rcv_goes
<1>2. text = "text"
  BY <1>1 DEF display, Taken, Request
<1>3. Shown'
  BY StagesKnownNext DEF StagesOf, display, rcv_goes
<1>4. QED
  BY <1>1, <1>2, <1>3, OnTheWay, OnTheWayNext DEF Ways

LEMMA ReplyAnswers ==
  ASSUME Inv, Inv', NEW s \in Senders, read_reply(s)
  PROVE  UnderWay = {Line(s, "exit")} /\ UnderWay' = {}
<1>1. Over(s)
  BY ReplyRead
<1>2. snd'[s] = "V(snd_dp)"
  BY DEF Inv, TypeOK, read_reply, goes
<1>3. Ending(s)'
  BY <1>2, StagesKnownNext DEF StagesOf
<1>4. QED
  BY <1>1, <1>3, OnTheWay, OnTheWayNext DEF Ways

(* Who has yet to say exit, and who has an answer. *)
LEMMA Company ==
  ASSUME Inv, NEW s \in Senders, SenderStep(s)
  PROVE  /\ Talking' = Talking
         /\ HaveReply' = IF read_reply(s) THEN HaveReply \cup {s} ELSE HaveReply
<1>1. CASE read_reply(s)
  <2>1. goes(s, "msgrcv", "V(snd_dp)") /\ buf' = [buf EXCEPT ![s] = "over"] /\ buf[s] = "exit"
    BY <1>1, ReplyRead DEF Over, Stopped
  <2>2. Talking' = Talking
    BY <2>1 DEF Talking, Inv, TypeOK
  <2>3. HaveReply' = HaveReply \cup {s}
    BY <2>1 DEF HaveReply, Inv, TypeOK, goes
  <2>4. QED
    BY <1>1, <2>2, <2>3
<1>2. CASE ~read_reply(s)
  <2>1. buf' = buf
    BY <1>2 DEF SenderStep, enter, take_turn, prompt, reserve, send, announce, leave, await_over, end_turn
  <2>2. HaveReply' = HaveReply
    BY <1>2 DEF HaveReply, Inv, TypeOK, SenderStep, enter, take_turn, prompt, reserve, send, announce, leave,
       await_over, end_turn, goes
  <2>3. QED
    BY <1>2, <2>1, <2>2 DEF Talking
<1>3. QED
  BY <1>1, <1>2

LEMMA LineIs ==
  LineOf({}) = Silence /\ \A l : LineOf({l}) = l
BY DEF LineOf

LEMMA InitTurns == Init => Theirs!Init
<1> SUFFICES ASSUME Init PROVE Theirs!Init
  OBVIOUS
<1>1. UnderWay = {}
  <2>1. Quiet
    BY EmptySlotsAssumption DEF Init, Quiet, Counts, NobodysTurn, HasTurn, Stopped, Speaking
  <2>2. QED
    BY <2>1, InitInv, OnTheWay DEF Ways
<1>2. Talking = Senders /\ HaveReply = {}
  BY DEF Init, Talking, HaveReply
<1>3. QED
  BY <1>1, <1>2, LineIs DEF Theirs!Init, Theirs!Silence, TheLine, Silence

LEMMA ReadLineTurns ==
  ASSUME Inv, Inv', NEW s \in Senders, read_line(s)
  PROVE  Theirs!Say(s) \/ Theirs!Stop(s)
<1>1. UnderWay = {} /\ UnderWay' = {Line(s, buf'[s])}
  BY ReadLineSays
<1>2. TheLine = Silence /\ TheLine' = Line(s, buf'[s])
  BY <1>1, LineIs DEF TheLine
<1>3. /\ snd[s] = "fgets" /\ buf[s] \notin {"exit", "over"}
      /\ buf'[s] \in {"text", "exit"} /\ \A t \in Senders \ {s} : buf'[t] = buf[t]
  BY DEF Inv, TypeOK, QueueInv, LinesHeld, read_line, goes
<1>4. HaveReply' = HaveReply
  BY DEF HaveReply, Inv, TypeOK, read_line, goes
<1>5. Talking' = IF buf'[s] = "exit" THEN Talking \ {s} ELSE Talking
  BY <1>3 DEF Talking
<1>6. s \in Talking
  BY <1>3 DEF Talking
<1>7. QED
  BY <1>2, <1>3, <1>4, <1>5, <1>6 DEF Theirs!Say, Theirs!Stop, Theirs!Silence, Silence, Line

LEMMA SenderTurns ==
  ASSUME Inv, Inv', NEW s \in Senders, SenderStep(s)
  PROVE  Theirs!Answer(s) \/ UNCHANGED Theirs!turns
<1>1. CASE read_reply(s)
  <2>1. UnderWay = {Line(s, "exit")} /\ UnderWay' = {}
    BY <1>1, ReplyAnswers
  <2>2. TheLine = Line(s, "exit") /\ TheLine' = Silence
    BY <2>1, LineIs DEF TheLine
  <2>3. Talking' = Talking /\ HaveReply' = HaveReply \cup {s}
    BY <1>1, Company
  <2>4. QED
    BY <2>2, <2>3 DEF Theirs!Answer, Theirs!Silence, Silence, Line
<1>2. CASE ~read_reply(s)
  <2>1. UnderWay' = UnderWay
    BY <1>2, SenderCarries, SendCarries, AnnounceCarries DEF SenderStep
  <2>2. TheLine' = TheLine
    BY <2>1 DEF TheLine
  <2>3. Talking' = Talking /\ HaveReply' = HaveReply
    BY <1>2, Company
  <2>4. QED
    BY <2>2, <2>3 DEF Theirs!turns
<1>3. QED
  BY <1>1, <1>2

LEMMA ReceiverTurns ==
  ASSUME Inv, Inv', ReceiverStep
  PROVE  Theirs!Show \/ UNCHANGED Theirs!turns
<1>1. Talking' = Talking /\ HaveReply' = HaveReply
  BY DEF Talking, HaveReply, ReceiverStep, await_message, receive, release_slot, answer, announce_over,
     display, give_turn, await_quiet, remove
<1>2. CASE display
  <2>1. PICK s \in Senders : UnderWay = {Line(s, "text")} /\ UnderWay' = {}
    BY <1>2, DisplayShows
  <2>2. TheLine = Line(s, "text") /\ TheLine' = Silence
    BY <2>1, LineIs DEF TheLine
  <2>3. TheLine # Silence
    BY <2>2 DEF Line, Silence
  <2>4. QED
    BY <1>1, <2>2, <2>3 DEF Theirs!Show, Theirs!Silence, Silence, Line
<1>3. CASE ~display
  <2>1. UnderWay' = UnderWay
    BY <1>3, ReceiverCarries, ReceiveCarries, AnswerCarries, RemoveCarries DEF ReceiverStep
  <2>2. TheLine' = TheLine
    BY <2>1 DEF TheLine
  <2>3. QED
    BY <1>1, <2>2 DEF Theirs!turns
<1>4. QED
  BY <1>2, <1>3

LEMMA NextTurns == Inv /\ Inv' /\ [Next]_vars => [Theirs!Next]_(Theirs!turns)
<1> SUFFICES ASSUME Inv, Inv', [Next]_vars PROVE [Theirs!Next]_(Theirs!turns)
  OBVIOUS
<1>1. ASSUME NEW s \in Senders, SenderStep(s) PROVE [Theirs!Next]_(Theirs!turns)
  BY <1>1, SenderTurns DEF Theirs!Next
<1>2. ASSUME NEW s \in Senders, read_line(s) PROVE Theirs!Next
  BY <1>2, ReadLineTurns DEF Theirs!Next
<1>3. ASSUME ReceiverStep PROVE [Theirs!Next]_(Theirs!turns)
  BY <1>3, ReceiverTurns DEF Theirs!Next
<1>4. ASSUME UNCHANGED vars PROVE UNCHANGED Theirs!turns
  <2>1. UnderWay' = UnderWay /\ Talking' = Talking /\ HaveReply' = HaveReply
    BY <1>4 DEF vars, UnderWay, Sending, Talking, HaveReply
  <2>2. QED
    BY <2>1 DEF Theirs!turns, TheLine
<1>5. QED
  BY <1>1, <1>2, <1>3, <1>4 DEF Next

(* The protocol implements taking turns, for any number of senders.        *)
THEOREM Implements == Spec => TakesTurns
<1>1. Init => Theirs!Init
  BY InitTurns
<1>2. Inv /\ Inv' /\ [Next]_vars => [Theirs!Next]_(Theirs!turns)
  BY NextTurns
<1>3. QED
  BY <1>1, <1>2, Inductive, PTL DEF Spec, TakesTurns, Theirs!Spec
=============================================================================
