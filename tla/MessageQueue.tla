---------------------------- MODULE MessageQueue ----------------------------
(***************************************************************************)
(* Lab 3, Exp3_3: the threads sender1, sender2 and receiver of main.c talk *)
(* over one System V message queue and keep in step with six semaphores.   *)
(* The bodies of the two senders differ only in the message types they     *)
(* use, so they are one process for each member of Senders.                *)
(*                                                                         *)
(* Each semaphore or queue call is one step.  The label of a thread names  *)
(* the call it is at.                                                      *)
(***************************************************************************)
EXTENDS Integers, Sequences, FiniteSets

CONSTANTS
  Senders,      \* the sender threads, {1, 2} in the code
  EmptySlots    \* what `empty' starts with, 10 in the code

ASSUME SendersAssumption == IsFiniteSet(Senders) /\ Senders # {} /\ "none" \notin Senders
ASSUME EmptySlotsAssumption == EmptySlots \in Nat \ {0}

VARIABLES
  w_mutex, snd_dp, rcv_dp, empty, full, over,   \* semaphores
  queue,       \* the messages in the queue, oldest first
  removed,     \* the queue has been removed
  failed,      \* a CHECK has ended the process
  snd,         \* where each sender is
  buf,         \* the line each sender typed last
  rcv,         \* where the receiver is
  rbuf,        \* the message the receiver has taken
  must_stop    \* senders the receiver has yet to hear exit from

sems == <<w_mutex, snd_dp, rcv_dp, empty, full, over>>
vars == <<sems, queue, removed, failed, snd, buf, rcv, rbuf, must_stop>>

Speaking == {"V(rcv_dp)", "fgets", "P(empty)", "msgsnd", "V(full)"}
SndLabels == Speaking \cup
  {"P(w_mutex)", "P(snd_dp)", "V(w_mutex)", "P(over)", "msgrcv", "V(snd_dp)", "done"}
RcvLabels ==
  {"P(full)", "msgrcv", "V(empty)", "strncmp", "V(over)", "V(snd_dp)",
   "P(snd_dp)", "msgctl", "done"}

(* Messages of types 1 and 2, and of types 3 and 4. *)
Request(s, text) == [to |-> "receiver", who |-> s, text |-> text]
Reply(s)         == [to |-> "sender",   who |-> s, text |-> "over"]
Messages == {Request(s, text) : s \in Senders, text \in {"text", "exit"}}
              \cup {Reply(s) : s \in Senders}
NoMessage == [to |-> "none", who |-> "none", text |-> "none"]

Init ==
  /\ w_mutex = 1 /\ snd_dp = 1 /\ rcv_dp = 0
  /\ empty = EmptySlots /\ full = 0 /\ over = 0
  /\ queue = <<>> /\ removed = FALSE /\ failed = FALSE
  /\ snd = [s \in Senders |-> "P(w_mutex)"] /\ buf = [s \in Senders |-> "none"]
  /\ rcv = "P(full)" /\ rbuf = NoMessage
  /\ must_stop = Cardinality(Senders)

goes(s, from, to) == snd[s] = from /\ snd' = [snd EXCEPT ![s] = to]
rcv_goes(from, to) == rcv = from /\ rcv' = to

(* CHECK around a call that needs the queue: it ends the process. *)
CheckFails == removed /\ failed' = TRUE
-----------------------------------------------------------------------------
(* sender1 and sender2 *)

enter(s) ==
  /\ goes(s, "P(w_mutex)", "P(snd_dp)")
  /\ w_mutex > 0 /\ w_mutex' = w_mutex - 1
  /\ UNCHANGED <<snd_dp, rcv_dp, empty, full, over, queue, removed, failed,
                 buf, rcv, rbuf, must_stop>>

(* A bug the checks must notice: the turn is looked at and not taken. *)
take_turn_untaken(s) ==
  /\ goes(s, "P(snd_dp)", "V(rcv_dp)")
  /\ snd_dp > 0
  /\ UNCHANGED <<sems, queue, removed, failed, buf, rcv, rbuf, must_stop>>

take_turn(s) ==
  /\ goes(s, "P(snd_dp)", "V(rcv_dp)")
  /\ snd_dp > 0 /\ snd_dp' = snd_dp - 1
  /\ UNCHANGED <<w_mutex, rcv_dp, empty, full, over, queue, removed, failed,
                 buf, rcv, rbuf, must_stop>>

prompt(s) ==
  /\ goes(s, "V(rcv_dp)", "fgets")
  /\ rcv_dp' = rcv_dp + 1
  /\ UNCHANGED <<w_mutex, snd_dp, empty, full, over, queue, removed, failed,
                 buf, rcv, rbuf, must_stop>>

read_line(s) ==
  /\ goes(s, "fgets", "P(empty)")
  /\ \E text \in {"text", "exit"} : buf' = [buf EXCEPT ![s] = text]
  /\ UNCHANGED <<sems, queue, removed, failed, rcv, rbuf, must_stop>>

reserve(s) ==
  /\ goes(s, "P(empty)", "msgsnd")
  /\ empty > 0 /\ empty' = empty - 1
  /\ UNCHANGED <<w_mutex, snd_dp, rcv_dp, full, over, queue, removed, failed,
                 buf, rcv, rbuf, must_stop>>

send(s) ==
  /\ goes(s, "msgsnd", "V(full)")
  /\ \/ CheckFails /\ UNCHANGED queue
     \/ ~removed /\ queue' = Append(queue, Request(s, buf[s])) /\ UNCHANGED failed
  /\ UNCHANGED <<sems, removed, buf, rcv, rbuf, must_stop>>

(* A bug the checks must notice: V(full) is forgotten. *)
announce_forgotten(s) ==
  /\ goes(s, "V(full)", "V(w_mutex)")
  /\ UNCHANGED <<sems, queue, removed, failed, buf, rcv, rbuf, must_stop>>

announce(s) ==
  /\ goes(s, "V(full)", "V(w_mutex)")
  /\ full' = full + 1
  /\ UNCHANGED <<w_mutex, snd_dp, rcv_dp, empty, over, queue, removed, failed,
                 buf, rcv, rbuf, must_stop>>

leave(s) ==
  /\ goes(s, "V(w_mutex)", IF buf[s] = "exit" THEN "P(over)" ELSE "P(w_mutex)")
  /\ w_mutex' = w_mutex + 1
  /\ UNCHANGED <<snd_dp, rcv_dp, empty, full, over, queue, removed, failed,
                 buf, rcv, rbuf, must_stop>>

await_over(s) ==
  /\ goes(s, "P(over)", "msgrcv")
  /\ over > 0 /\ over' = over - 1
  /\ UNCHANGED <<w_mutex, snd_dp, rcv_dp, empty, full, queue, removed, failed,
                 buf, rcv, rbuf, must_stop>>

(* msgrcv takes the oldest message of the sender's own type. *)
read_reply(s) ==
  /\ goes(s, "msgrcv", "V(snd_dp)")
  /\ \/ CheckFails /\ UNCHANGED <<queue, buf>>
     \/ \E i \in 1..Len(queue) :
          /\ ~removed /\ queue[i] = Reply(s)
          /\ \A j \in 1..(i - 1) : queue[j] # Reply(s)
          /\ queue' = SubSeq(queue, 1, i - 1) \o SubSeq(queue, i + 1, Len(queue))
          /\ buf' = [buf EXCEPT ![s] = "over"]
          /\ UNCHANGED failed
  /\ UNCHANGED <<sems, removed, rcv, rbuf, must_stop>>

end_turn(s) ==
  /\ goes(s, "V(snd_dp)", "done")
  /\ snd_dp' = snd_dp + 1
  /\ UNCHANGED <<w_mutex, rcv_dp, empty, full, over, queue, removed, failed,
                 buf, rcv, rbuf, must_stop>>
-----------------------------------------------------------------------------
(* receiver *)

await_message ==
  /\ rcv_goes("P(full)", "msgrcv")
  /\ full > 0 /\ full' = full - 1
  /\ UNCHANGED <<w_mutex, snd_dp, rcv_dp, empty, over, queue, removed, failed,
                 snd, buf, rbuf, must_stop>>

(* msgrcv with type 0 takes the oldest message, whoever it is for. *)
receive ==
  /\ rcv_goes("msgrcv", "V(empty)")
  /\ queue # <<>>
  /\ rbuf' = Head(queue) /\ queue' = Tail(queue)
  /\ UNCHANGED <<sems, removed, failed, snd, buf, must_stop>>

(* A bug the checks must notice: V(empty) is forgotten. *)
release_slot_forgotten ==
  /\ rcv_goes("V(empty)", "strncmp")
  /\ UNCHANGED <<sems, queue, removed, failed, snd, buf, rbuf, must_stop>>

release_slot ==
  /\ rcv_goes("V(empty)", "strncmp")
  /\ empty' = empty + 1
  /\ UNCHANGED <<w_mutex, snd_dp, rcv_dp, full, over, queue, removed, failed,
                 snd, buf, rbuf, must_stop>>

answer ==
  /\ rbuf.text = "exit"
  /\ rcv_goes("strncmp", "V(over)")
  /\ queue' = Append(queue, Reply(rbuf.who))
  /\ UNCHANGED <<sems, removed, failed, snd, buf, rbuf, must_stop>>

display ==
  /\ rbuf.text # "exit"
  /\ rcv_goes("strncmp", "V(snd_dp)")
  /\ rcv_dp > 0 /\ rcv_dp' = rcv_dp - 1
  /\ UNCHANGED <<w_mutex, snd_dp, empty, full, over, queue, removed, failed,
                 snd, buf, rbuf, must_stop>>

(* Three bugs the checks must notice: the turn is given away before the     *)
(* sender has its answer; the answer is announced as a message to receive;  *)
(* the loop's test comes before must_stop is counted down.                  *)
announce_over_giving ==
  /\ rcv_goes("V(over)", IF must_stop = 1 THEN "P(snd_dp)" ELSE "P(full)")
  /\ over' = over + 1 /\ must_stop' = must_stop - 1 /\ snd_dp' = snd_dp + 1
  /\ UNCHANGED <<w_mutex, rcv_dp, empty, full, queue, removed, failed, snd, buf, rbuf>>

announce_over_full ==
  /\ rcv_goes("V(over)", IF must_stop = 1 THEN "P(snd_dp)" ELSE "P(full)")
  /\ full' = full + 1 /\ must_stop' = must_stop - 1
  /\ UNCHANGED <<w_mutex, snd_dp, rcv_dp, empty, over, queue, removed, failed,
                 snd, buf, rbuf>>

announce_over_late ==
  /\ rcv_goes("V(over)", IF must_stop = 0 THEN "P(snd_dp)" ELSE "P(full)")
  /\ over' = over + 1 /\ must_stop' = must_stop - 1
  /\ UNCHANGED <<w_mutex, snd_dp, rcv_dp, empty, full, queue, removed, failed,
                 snd, buf, rbuf>>

announce_over ==
  /\ rcv_goes("V(over)", IF must_stop = 1 THEN "P(snd_dp)" ELSE "P(full)")
  /\ over' = over + 1 /\ must_stop' = must_stop - 1
  /\ UNCHANGED <<w_mutex, snd_dp, rcv_dp, empty, full, queue, removed, failed,
                 snd, buf, rbuf>>

give_turn ==
  /\ rcv_goes("V(snd_dp)", "P(full)")
  /\ snd_dp' = snd_dp + 1
  /\ UNCHANGED <<w_mutex, rcv_dp, empty, full, over, queue, removed, failed,
                 snd, buf, rbuf, must_stop>>

(* A bug the checks must notice: the queue is removed at once. *)
await_quiet_skipped ==
  /\ rcv_goes("P(snd_dp)", "msgctl")
  /\ UNCHANGED <<sems, queue, removed, failed, snd, buf, rbuf, must_stop>>

await_quiet ==
  /\ rcv_goes("P(snd_dp)", "msgctl")
  /\ snd_dp > 0 /\ snd_dp' = snd_dp - 1
  /\ UNCHANGED <<w_mutex, rcv_dp, empty, full, over, queue, removed, failed,
                 snd, buf, rbuf, must_stop>>

remove ==
  /\ rcv_goes("msgctl", "done")
  /\ removed' = TRUE /\ queue' = <<>>
  /\ UNCHANGED <<sems, failed, snd, buf, rbuf, must_stop>>
-----------------------------------------------------------------------------
(* All that a sender does without its user. *)
SenderStep(s) ==
  \/ enter(s) \/ take_turn(s) \/ prompt(s)
  \/ reserve(s) \/ send(s) \/ announce(s) \/ leave(s)
  \/ await_over(s) \/ read_reply(s) \/ end_turn(s)

ReceiverStep ==
  \/ await_message \/ receive \/ release_slot
  \/ answer \/ announce_over
  \/ display \/ give_turn
  \/ await_quiet \/ remove

Next ==
  /\ ~failed
  /\ \/ \E s \in Senders : SenderStep(s) \/ read_line(s)
     \/ ReceiverStep

Spec == Init /\ [][Next]_vars

(* The threads run.  Nothing is asked of the users, who need not type, and *)
(* nothing of the order in which waiting senders get a semaphore.          *)
FairSpec ==
  /\ Spec
  /\ \A s \in Senders : WF_vars(~failed /\ SenderStep(s))
  /\ WF_vars(~failed /\ ReceiverStep)
-----------------------------------------------------------------------------
(* The inductive invariant: which hands the turn is in.  There is one turn, *)
(* and each stage of its way round says what the semaphores and the queue   *)
(* hold meanwhile.                                                          *)

Inside(s)  == snd[s] \in Speaking \cup {"P(snd_dp)", "V(w_mutex)"}
Stopped(s) == buf[s] = "exit" /\ snd[s] \in {"V(w_mutex)", "P(over)", "msgrcv"}
HasTurn(s) == snd[s] \in Speaking \/ Stopped(s) \/ snd[s] = "V(snd_dp)"
Told(s) ==
  \/ snd[s] \in {"msgrcv", "V(snd_dp)", "done"}
  \/ Stopped(s) /\ over = 1
Untold == {s \in Senders : ~Told(s)}

Counts(d, f, o, e) == snd_dp = d /\ full = f /\ over = o /\ empty = EmptySlots - e
NobodysTurn == \A s \in Senders : ~HasTurn(s)
TurnOf(s)   == \A t \in Senders : HasTurn(t) => t = s
(* The line the receiver has, or will take next, is the last of s. *)
Pending(s, text) ==
  IF text = "exit"
    THEN TurnOf(s) /\ buf[s] = "exit" /\ snd[s] \in {"V(w_mutex)", "P(over)"}
    ELSE NobodysTurn

Quiet ==
  Counts(1, 0, 0, 0) /\ queue = <<>> /\ rcv \in {"P(full)", "P(snd_dp)"} /\ NobodysTurn
Typing(s) ==
  /\ snd[s] \in {"V(rcv_dp)", "fgets", "P(empty)"} /\ TurnOf(s)
  /\ Counts(0, 0, 0, 0) /\ queue = <<>> /\ rcv = "P(full)"
Posting(s) ==
  /\ snd[s] \in {"msgsnd", "V(full)"} /\ TurnOf(s)
  /\ Counts(0, 0, 0, 1) /\ rcv = "P(full)"
  /\ queue = IF snd[s] = "V(full)" THEN <<Request(s, buf[s])>> ELSE <<>>
Posted(s, text) ==
  /\ Counts(0, IF rcv = "P(full)" THEN 1 ELSE 0, 0, 1)
  /\ rcv \in {"P(full)", "msgrcv"}
  /\ queue = <<Request(s, text)>> /\ Pending(s, text)
Taken(s, text) ==
  /\ Counts(0, 0, 0, IF rcv = "V(empty)" THEN 1 ELSE 0)
  /\ rcv \in {"V(empty)", "strncmp"}
  /\ queue = <<>> /\ rbuf = Request(s, text) /\ Pending(s, text)
Shown ==
  Counts(0, 0, 0, 0) /\ queue = <<>> /\ rcv = "V(snd_dp)" /\ NobodysTurn
Answered(s) ==
  /\ Counts(0, 0, 0, 0) /\ rcv = "V(over)"
  /\ queue = <<Reply(s)>> /\ rbuf = Request(s, "exit") /\ Pending(s, "exit")
Over(s) ==
  /\ Counts(0, 0, IF snd[s] = "msgrcv" THEN 0 ELSE 1, 0)
  /\ rcv \in {"P(full)", "P(snd_dp)"}
  /\ queue = <<Reply(s)>> /\ TurnOf(s) /\ Stopped(s)
Ending(s) ==
  /\ Counts(0, 0, 0, 0) /\ rcv \in {"P(full)", "P(snd_dp)"}
  /\ queue = <<>> /\ TurnOf(s) /\ snd[s] = "V(snd_dp)"
Closing ==
  Counts(0, 0, 0, 0) /\ queue = <<>> /\ rcv \in {"msgctl", "done"} /\ NobodysTurn

Stage ==
  \/ Quiet \/ Shown \/ Closing
  \/ \E s \in Senders :
       \/ Typing(s) \/ Posting(s) \/ Answered(s) \/ Over(s) \/ Ending(s)
       \/ \E text \in {"text", "exit"} : Posted(s, text) \/ Taken(s, text)

LinesHeld ==
  \A s \in Senders :
    /\ buf[s] = "over" <=> snd[s] \in {"V(snd_dp)", "done"}
    /\ buf[s] = "exit" =>
         snd[s] \in {"P(empty)", "msgsnd", "V(full)", "V(w_mutex)", "P(over)", "msgrcv"}
    /\ snd[s] \in {"P(empty)", "msgsnd", "V(full)", "V(w_mutex)"} => buf[s] \in {"text", "exit"}
    /\ snd[s] \in {"P(over)", "msgrcv"} => buf[s] = "exit"

(* The turn is in exactly one pair of hands at any time, and each stage of *)
(* its way round fixes what the semaphores, the queue and the threads hold *)
(* (sender1, sender2 and receiver: main.c:13-136).                         *)
QueueInv ==
  /\ ~failed /\ (removed <=> rcv = "done")
  /\ \A s, t \in Senders : Inside(s) /\ Inside(t) => s = t
  /\ w_mutex = 1 <=> \A s \in Senders : ~Inside(s)
  /\ LinesHeld
  /\ must_stop = Cardinality(Untold)
  /\ rcv \in {"P(snd_dp)", "msgctl", "done"} <=> Untold = {}
  /\ Stage
-----------------------------------------------------------------------------
(* Properties *)

TypeOK ==
  /\ w_mutex \in 0..1 /\ snd_dp \in 0..1
  /\ rcv_dp \in Nat /\ empty \in 0..EmptySlots /\ full \in 0..1 /\ over \in 0..1
  /\ queue \in Seq(Messages) /\ removed \in BOOLEAN /\ failed \in BOOLEAN
  /\ snd \in [Senders -> SndLabels]
  /\ buf \in [Senders -> {"none", "text", "exit", "over"}]
  /\ rcv \in RcvLabels /\ rbuf \in Messages \cup {NoMessage}
  /\ must_stop \in 0..Cardinality(Senders)

(* The lines that have been typed and neither displayed nor answered: in a *)
(* sender's hands, in the queue or in the receiver's hands.                *)
Line(s, text) == [who |-> s, text |-> text]
Sending(s) ==
  \/ snd[s] \in {"P(empty)", "msgsnd", "V(full)"}
  \/ buf[s] = "exit" /\ snd[s] \in {"V(w_mutex)", "P(over)", "msgrcv"}
UnderWay ==
  {Line(s, buf[s]) : s \in {s \in Senders : Sending(s)}}
    \cup {Line(queue[i].who, queue[i].text) :
            i \in {i \in 1..Len(queue) : queue[i].to = "receiver"}}
    \cup {Line(m.who, m.text) : m \in IF rcv \in {"V(empty)", "strncmp"} THEN {rbuf} ELSE {}}

Silence   == [who |-> "none", text |-> "none"]
LineOf(lines) == IF lines = {} THEN Silence ELSE CHOOSE l \in lines : TRUE
TheLine   == LineOf(UnderWay)
Talking   == {s \in Senders : buf[s] \notin {"exit", "over"}}
HaveReply == {s \in Senders : snd[s] \in {"V(snd_dp)", "done"}}

(* The protocol implements taking turns: no line is lost, shown twice or   *)
(* answered in the wrong hands, and the next prompt waits for it.          *)
Theirs ==
  INSTANCE Turns WITH line <- TheLine, talking <- Talking, answered <- HaveReply
TakesTurns == Theirs!Spec

(* At most one line is under way, in whatever hands, and while a sender is *)
(* at its prompt there is none.                                            *)
OneLineAtATime ==
  /\ \A l, m \in UnderWay : l = m
  /\ (\E s \in Senders : snd[s] \in {"V(rcv_dp)", "fgets"}) => UnderWay = {}

(* Nobody is left with a queue that the receiver has removed: when it      *)
(* calls msgctl every sender has read its answer (main.c:133-134).         *)
RemovedLast ==
  /\ removed => \A s \in Senders : snd[s] = "done"
  /\ ~failed

(* The receiver takes any message (main.c:108), yet it never takes the     *)
(* answer it has itself put into the same queue for a sender.              *)
AnswersReachSenders ==
  /\ rcv = "msgrcv" => queue # <<>> /\ Head(queue).to = "receiver"
  /\ \A s \in Senders :
       snd[s] = "msgrcv" => \E i \in 1..Len(queue) : queue[i] = Reply(s)

(* A line that has been typed is displayed or answered. *)
LinesAttended ==
  \A s \in Senders : snd[s] = "P(empty)" ~> UnderWay = {}

(* When every sender has said exit all threads end, and the queue is gone. *)
EveryoneEnds ==
  (\A s \in Senders : buf[s] \in {"exit", "over"})
    ~> removed /\ rcv = "done" /\ \A s \in Senders : snd[s] = "done"
=============================================================================
