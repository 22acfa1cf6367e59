------------------------------ MODULE FakeQueue ------------------------------
(***************************************************************************)
(* Lab 3, Exp3_3_fake: the first version of the message queue exercise,    *)
(* whose threads keep in step with two semaphores.  Each semaphore or      *)
(* queue call is one step, and the label of a thread names the call it is  *)
(* at.  As in MessageQueue the two senders are one process each.           *)
(*                                                                         *)
(* The queue has a fixed key and belongs to the host: a process that is    *)
(* killed leaves it, with what is in it, to the next one.  The semaphores  *)
(* are the process's own.  Every thread has opened the queue before any of *)
(* them uses it.                                                           *)
(***************************************************************************)
EXTENDS Integers, Sequences, FiniteSets

CONSTANTS
  Senders,      \* the sender threads, {1, 2} in the code
  MaxRuns       \* bound: how often the program is started

ASSUME SendersAssumption == IsFiniteSet(Senders) /\ Senders # {} /\ "none" \notin Senders
ASSUME MaxRunsAssumption == MaxRuns \in Nat \ {0}

VARIABLES
  snd_mutex, rcv_mutex,   \* semaphores
  queue,       \* the messages in the queue, oldest first
  removed,     \* the queue has been removed
  failed,      \* a CHECK has ended the process
  snd,         \* where each sender is
  buf,         \* the line each sender typed last, or the answer it got
  rcv,         \* where the receiver is
  rbuf,        \* the message the receiver has taken
  must_stop,   \* exits the receiver has yet to answer
  runs,        \* how often the program has been started
  leftover     \* history: messages in the queue when it was started last

sems  == <<snd_mutex, rcv_mutex>>
local == <<sems, failed, snd, buf, rcv, rbuf, must_stop>>
vars  == <<local, queue, removed, runs, leftover>>

SndLabels == {"P(snd_mutex)", "fgets", "msgsnd", "V(rcv_mutex)", "msgrcv", "V(snd_mutex)", "done"}
RcvLabels == {"P(rcv_mutex)", "msgrcv", "strncmp", "V(snd_mutex)", "msgctl", "done"}

(* Messages of types 1 and 2, and of types 3 and 4. *)
Request(s, text) == [to |-> "receiver", who |-> s, text |-> text]
Reply(s)         == [to |-> "sender",   who |-> s, text |-> "over"]
Messages == {Request(s, text) : s \in Senders, text \in {"text", "exit"}}
              \cup {Reply(s) : s \in Senders}
NoMessage == [to |-> "none", who |-> "none", text |-> "none"]

Init ==
  /\ snd_mutex = 1 /\ rcv_mutex = 0 /\ failed = FALSE
  /\ snd = [s \in Senders |-> "P(snd_mutex)"] /\ buf = [s \in Senders |-> "none"]
  /\ rcv = "P(rcv_mutex)" /\ rbuf = NoMessage /\ must_stop = Cardinality(Senders)
  /\ queue = <<>> /\ removed = FALSE /\ runs = 1 /\ leftover = 0

goes(s, from, to)  == snd[s] = from /\ snd' = [snd EXCEPT ![s] = to]
rcv_goes(from, to) == rcv = from /\ rcv' = to
SameRun == UNCHANGED <<runs, leftover>>

(* CHECK around a call that needs the queue: it ends the process. *)
CheckFails == removed /\ failed' = TRUE /\ UNCHANGED queue
-----------------------------------------------------------------------------
(* sender1 and sender2 *)

take_turn(s) ==
  /\ goes(s, "P(snd_mutex)", "fgets")
  /\ snd_mutex > 0 /\ snd_mutex' = snd_mutex - 1
  /\ UNCHANGED <<rcv_mutex, queue, removed, failed, buf, rcv, rbuf, must_stop>> /\ SameRun

read_line(s) ==
  /\ goes(s, "fgets", "msgsnd")
  /\ \E text \in {"text", "exit"} : buf' = [buf EXCEPT ![s] = text]
  /\ UNCHANGED <<sems, queue, removed, failed, rcv, rbuf, must_stop>> /\ SameRun

send(s) ==
  /\ goes(s, "msgsnd", "V(rcv_mutex)")
  /\ \/ CheckFails
     \/ ~removed /\ queue' = Append(queue, Request(s, buf[s])) /\ UNCHANGED failed
  /\ UNCHANGED <<sems, removed, buf, rcv, rbuf, must_stop>> /\ SameRun

announce(s) ==
  /\ goes(s, "V(rcv_mutex)", IF buf[s] = "exit" THEN "msgrcv" ELSE "P(snd_mutex)")
  /\ rcv_mutex' = rcv_mutex + 1
  /\ UNCHANGED <<snd_mutex, queue, removed, failed, buf, rcv, rbuf, must_stop>> /\ SameRun

(* msgrcv takes the oldest message of the sender's own type, and fails     *)
(* once the receiver has removed the queue.                                *)
read_reply(s) ==
  /\ goes(s, "msgrcv", "V(snd_mutex)")
  /\ \/ CheckFails /\ UNCHANGED buf
     \/ \E i \in 1..Len(queue) :
          /\ ~removed /\ queue[i] = Reply(s)
          /\ \A j \in 1..(i - 1) : queue[j] # Reply(s)
          /\ queue' = SubSeq(queue, 1, i - 1) \o SubSeq(queue, i + 1, Len(queue))
          /\ buf' = [buf EXCEPT ![s] = "over"]
          /\ UNCHANGED failed
  /\ UNCHANGED <<sems, removed, rcv, rbuf, must_stop>> /\ SameRun

end_turn(s) ==
  /\ goes(s, "V(snd_mutex)", "done")
  /\ snd_mutex' = snd_mutex + 1
  /\ UNCHANGED <<rcv_mutex, queue, removed, failed, buf, rcv, rbuf, must_stop>> /\ SameRun
-----------------------------------------------------------------------------
(* receiver *)

(* A bug the checks must notice: the turn is given on before the message   *)
(* has been taken.                                                         *)
await_message_giving ==
  /\ rcv_goes("P(rcv_mutex)", "msgrcv")
  /\ rcv_mutex > 0 /\ rcv_mutex' = rcv_mutex - 1 /\ snd_mutex' = snd_mutex + 1
  /\ UNCHANGED <<queue, removed, failed, snd, buf, rbuf, must_stop>> /\ SameRun

await_message ==
  /\ rcv_goes("P(rcv_mutex)", "msgrcv")
  /\ rcv_mutex > 0 /\ rcv_mutex' = rcv_mutex - 1
  /\ UNCHANGED <<snd_mutex, queue, removed, failed, snd, buf, rbuf, must_stop>> /\ SameRun

(* msgrcv with type 0 takes the oldest message, whoever it is for. *)
receive ==
  /\ rcv_goes("msgrcv", "strncmp")
  /\ queue # <<>>
  /\ rbuf' = Head(queue) /\ queue' = Tail(queue)
  /\ UNCHANGED <<sems, removed, failed, snd, buf, must_stop>> /\ SameRun

(* Three bugs the checks must notice: the turn is given away with the       *)
(* answer; the loop ends with the first exit; the loop's test comes before *)
(* must_stop is counted down.                                              *)
answer_giving ==
  /\ rbuf.text = "exit"
  /\ rcv_goes("strncmp", IF must_stop = 1 THEN "msgctl" ELSE "P(rcv_mutex)")
  /\ queue' = Append(queue, Reply(rbuf.who))
  /\ must_stop' = must_stop - 1 /\ snd_mutex' = snd_mutex + 1
  /\ UNCHANGED <<rcv_mutex, removed, failed, snd, buf, rbuf>> /\ SameRun

answer_first ==
  /\ rbuf.text = "exit"
  /\ rcv_goes("strncmp", "msgctl")
  /\ queue' = Append(queue, Reply(rbuf.who))
  /\ must_stop' = must_stop - 1
  /\ UNCHANGED <<sems, removed, failed, snd, buf, rbuf>> /\ SameRun

answer_late ==
  /\ rbuf.text = "exit"
  /\ rcv_goes("strncmp", IF must_stop = 0 THEN "msgctl" ELSE "P(rcv_mutex)")
  /\ queue' = Append(queue, Reply(rbuf.who))
  /\ must_stop' = must_stop - 1
  /\ UNCHANGED <<sems, removed, failed, snd, buf, rbuf>> /\ SameRun

(* The turn stays with the sender, which gives it on when it has read its  *)
(* answer.                                                                 *)
answer ==
  /\ rbuf.text = "exit"
  /\ rcv_goes("strncmp", IF must_stop = 1 THEN "msgctl" ELSE "P(rcv_mutex)")
  /\ queue' = Append(queue, Reply(rbuf.who))
  /\ must_stop' = must_stop - 1
  /\ UNCHANGED <<sems, removed, failed, snd, buf, rbuf>> /\ SameRun

display ==
  /\ rbuf.text # "exit"
  /\ rcv_goes("strncmp", "V(snd_mutex)")
  /\ UNCHANGED <<sems, queue, removed, failed, snd, buf, rbuf, must_stop>> /\ SameRun

give_turn ==
  /\ rcv_goes("V(snd_mutex)", "P(rcv_mutex)")
  /\ snd_mutex' = snd_mutex + 1
  /\ UNCHANGED <<rcv_mutex, queue, removed, failed, snd, buf, rbuf, must_stop>> /\ SameRun

(* Nothing is waited for before the queue goes. *)
remove ==
  /\ rcv_goes("msgctl", "done")
  /\ removed' = TRUE /\ queue' = <<>>
  /\ UNCHANGED <<sems, failed, snd, buf, rbuf, must_stop>> /\ SameRun
-----------------------------------------------------------------------------
(* The process is killed, or has ended, and is started again. *)
start_again ==
  /\ runs < MaxRuns /\ runs' = runs + 1
  /\ snd_mutex' = 1 /\ rcv_mutex' = 0 /\ failed' = FALSE
  /\ snd' = [s \in Senders |-> "P(snd_mutex)"] /\ buf' = [s \in Senders |-> "none"]
  /\ rcv' = "P(rcv_mutex)" /\ rbuf' = NoMessage /\ must_stop' = Cardinality(Senders)
  /\ removed' = FALSE /\ leftover' = Len(queue)
  /\ UNCHANGED queue

(* All that a sender does without its user. *)
SenderStep(s) ==
  take_turn(s) \/ send(s) \/ announce(s) \/ read_reply(s) \/ end_turn(s)

ReceiverStep ==
  await_message \/ receive \/ answer \/ display \/ give_turn \/ remove

Next ==
  \/ /\ ~failed
     /\ \/ \E s \in Senders : SenderStep(s) \/ read_line(s)
        \/ ReceiverStep
  \/ start_again

Spec == Init /\ [][Next]_vars

(* The threads run.  Nobody need type, nor start the program again.        *)
FairSpec ==
  /\ Spec
  /\ \A s \in Senders : WF_vars(~failed /\ SenderStep(s))
  /\ WF_vars(~failed /\ ReceiverStep)
-----------------------------------------------------------------------------
(* Properties *)

(* The process found the queue empty. *)
Fresh == leftover = 0

(* Neither semaphore counts beyond one in a process that found the queue   *)
(* empty.  An answer left by an earlier one is read before the sender's    *)
(* exit has been taken, and gives the turn on twice.                       *)
TypeOK ==
  /\ snd_mutex \in Nat /\ rcv_mutex \in Nat
  /\ Fresh => snd_mutex \in 0..1 /\ rcv_mutex \in 0..1
  /\ queue \in Seq(Messages) /\ removed \in BOOLEAN /\ failed \in BOOLEAN
  /\ snd \in [Senders -> SndLabels]
  /\ buf \in [Senders -> {"none", "text", "exit", "over"}]
  /\ rcv \in RcvLabels /\ rbuf \in Messages \cup {NoMessage}
  /\ must_stop \in 0..Cardinality(Senders)
  /\ runs \in 1..MaxRuns /\ leftover \in Nat

(* The lines that have been typed and neither displayed nor answered: in a *)
(* sender's hands, in the queue or in the receiver's hands.                *)
Line(s, text) == [who |-> s, text |-> text]
Sending(s) == buf[s] = "exit" \/ snd[s] \in {"msgsnd", "V(rcv_mutex)"}
UnderWay ==
  {Line(s, buf[s]) : s \in {s \in Senders : Sending(s)}}
    \cup {Line(queue[i].who, queue[i].text) :
            i \in {i \in 1..Len(queue) : queue[i].to = "receiver"}}
    \cup {Line(m.who, m.text) : m \in IF rcv = "strncmp" THEN {rbuf} ELSE {}}

TheLine   == IF UnderWay = {} THEN [who |-> "none", text |-> "none"]
             ELSE CHOOSE l \in UnderWay : TRUE
Talking   == {s \in Senders : buf[s] \notin {"exit", "over"}}
HaveReply == {s \in Senders : buf[s] = "over"}

(* As long as a process found the queue empty, its two semaphores do what  *)
(* the six of Exp3_3 do: lines are shown one by one before anyone is       *)
(* prompted, and each exit is answered to the sender that said it, if at   *)
(* all, before the turn goes on (main.c:22-38, 92-114).                    *)
Theirs ==
  INSTANCE Turns WITH line <- TheLine, talking <- Talking, answered <- HaveReply
FreshTakesTurns ==
  [][Fresh /\ runs' = runs => Theirs!Next \/ UNCHANGED Theirs!turns]_vars

(* The receiver removes the queue with an answer still in it (main.c:118): *)
(* the CHECK that fails then (main.c:35) is the last sender's to say exit, *)
(* and every other sender has had its answer.                              *)
OnlyLastAnswerLost ==
  Fresh /\ failed =>
    /\ removed
    /\ \E s \in Senders :
         /\ buf[s] = "exit"
         /\ \A t \in Senders \ {s} : buf[t] = "over" /\ snd[t] = "done"

(* Messages that an earlier process left behind are shown before anything  *)
(* is sent: until someone says exit, whoever is prompted has as many lines *)
(* before it in the queue as there were at the start (main.c:19, 97).      *)
LateByLeftover ==
  (snd_mutex = 1 \/ \E s \in Senders : snd[s] = "fgets")
     /\ must_stop = Cardinality(Senders) /\ (\A s \in Senders : buf[s] \in {"none", "text"})
    => Len(queue) = leftover

(* In a process that found the queue empty, once every sender has said     *)
(* exit the process ends or dies of the CHECK, and the queue is gone.      *)
FreshEnds ==
  \A r \in 1..MaxRuns :
    Fresh /\ runs = r /\ (\A s \in Senders : buf[s] \in {"exit", "over"})
      ~> runs # r \/ (removed /\ (failed \/ \A s \in Senders : snd[s] = "done"))
=============================================================================
