---------------------------- MODULE SharedMemory ----------------------------
(***************************************************************************)
(* Lab 3, Exp3_4: the programs sender.c and receiver.c hand lines over in  *)
(* one piece of shared memory with three named semaphores.  Each semaphore *)
(* call and each access to the memory is one step.  The label of a program *)
(* names the call it is at.                                                *)
(*                                                                         *)
(* Whichever program is started first creates the semaphores and the       *)
(* memory, with the same values.  They have names and outlive a program    *)
(* that is killed: the one that is started in its place finds them as they *)
(* are.  The sender removes the memory and then one name after the other,  *)
(* and may be killed between two of them.  Once the memory is gone nothing *)
(* is started before both programs have ended; the names that are left     *)
(* lead the next two to the old semaphores.                                *)
(***************************************************************************)
EXTENDS Integers

CONSTANTS
  Lines,           \* bound: the lines the user types, other than exit
  MaxRestarts      \* bound: programs started in place of another

ASSUME LinesAssumption == Lines \cap {"zeros", "exit", "over", "none"} = {}
ASSUME MaxRestartsAssumption == MaxRestarts \in Nat

VARIABLES
  full, empty, rcv_to_snd,   \* semaphores
  data,        \* the text in the shared memory
  removed,     \* the memory has been removed
  names,       \* the semaphores that still have their names
  snd, rcv,    \* where the sender and the receiver are
  must_stop,   \* the receiver's flag: exit has been seen
  typed,       \* history: the line typed last
  got,         \* history: what the sender printed as the answer
  restarts,    \* programs started in place of another so far
  clean,       \* history: none was, since the semaphores were as new
  whole        \* history: `full' and `empty' are as old as each other

sems == <<full, empty, rcv_to_snd>>
vars == <<sems, data, removed, names, snd, rcv, must_stop, typed, got, restarts,
          clean, whole>>

AllNames == {"empty", "full", "rcv_to_snd"}

SndLabels ==
  {"start", "P(empty)", "memset", "fgets", "V(full)", "strncmp", "P(rcv_to_snd)",
   "P(full)", "printf", "V(empty)", "shmctl", "unlink empty", "unlink full",
   "unlink rcv_to_snd", "done"}
RcvLabels ==
  {"start", "P(full)", "strncmp", "V(empty)", "P(empty)", "strcpy", "V(rcv_to_snd)",
   "V(full)", "shmdt", "done"}

Init ==
  /\ full = 0 /\ empty = 1 /\ rcv_to_snd = 0
  /\ data = "zeros" /\ removed = FALSE /\ names = AllNames
  /\ snd = "start" /\ rcv = "start" /\ must_stop = FALSE
  /\ typed = "none" /\ got = "none"
  /\ restarts = 0 /\ clean = TRUE /\ whole = TRUE

SameRun == UNCHANGED <<names, restarts, clean, whole>>
snd_goes(from, to) == snd = from /\ snd' = to
rcv_goes(from, to) == rcv = from /\ rcv' = to
-----------------------------------------------------------------------------
(* sender.c *)

snd_open ==
  /\ snd_goes("start", "P(empty)")
  /\ UNCHANGED <<sems, data, removed, rcv, must_stop, typed, got>> /\ SameRun

(* A bug the checks must notice: the slot is looked at and not taken. *)
take_slot_untaken ==
  /\ snd_goes("P(empty)", "memset")
  /\ empty > 0
  /\ UNCHANGED <<sems, data, removed, rcv, must_stop, typed, got>> /\ SameRun

take_slot ==
  /\ snd_goes("P(empty)", "memset")
  /\ empty > 0 /\ empty' = empty - 1
  /\ UNCHANGED <<full, rcv_to_snd, data, removed, rcv, must_stop, typed, got>> /\ SameRun

clear ==
  /\ snd_goes("memset", "fgets")
  /\ data' = "zeros"
  /\ UNCHANGED <<sems, removed, rcv, must_stop, typed, got>> /\ SameRun

read_line ==
  /\ snd_goes("fgets", "V(full)")
  /\ \E text \in Lines \cup {"exit"} : data' = text /\ typed' = text
  /\ UNCHANGED <<sems, removed, rcv, must_stop, got>> /\ SameRun

announce ==
  /\ snd_goes("V(full)", "strncmp")
  /\ full' = full + 1
  /\ UNCHANGED <<empty, rcv_to_snd, data, removed, rcv, must_stop, typed, got>> /\ SameRun

(* The memory is read after it has been handed over: by now the receiver   *)
(* may have put its answer there.                                          *)
look_again ==
  /\ snd_goes("strncmp", IF data = "exit" THEN "P(rcv_to_snd)" ELSE "P(empty)")
  /\ UNCHANGED <<sems, data, removed, rcv, must_stop, typed, got>> /\ SameRun

await_stop ==
  /\ snd_goes("P(rcv_to_snd)", "P(full)")
  /\ rcv_to_snd > 0 /\ rcv_to_snd' = rcv_to_snd - 1
  /\ UNCHANGED <<full, empty, data, removed, rcv, must_stop, typed, got>> /\ SameRun

await_answer ==
  /\ snd_goes("P(full)", "printf")
  /\ full > 0 /\ full' = full - 1
  /\ UNCHANGED <<empty, rcv_to_snd, data, removed, rcv, must_stop, typed, got>> /\ SameRun

print_answer ==
  /\ snd_goes("printf", "V(empty)")
  /\ got' = data
  /\ UNCHANGED <<sems, data, removed, rcv, must_stop, typed>> /\ SameRun

give_slot ==
  /\ snd_goes("V(empty)", "shmctl")
  /\ empty' = empty + 1
  /\ UNCHANGED <<full, rcv_to_snd, data, removed, rcv, must_stop, typed, got>> /\ SameRun

(* The sender waits a second before this, which orders nothing. *)
remove_memory ==
  /\ snd_goes("shmctl", "unlink empty")
  /\ removed' = TRUE
  /\ UNCHANGED <<sems, data, rcv, must_stop, typed, got>> /\ SameRun

(* The name goes.  Who has the semaphore open keeps it.  The next one's    *)
(* turn is called `to'.                                                    *)
sem_unlink(name, from, to) ==
  /\ snd_goes(from, to)
  /\ names' = names \ {name}
  /\ UNCHANGED <<sems, data, removed, rcv, must_stop, typed, got, restarts, clean, whole>>

cleanup ==
  \/ sem_unlink("empty", "unlink empty", "unlink full")
  \/ sem_unlink("full", "unlink full", "unlink rcv_to_snd")
  \/ sem_unlink("rcv_to_snd", "unlink rcv_to_snd", "done")
-----------------------------------------------------------------------------
(* receiver.c *)

rcv_open ==
  /\ rcv_goes("start", "P(full)")
  /\ UNCHANGED <<sems, data, removed, snd, must_stop, typed, got>> /\ SameRun

await_line ==
  /\ rcv_goes("P(full)", "strncmp")
  /\ full > 0 /\ full' = full - 1
  /\ UNCHANGED <<empty, rcv_to_snd, data, removed, snd, must_stop, typed, got>> /\ SameRun

look ==
  /\ rcv_goes("strncmp", "V(empty)")
  /\ must_stop' = (data = "exit")
  /\ UNCHANGED <<sems, data, removed, snd, typed, got>> /\ SameRun

release ==
  /\ rcv_goes("V(empty)", IF must_stop THEN "P(empty)" ELSE "P(full)")
  /\ empty' = empty + 1
  /\ UNCHANGED <<full, rcv_to_snd, data, removed, snd, must_stop, typed, got>> /\ SameRun

take_answer_slot ==
  /\ rcv_goes("P(empty)", "strcpy")
  /\ empty > 0 /\ empty' = empty - 1
  /\ UNCHANGED <<full, rcv_to_snd, data, removed, snd, must_stop, typed, got>> /\ SameRun

(* A bug the checks must notice: the answer is announced as it is put      *)
(* there, and again at the end.                                            *)
answer_early ==
  /\ rcv_goes("strcpy", "V(rcv_to_snd)")
  /\ data' = "over" /\ full' = full + 1
  /\ UNCHANGED <<empty, rcv_to_snd, removed, snd, must_stop, typed, got>> /\ SameRun

answer ==
  /\ rcv_goes("strcpy", "V(rcv_to_snd)")
  /\ data' = "over"
  /\ UNCHANGED <<sems, removed, snd, must_stop, typed, got>> /\ SameRun

signal_stop ==
  /\ rcv_goes("V(rcv_to_snd)", "V(full)")
  /\ rcv_to_snd' = rcv_to_snd + 1
  /\ UNCHANGED <<full, empty, data, removed, snd, must_stop, typed, got>> /\ SameRun

(* A bug the checks must notice: the answer is not announced. *)
announce_answer_forgotten ==
  /\ rcv_goes("V(full)", "shmdt")
  /\ UNCHANGED <<sems, data, removed, snd, must_stop, typed, got>> /\ SameRun

announce_answer ==
  /\ rcv_goes("V(full)", "shmdt")
  /\ full' = full + 1
  /\ UNCHANGED <<empty, rcv_to_snd, data, removed, snd, must_stop, typed, got>> /\ SameRun

detach ==
  /\ rcv_goes("shmdt", "done")
  /\ UNCHANGED <<sems, data, removed, snd, must_stop, typed, got>> /\ SameRun
-----------------------------------------------------------------------------
(* A program is killed, or the receiver has ended, and it is started again. *)
restart_snd ==
  /\ snd \notin {"start", "done"} /\ ~removed /\ restarts < MaxRestarts
  /\ snd' = "start" /\ got' = "none"
  /\ restarts' = restarts + 1 /\ clean' = FALSE
  /\ UNCHANGED <<sems, data, removed, names, rcv, must_stop, typed, whole>>

restart_rcv ==
  /\ rcv # "start" /\ ~removed /\ restarts < MaxRestarts
  /\ rcv' = "start" /\ must_stop' = FALSE
  /\ restarts' = restarts + 1 /\ clean' = FALSE
  /\ UNCHANGED <<sems, data, removed, names, snd, typed, got, whole>>

(* Killed when the memory is gone, a program is not started again at once. *)
kill_snd ==
  /\ removed /\ snd # "done" /\ snd' = "done"
  /\ UNCHANGED <<sems, data, removed, rcv, must_stop, typed, got>> /\ SameRun

kill_rcv ==
  /\ removed /\ rcv # "done" /\ rcv' = "done"
  /\ UNCHANGED <<sems, data, removed, snd, must_stop, typed, got>> /\ SameRun

(* Both have ended, and the next two make anew whatever is not there: the  *)
(* memory, and the semaphores that have lost their names.  If the old ones *)
(* are as new ones after a run that went as it should, it counts as clean. *)
start_over ==
  /\ removed /\ snd = "done" /\ rcv = "done"
  /\ full' = IF "full" \in names THEN full ELSE 0
  /\ empty' = IF "empty" \in names THEN empty ELSE 1
  /\ rcv_to_snd' = IF "rcv_to_snd" \in names THEN rcv_to_snd ELSE 0
  /\ data' = "zeros" /\ removed' = FALSE /\ names' = AllNames
  /\ snd' = "start" /\ rcv' = "start" /\ must_stop' = FALSE
  /\ typed' = "none" /\ got' = "none"
  /\ IF names = {} THEN restarts' = restarts
     ELSE restarts < MaxRestarts /\ restarts' = restarts + 1
  /\ clean' = (clean \/ names = {})
  /\ whole' = (clean \/ "full" \notin names \/ (whole /\ "empty" \in names))
-----------------------------------------------------------------------------
(* All that the sender does without its user. *)
SenderStep ==
  \/ snd_open \/ take_slot \/ clear \/ announce \/ look_again
  \/ await_stop \/ await_answer \/ print_answer \/ give_slot
  \/ remove_memory \/ cleanup

ReceiverStep ==
  \/ rcv_open \/ await_line \/ look \/ release
  \/ take_answer_slot \/ answer \/ signal_stop \/ announce_answer \/ detach

Restart == restart_snd \/ restart_rcv \/ kill_snd \/ kill_rcv \/ start_over

Next == SenderStep \/ read_line \/ ReceiverStep \/ Restart

Spec == Init /\ [][Next]_vars

(* The programs run.  The user need neither type nor start them again. *)
FairSpec == Spec /\ WF_vars(SenderStep) /\ WF_vars(ReceiverStep)
-----------------------------------------------------------------------------
(* The inductive invariant: who has the memory, and how far the exchange   *)
(* has come.                                                               *)

SndHas == {"memset", "fgets", "V(full)", "printf", "V(empty)"}
RcvHas == {"strncmp", "V(empty)", "strcpy", "V(rcv_to_snd)", "V(full)"}
Holders == (IF snd \in SndHas THEN 1 ELSE 0) + (IF rcv \in RcvHas THEN 1 ELSE 0)

(* The sender has removed the memory. *)
Removing == {"unlink empty", "unlink full", "unlink rcv_to_snd", "done"}

(* The sender has announced a line that the receiver has not looked at. *)
Announced == full = 1 \/ rcv = "strncmp"

Talking ==
  /\ ~must_stop /\ rcv \in {"start", "P(full)", "strncmp", "V(empty)"}
  /\ snd \in {"start", "P(empty)", "memset", "fgets", "V(full)", "strncmp", "P(rcv_to_snd)"}
  /\ rcv_to_snd = 0 /\ got = "none" /\ ~removed
  /\ data \in {"zeros", typed}
  /\ Announced => snd \in {"strncmp", "P(empty)", "P(rcv_to_snd)"}
  /\ snd = "V(full)" \/ Announced => data = typed /\ typed # "none"
  /\ data = "exit" => snd = "V(full)" \/ Announced
  /\ data = "exit" => snd # "P(empty)"
  /\ snd = "P(rcv_to_snd)" => data = "exit"

(* The receiver has seen exit and has yet to put its answer. *)
Stopping ==
  /\ must_stop /\ rcv \in {"V(empty)", "P(empty)", "strcpy"}
  /\ snd \in {"strncmp", "P(rcv_to_snd)"}
  /\ data = "exit" /\ full = 0 /\ rcv_to_snd = 0 /\ got = "none" /\ ~removed

(* The answer is in the memory.  A sender that has not looked again by now *)
(* does not find its exit.                                                 *)
Answering ==
  /\ must_stop /\ rcv \in {"V(rcv_to_snd)", "V(full)", "shmdt", "done"}
  /\ data = "over"
  /\ \/ /\ snd \in {"strncmp", "P(empty)", "P(rcv_to_snd)"}
        /\ rcv_to_snd = (IF rcv = "V(rcv_to_snd)" THEN 0 ELSE 1)
        /\ empty = 0 /\ got = "none" /\ ~removed
     \/ /\ rcv_to_snd = 0
        /\ \/ snd = "P(full)" /\ rcv # "V(rcv_to_snd)" /\ empty = 0 /\ got = "none" /\ ~removed
           \/ /\ rcv \in {"shmdt", "done"} /\ full = 0
              /\ \/ snd = "printf" /\ got = "none" /\ ~removed
                 \/ snd \in {"V(empty)", "shmctl"} /\ got = "over" /\ ~removed
                 \/ snd \in Removing /\ got = "over" /\ removed

(* The names go in the order of the calls, and a sender that is killed     *)
(* leaves the rest.                                                        *)
NamesLeft ==
  /\ names \in {AllNames, {"full", "rcv_to_snd"}, {"rcv_to_snd"}, {}}
  /\ removed <=> snd \in Removing
  /\ ~removed \/ snd = "unlink empty" => names = AllNames
  /\ snd = "unlink full" => names = {"full", "rcv_to_snd"}
  /\ snd = "unlink rcv_to_snd" => names = {"rcv_to_snd"}

(* The inductive invariant: empty, full and the two programs share one     *)
(* turn at the memory, and the exchange is at one of three stages.  A      *)
(* program that is killed may take the turn with it, and the stage is then *)
(* anything; but there are two turns only after a sender that was killed   *)
(* when `empty' had lost its name and `full' had not, and not after a      *)
(* clean run (sender.c:49-50).                                             *)
MemInv ==
  /\ NamesLeft
  /\ whole => full + empty + Holders <= 1
  /\ clean => /\ whole /\ full + empty + Holders = 1
              /\ Talking \/ Stopping \/ Answering
-----------------------------------------------------------------------------
(* Properties *)

(* The two semaphores of the turn count no further than one if they are as *)
(* old as each other, and as long as no program was killed the third does  *)
(* not either and what the sender prints as the answer is the answer       *)
(* (sender.c:37-40).                                                       *)
TypeOK ==
  /\ full \in Nat /\ empty \in Nat /\ rcv_to_snd \in Nat
  /\ data \in Lines \cup {"zeros", "exit", "over"} /\ removed \in BOOLEAN
  /\ names \subseteq AllNames
  /\ snd \in SndLabels /\ rcv \in RcvLabels /\ must_stop \in BOOLEAN
  /\ typed \in Lines \cup {"exit", "none"}
  /\ got \in Lines \cup {"none", "zeros", "exit", "over"}
  /\ restarts \in 0..MaxRestarts /\ clean \in BOOLEAN /\ whole \in BOOLEAN
  /\ whole => full \in 0..1 /\ empty \in 0..1
  /\ clean => rcv_to_snd \in 0..1 /\ got \in {"none", "over"}

(* No line is lost, shown twice or overwritten before the receiver has     *)
(* looked at it, and exit is answered once (receiver.c:28-43), as long as  *)
(* no program is killed.                                                   *)
TheLine  == IF snd = "V(full)" \/ rcv = "strncmp" \/ (rcv \in {"start", "P(full)"} /\ full = 1)
              THEN data ELSE "none"
ThePhase == IF ~must_stop THEN "talking"
            ELSE IF data = "exit" THEN "stopped"
            ELSE IF got = "none" THEN "answered" ELSE "over"
Promise  == INSTANCE Handoff WITH line <- TheLine, phase <- ThePhase
HandsOver ==
  Promise!Init /\ [][clean /\ clean' /\ ~start_over =>
                       Promise!Next \/ UNCHANGED Promise!handoff]_vars

(* The sender removes the memory, and unlinks the semaphores, after the    *)
(* receiver's last use of either, which may still have to detach them      *)
(* (sender.c:44-51, receiver.c:40-48).                                     *)
RemovedLast == clean /\ removed => rcv \in {"shmdt", "done"} /\ got = "over"

(* Once exit has been typed the receiver answers and ends, and so does the *)
(* sender if it sees its own exit (sender.c:35).                           *)
ExitAnswered ==
  /\ clean /\ typed = "exit" ~> rcv = "done" \/ ~clean
  /\ clean /\ snd = "P(rcv_to_snd)" ~> snd = "done" \/ ~clean

(* "exit" is MSG_STOP (common.h:21), and the sender's loop is to end with  *)
(* it (sender.c:35): once it has been typed, the sender ends, unless a     *)
(* program is killed.                                                      *)
ExitStopsSender == clean /\ typed = "exit" ~> snd = "done" \/ ~clean
=============================================================================
