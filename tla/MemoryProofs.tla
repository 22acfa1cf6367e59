---------------------------- MODULE MemoryProofs ----------------------------
(***************************************************************************)
(* Proofs about SharedMemory: the inductive invariant, and that the two    *)
(* programs hand lines over as Handoff says, whatever the user types.      *)
(***************************************************************************)
EXTENDS SharedMemory, TLAPS

Inv == TypeOK /\ MemInv

(* Nothing but a step of a program changes anything. *)
LEMMA InitInv == Init => Inv
<1> SUFFICES ASSUME Init PROVE Inv
  OBVIOUS
<1>1. TypeOK
  <2>1. full \in 0..1 /\ empty \in 0..1 /\ rcv_to_snd \in 0..1
        /\ restarts \in 0..MaxRestarts
    BY MaxRestartsAssumption DEF Init
  <2>2. removed \in BOOLEAN /\ must_stop \in BOOLEAN /\ clean \in BOOLEAN
        /\ whole \in BOOLEAN /\ names = AllNames
    BY DEF Init
  <2>3. /\ data \in Lines \cup {"zeros", "exit", "over"}
        /\ snd \in SndLabels /\ rcv \in RcvLabels
        /\ typed \in Lines \cup {"exit", "none"} /\ got \in {"none", "over"}
    BY DEF Init, SndLabels, RcvLabels
  <2> QED
    BY <2>1, <2>2, <2>3 DEF TypeOK
<1>2. MemInv
  <2>1. NamesLeft
    BY DEF Init, NamesLeft, Removing
  <2>2. full + empty + Holders = 1 /\ whole
    BY DEF Init, Holders, SndHas, RcvHas
  <2>3. Talking
    BY DEF Init, Talking, Announced
  <2> QED
    BY <2>1, <2>2, <2>3 DEF MemInv
<1> QED
  BY <1>1, <1>2 DEF Inv

(* Only the sender's last steps take names away. *)
LEMMA NamesKept == Inv /\ Next => NamesLeft'
<1> SUFFICES ASSUME Inv, Next PROVE NamesLeft'
  OBVIOUS
<1>1. NamesLeft
  BY DEF Inv, MemInv
<1>2. CASE names' = names /\ removed' = removed /\ snd' = snd
  BY <1>1, <1>2 DEF NamesLeft
<1>3. CASE remove_memory
  <2>1. names = AllNames /\ names' = names /\ removed' /\ snd' = "unlink empty"
    BY <1>1, <1>3 DEF remove_memory, snd_goes, SameRun, NamesLeft, Removing
  <2> QED
    BY <2>1 DEF NamesLeft, Removing
<1>4. CASE cleanup
  <2>1. CASE sem_unlink("empty", "unlink empty", "unlink full")
    <3>1. /\ names = AllNames /\ removed /\ removed'
          /\ snd' = "unlink full" /\ names' = names \ {"empty"}
      BY <1>1, <2>1 DEF sem_unlink, snd_goes, NamesLeft, Removing
    <3>2. names' = {"full", "rcv_to_snd"}
      BY <3>1 DEF AllNames
    <3> QED
      BY <3>1, <3>2 DEF NamesLeft, Removing
  <2>2. CASE sem_unlink("full", "unlink full", "unlink rcv_to_snd")
    <3>1. /\ names = {"full", "rcv_to_snd"} /\ removed /\ removed'
          /\ snd' = "unlink rcv_to_snd" /\ names' = names \ {"full"}
      BY <1>1, <2>2 DEF sem_unlink, snd_goes, NamesLeft, Removing
    <3>2. names' = {"rcv_to_snd"}
      BY <3>1
    <3> QED
      BY <3>1, <3>2 DEF NamesLeft, Removing
  <2>3. CASE sem_unlink("rcv_to_snd", "unlink rcv_to_snd", "done")
    <3>1. /\ names = {"rcv_to_snd"} /\ removed /\ removed'
          /\ snd' = "done" /\ names' = names \ {"rcv_to_snd"}
      BY <1>1, <2>3 DEF sem_unlink, snd_goes, NamesLeft, Removing
    <3>2. names' = {}
      BY <3>1
    <3> QED
      BY <3>1, <3>2 DEF NamesLeft, Removing
  <2> QED
    BY <1>4, <2>1, <2>2, <2>3 DEF cleanup
<1>5. CASE start_over
  BY <1>5 DEF start_over, NamesLeft, Removing
<1>6. CASE ReceiverStep \/ restart_rcv \/ kill_rcv
  <2>1. names' = names /\ removed' = removed /\ snd' = snd
    BY <1>6 DEF ReceiverStep, rcv_open, await_line, look, release, take_answer_slot, answer,
                signal_stop, announce_answer, detach, restart_rcv, kill_rcv, SameRun
  <2> QED
    BY <1>2, <2>1
<1>7. CASE kill_snd
  <2>1. names' = names /\ removed' = removed /\ snd' = "done" /\ removed
    BY <1>7 DEF kill_snd, SameRun
  <2> QED
    BY <1>1, <2>1 DEF NamesLeft, Removing
<1>8. CASE SenderStep \/ read_line \/ restart_snd
  <2>1. CASE remove_memory \/ cleanup
    BY <1>3, <1>4, <2>1
  <2>2. CASE ~(remove_memory \/ cleanup)
    <3>1. /\ names' = names /\ removed' = removed
          /\ snd' \notin Removing /\ (snd \notin Removing \/ ~removed)
      BY <1>8, <2>2 DEF SenderStep, snd_open, take_slot, clear, read_line, announce, look_again,
                        await_stop, await_answer, print_answer, give_slot, restart_snd, SameRun,
                        snd_goes, Removing
    <3>2. ~removed
      BY <1>1, <3>1 DEF NamesLeft
    <3> QED
      BY <1>1, <3>1, <3>2 DEF NamesLeft, Removing
  <2> QED
    BY <2>1, <2>2
<1> QED
  BY <1>5, <1>6, <1>7, <1>8 DEF Next, Restart

(* The turn, and the stage of the exchange, as a step of a program sees them. *)
TurnKept  == /\ full \in Nat /\ empty \in Nat
             /\ whole => full + empty + Holders <= 1 /\ full \in 0..1 /\ empty \in 0..1
             /\ clean => whole /\ full + empty + Holders = 1
StageKept == clean => Talking \/ Stopping \/ Answering

(* A step of a program passes the turn on: from a semaphore to a program,  *)
(* or back.                                                                *)
LEMMA SenderTurn ==
  ASSUME Inv, SenderStep \/ read_line
  PROVE  TurnKept'
<1>0. TurnKept
  BY DEF Inv, TypeOK, MemInv, TurnKept
<1> USE <1>0
<1> USE DEF TurnKept, Holders, SndHas, RcvHas, sems, SameRun, snd_goes
<1>1. CASE snd_open
  BY <1>1 DEF snd_open
<1>2. CASE take_slot
  BY <1>2 DEF take_slot
<1>3. CASE clear
  BY <1>3 DEF clear
<1>4. CASE read_line
  BY <1>4 DEF read_line
<1>5. CASE announce
  BY <1>5 DEF announce
<1>6. CASE look_again
  BY <1>6 DEF look_again
<1>7. CASE await_stop
  BY <1>7 DEF await_stop
<1>8. CASE await_answer
  BY <1>8 DEF await_answer
<1>9. CASE print_answer
  BY <1>9 DEF print_answer
<1>10. CASE give_slot
  BY <1>10 DEF give_slot
<1>11. CASE remove_memory
  BY <1>11 DEF remove_memory
<1>12. CASE cleanup
  <2> SUFFICES ASSUME NEW name, NEW from \in Removing, NEW to \in Removing,
                      sem_unlink(name, from, to)
               PROVE  TurnKept'
    BY <1>12 DEF cleanup, Removing
  <2> QED
    BY DEF sem_unlink, Removing
<1> QED
  BY <1>1, <1>2, <1>3, <1>4, <1>5, <1>6, <1>7, <1>8, <1>9, <1>10, <1>11, <1>12
  DEF SenderStep

LEMMA ReceiverTurn ==
  ASSUME Inv, ReceiverStep
  PROVE  TurnKept'
<1>0. TurnKept
  BY DEF Inv, TypeOK, MemInv, TurnKept
<1> USE <1>0
<1> USE DEF TurnKept, Holders, SndHas, RcvHas, sems, SameRun, rcv_goes
<1>1. CASE rcv_open
  BY <1>1 DEF rcv_open
<1>2. CASE await_line
  BY <1>2 DEF await_line
<1>3. CASE look
  BY <1>3 DEF look
<1>4. CASE release
  BY <1>4 DEF release
<1>5. CASE take_answer_slot
  BY <1>5 DEF take_answer_slot
<1>6. CASE answer
  BY <1>6 DEF answer
<1>7. CASE signal_stop
  BY <1>7 DEF signal_stop
<1>8. CASE announce_answer
  BY <1>8 DEF announce_answer
<1>9. CASE detach
  BY <1>9 DEF detach
<1> QED
  BY <1>1, <1>2, <1>3, <1>4, <1>5, <1>6, <1>7, <1>8, <1>9
  DEF ReceiverStep

(* It takes the exchange from stage to stage. *)
LEMMA SenderStage ==
  ASSUME Inv, SenderStep \/ read_line
  PROVE  StageKept'
<1>0. /\ StageKept /\ TurnKept /\ TurnKept'
      /\ typed \in Lines \cup {"exit", "none"}
  BY SenderTurn DEF Inv, TypeOK, MemInv, TurnKept, StageKept
<1> USE <1>0
<1> USE DEF StageKept, TurnKept, Holders, SndHas, RcvHas, Talking, Stopping, Answering,
            Announced, Removing, sems, SameRun, snd_goes
<1>1. CASE snd_open
  BY <1>1 DEF snd_open
<1>2. CASE take_slot
  BY <1>2 DEF take_slot
<1>3. CASE clear
  BY <1>3 DEF clear
<1>4. CASE read_line
  <2>1. snd = "fgets" /\ snd' = "V(full)" /\ data' = typed' /\ typed' # "none"
    BY <1>4, LinesAssumption DEF read_line
  <2> QED
    BY <1>4, <2>1 DEF read_line
<1>5. CASE announce
  BY <1>5 DEF announce
<1>6. CASE look_again
  BY <1>6 DEF look_again
<1>7. CASE await_stop
  BY <1>7 DEF await_stop
<1>8. CASE await_answer
  BY <1>8 DEF await_answer
<1>9. CASE print_answer
  BY <1>9 DEF print_answer
<1>10. CASE give_slot
  BY <1>10 DEF give_slot
<1>11. CASE remove_memory
  BY <1>11 DEF remove_memory
<1>12. CASE cleanup
  BY <1>12 DEF cleanup, sem_unlink
<1> QED
  BY <1>1, <1>2, <1>3, <1>4, <1>5, <1>6, <1>7, <1>8, <1>9, <1>10, <1>11, <1>12
  DEF SenderStep

LEMMA ReceiverStage ==
  ASSUME Inv, ReceiverStep
  PROVE  StageKept'
<1>0. /\ StageKept /\ TurnKept /\ TurnKept'
      /\ typed \in Lines \cup {"exit", "none"}
  BY ReceiverTurn DEF Inv, TypeOK, MemInv, TurnKept, StageKept
<1> USE <1>0
<1> USE DEF StageKept, TurnKept, Holders, SndHas, RcvHas, Talking, Stopping, Answering,
            Announced, Removing, sems, SameRun, rcv_goes
<1>1. CASE rcv_open
  BY <1>1 DEF rcv_open
<1>2. CASE await_line
  BY <1>2 DEF await_line
<1>3. CASE look
  <2>1. CASE data = "exit"
    <3>1. must_stop' = TRUE
      BY <1>3, <2>1 DEF look
    <3> QED
      BY <1>3, <2>1, <3>1 DEF look
  <2>2. CASE data # "exit"
    <3>1. must_stop' = FALSE
      BY <1>3, <2>2 DEF look
    <3> QED
      BY <1>3, <2>2, <3>1 DEF look
  <2> QED
    BY <2>1, <2>2
<1>4. CASE release
  BY <1>4 DEF release
<1>5. CASE take_answer_slot
  BY <1>5 DEF take_answer_slot
<1>6. CASE answer
  BY <1>6 DEF answer
<1>7. CASE signal_stop
  BY <1>7 DEF signal_stop
<1>8. CASE announce_answer
  BY <1>8 DEF announce_answer
<1>9. CASE detach
  BY <1>9 DEF detach
<1> QED
  BY <1>1, <1>2, <1>3, <1>4, <1>5, <1>6, <1>7, <1>8, <1>9
  DEF ReceiverStep

(* And what it leaves is of the right type. *)
LEMMA SenderTypes ==
  ASSUME Inv, SenderStep \/ read_line
  PROVE  TypeOK'
<1>1. TypeOK /\ TurnKept' /\ StageKept'
  BY SenderTurn, SenderStage DEF Inv
<1>2. whole' => full' \in 0..1 /\ empty' \in 0..1
  BY <1>1 DEF TurnKept
<1>3. clean' => rcv_to_snd' \in 0..1 /\ got' \in {"none", "over"}
  BY <1>1 DEF StageKept, Talking, Stopping, Answering
<1>4. full' \in Nat /\ empty' \in Nat
  BY <1>1 DEF TurnKept
<1> USE <1>1, <1>2, <1>3, <1>4
<1> USE DEF TypeOK, SndLabels, sems, SameRun, snd_goes
<1>5. CASE snd_open
  BY <1>5 DEF snd_open
<1>6. CASE take_slot
  BY <1>6 DEF take_slot
<1>7. CASE clear
  BY <1>7 DEF clear
<1>8. CASE read_line
  BY <1>8 DEF read_line
<1>9. CASE announce
  BY <1>9 DEF announce
<1>10. CASE look_again
  BY <1>10 DEF look_again
<1>11. CASE await_stop
  BY <1>11 DEF await_stop
<1>12. CASE await_answer
  BY <1>12 DEF await_answer
<1>13. CASE print_answer
  BY <1>13 DEF print_answer
<1>14. CASE give_slot
  BY <1>14 DEF give_slot
<1>15. CASE remove_memory
  BY <1>15 DEF remove_memory
<1>16. CASE cleanup
  BY <1>16 DEF cleanup, sem_unlink
<1> QED
  BY <1>5, <1>6, <1>7, <1>8, <1>9, <1>10, <1>11, <1>12, <1>13, <1>14, <1>15, <1>16
  DEF SenderStep

LEMMA ReceiverTypes ==
  ASSUME Inv, ReceiverStep
  PROVE  TypeOK'
<1>1. TypeOK /\ TurnKept' /\ StageKept'
  BY ReceiverTurn, ReceiverStage DEF Inv
<1>2. whole' => full' \in 0..1 /\ empty' \in 0..1
  BY <1>1 DEF TurnKept
<1>3. clean' => rcv_to_snd' \in 0..1 /\ got' \in {"none", "over"}
  BY <1>1 DEF StageKept, Talking, Stopping, Answering
<1>4. full' \in Nat /\ empty' \in Nat
  BY <1>1 DEF TurnKept
<1> USE <1>1, <1>2, <1>3, <1>4
<1> USE DEF TypeOK, RcvLabels, sems, SameRun, rcv_goes
<1>5. CASE rcv_open
  BY <1>5 DEF rcv_open
<1>6. CASE await_line
  BY <1>6 DEF await_line
<1>7. CASE look
  BY <1>7 DEF look
<1>8. CASE release
  BY <1>8 DEF release
<1>9. CASE take_answer_slot
  BY <1>9 DEF take_answer_slot
<1>10. CASE answer
  BY <1>10 DEF answer
<1>11. CASE signal_stop
  BY <1>11 DEF signal_stop
<1>12. CASE announce_answer
  BY <1>12 DEF announce_answer
<1>13. CASE detach
  BY <1>13 DEF detach
<1> QED
  BY <1>5, <1>6, <1>7, <1>8, <1>9, <1>10, <1>11, <1>12, <1>13
  DEF ReceiverStep

(* A step of a program keeps the invariant. *)
LEMMA ProgramKeeps == Inv /\ (SenderStep \/ read_line \/ ReceiverStep) => Inv'
<1> SUFFICES ASSUME Inv, SenderStep \/ read_line \/ ReceiverStep PROVE Inv'
  OBVIOUS
<1>1. NamesLeft'
  BY NamesKept DEF Next
<1>2. TurnKept' /\ StageKept' /\ TypeOK'
  BY SenderTurn, SenderStage, SenderTypes, ReceiverTurn, ReceiverStage, ReceiverTypes
<1> QED
  BY <1>1, <1>2 DEF Inv, MemInv, TurnKept, StageKept

(* A program started in place of another, or killed after the removal,     *)
(* takes no turn.                                                          *)
LEMMA KilledKeeps == Inv /\ (restart_snd \/ restart_rcv \/ kill_snd \/ kill_rcv) => Inv'
<1> SUFFICES ASSUME Inv, restart_snd \/ restart_rcv \/ kill_snd \/ kill_rcv PROVE Inv'
  OBVIOUS
<1>1. NamesLeft'
  BY NamesKept DEF Next, Restart
<1>2. TypeOK /\ TurnKept /\ StageKept
  BY DEF Inv, MemInv, TypeOK, TurnKept, StageKept
<1>3. CASE restart_snd
  <2>1. /\ full' = full /\ empty' = empty /\ rcv_to_snd' = rcv_to_snd /\ data' = data
        /\ removed' = removed /\ names' = names /\ rcv' = rcv /\ must_stop' = must_stop
        /\ typed' = typed /\ snd' = "start" /\ got' = "none" /\ clean' = FALSE
        /\ whole' = whole /\ restarts < MaxRestarts /\ restarts' = restarts + 1
    BY <1>3 DEF restart_snd, sems
  <2>2. restarts' \in 0..MaxRestarts
    BY <1>2, <2>1, MaxRestartsAssumption DEF TypeOK
  <2>3. TypeOK'
    BY <1>2, <2>1, <2>2 DEF TypeOK, SndLabels
  <2>4. TurnKept' /\ StageKept'
    BY <1>2, <2>1 DEF TurnKept, StageKept, Holders, SndHas, RcvHas
  <2> QED
    BY <1>1, <2>3, <2>4 DEF Inv, MemInv, TurnKept, StageKept
<1>4. CASE restart_rcv
  <2>1. /\ full' = full /\ empty' = empty /\ rcv_to_snd' = rcv_to_snd /\ data' = data
        /\ removed' = removed /\ names' = names /\ snd' = snd /\ must_stop' = FALSE
        /\ typed' = typed /\ rcv' = "start" /\ got' = got /\ clean' = FALSE
        /\ whole' = whole /\ restarts < MaxRestarts /\ restarts' = restarts + 1
    BY <1>4 DEF restart_rcv, sems
  <2>2. restarts' \in 0..MaxRestarts
    BY <1>2, <2>1, MaxRestartsAssumption DEF TypeOK
  <2>3. TypeOK'
    BY <1>2, <2>1, <2>2 DEF TypeOK, RcvLabels
  <2>4. TurnKept' /\ StageKept'
    BY <1>2, <2>1 DEF TurnKept, StageKept, Holders, SndHas, RcvHas
  <2> QED
    BY <1>1, <2>3, <2>4 DEF Inv, MemInv, TurnKept, StageKept
<1>5. CASE kill_snd \/ kill_rcv
  <2>1. /\ full' = full /\ empty' = empty /\ rcv_to_snd' = rcv_to_snd /\ data' = data
        /\ removed /\ removed' = removed /\ names' = names /\ must_stop' = must_stop
        /\ typed' = typed /\ got' = got /\ clean' = clean /\ whole' = whole
        /\ restarts' = restarts /\ snd' \in {snd, "done"} /\ rcv' \in {rcv, "done"}
    BY <1>5 DEF kill_snd, kill_rcv, SameRun, sems
  <2>2. snd' \in SndLabels /\ rcv' \in RcvLabels
    BY <1>2, <2>1 DEF TypeOK, SndLabels, RcvLabels
  <2>3. TypeOK'
    BY <1>2, <2>1, <2>2 DEF TypeOK
  <2>4. TurnKept' /\ StageKept'
    <3>1. CASE clean
      <4>1. snd \in Removing /\ rcv \in {"shmdt", "done"} /\ Answering
        BY <1>2, <2>1, <3>1 DEF StageKept, Talking, Stopping, Answering, Removing
      <4>2. snd' \in Removing /\ rcv' \in {"shmdt", "done"}
        BY <2>1, <4>1 DEF Removing
      <4>3. snd \notin SndHas /\ snd' \notin SndHas /\ rcv \notin RcvHas /\ rcv' \notin RcvHas
        BY <4>1, <4>2 DEF SndHas, RcvHas, Removing
      <4>4. TurnKept'
        BY <1>2, <2>1, <4>3 DEF TurnKept, Holders
      <4>5. must_stop /\ data = "over" /\ rcv_to_snd = 0 /\ full = 0 /\ got = "over"
        BY <2>1, <4>1 DEF Answering, Removing
      <4>6. Answering'
        BY <2>1, <4>2, <4>5 DEF Answering
      <4> QED
        BY <4>4, <4>6 DEF StageKept
    <3>2. CASE ~clean
      <4>1. (snd' \in SndHas => snd \in SndHas) /\ (rcv' \in RcvHas => rcv \in RcvHas)
        BY <2>1 DEF SndHas, RcvHas
      <4>2. TurnKept'
        BY <1>2, <2>1, <3>2, <4>1 DEF TurnKept, Holders
      <4> QED
        BY <2>1, <3>2, <4>2 DEF StageKept
    <3> QED
      BY <3>1, <3>2
  <2> QED
    BY <1>1, <2>3, <2>4 DEF Inv, MemInv, TurnKept, StageKept
<1> QED
  BY <1>3, <1>4, <1>5

(* Numbers that come to one are one or less. *)
LEMMA AtMostOne ==
  ASSUME NEW a \in Nat, NEW b \in Nat, a + b <= 1
  PROVE  a \in 0..1 /\ b \in 0..1 /\ a + b + (0 + 0) <= 1
OBVIOUS

(* What is made anew is as at the beginning, and so is what a clean run    *)
(* has left.                                                               *)
LEMMA StartOverKeeps == Inv /\ start_over => Inv'
<1> SUFFICES ASSUME Inv, start_over PROVE Inv'
  OBVIOUS
<1>1. /\ snd = "done" /\ rcv = "done" /\ removed
      /\ snd' = "start" /\ rcv' = "start" /\ must_stop' = FALSE /\ removed' = FALSE
      /\ data' = "zeros" /\ typed' = "none" /\ got' = "none" /\ names' = AllNames
      /\ clean' = (clean \/ names = {})
      /\ whole' = (clean \/ "full" \notin names \/ (whole /\ "empty" \in names))
  BY DEF start_over
<1>2. /\ full' = IF "full" \in names THEN full ELSE 0
      /\ empty' = IF "empty" \in names THEN empty ELSE 1
      /\ rcv_to_snd' = IF "rcv_to_snd" \in names THEN rcv_to_snd ELSE 0
  BY DEF start_over
<1>3. TypeOK /\ TurnKept /\ StageKept /\ NamesLeft
  BY DEF Inv, MemInv, TypeOK, TurnKept, StageKept
<1>4. Holders = 0 /\ Holders' = 0
  BY <1>1 DEF Holders, SndHas, RcvHas
<1>5. clean => whole /\ full = 0 /\ empty = 1 /\ rcv_to_snd = 0
  <2>1. clean => Answering
    BY <1>1, <1>3 DEF StageKept, Talking, Stopping
  <2>2. clean => full = 0 /\ rcv_to_snd = 0
    BY <1>1, <2>1 DEF Answering
  <2> QED
    BY <1>3, <1>4, <2>2 DEF TurnKept
<1>6. full' \in Nat /\ empty' \in Nat /\ rcv_to_snd' \in Nat
  BY <1>2, <1>3 DEF TypeOK
<1>7. clean' => full' = 0 /\ empty' = 1 /\ rcv_to_snd' = 0 /\ whole'
  BY <1>1, <1>2, <1>5
<1>8. "full" \notin names => full' = 0 /\ empty' = 1
  <2>1. names \in {AllNames, {"full", "rcv_to_snd"}, {"rcv_to_snd"}, {}}
    BY <1>3 DEF NamesLeft
  <2>2. "full" \notin names => "empty" \notin names
    BY <2>1 DEF AllNames
  <2> QED
    BY <1>2, <2>2
<1>9. whole' => full' + empty' <= 1
  <2>1. CASE clean \/ "full" \notin names
    BY <1>1, <1>7, <1>8, <2>1
  <2>2. CASE ~clean /\ "full" \in names
    <3>1. whole' => whole /\ full' = full /\ empty' = empty
      BY <1>1, <1>2, <2>2
    <3> QED
      BY <1>3, <1>4, <3>1 DEF TurnKept
  <2> QED
    BY <2>1, <2>2
<1>10. whole' => full' \in 0..1 /\ empty' \in 0..1
  <2> SUFFICES ASSUME whole' PROVE full' \in 0..1 /\ empty' \in 0..1
    OBVIOUS
  <2>1. full' + empty' <= 1
    BY <1>9
  <2> QED
    BY <1>6, <2>1, AtMostOne
<1>11. TurnKept' /\ StageKept'
  <2>1. clean' => Talking'
    BY <1>1, <1>7 DEF Talking, Announced
  <2>2. snd' \notin SndHas /\ rcv' \notin RcvHas
    BY <1>1 DEF SndHas, RcvHas
  <2>3. whole' => full' + empty' + Holders' <= 1
    <3>1. whole' => full' + empty' + (0 + 0) <= 1
      BY <1>6, <1>9, AtMostOne
    <3> QED
      BY <2>2, <3>1 DEF Holders
  <2>4. clean' => whole' /\ full' + empty' + Holders' = 1
    BY <1>6, <1>7, <2>2 DEF Holders
  <2>5. TurnKept'
    BY <1>6, <1>10, <2>3, <2>4 DEF TurnKept, Holders
  <2> QED
    BY <2>1, <2>5 DEF StageKept
<1>12. TypeOK'
  <2>1. restarts' \in 0..MaxRestarts
    BY <1>3, MaxRestartsAssumption DEF start_over, TypeOK
  <2>2. snd' \in SndLabels /\ rcv' \in RcvLabels
    BY <1>1 DEF SndLabels, RcvLabels
  <2>3. clean' => rcv_to_snd' \in 0..1 /\ got' \in {"none", "over"}
    BY <1>1, <1>7
  <2>4. clean' \in BOOLEAN /\ whole' \in BOOLEAN
    BY <1>1
  <2> QED
    BY <1>1, <1>6, <1>10, <2>1, <2>2, <2>3, <2>4 DEF TypeOK
<1>13. NamesLeft'
  BY NamesKept DEF Next, Restart
<1> QED
  BY <1>11, <1>12, <1>13 DEF Inv, MemInv, TurnKept, StageKept

LEMMA NextInv == Inv /\ [Next]_vars => Inv'
<1> SUFFICES ASSUME Inv, [Next]_vars PROVE Inv'
  OBVIOUS
<1>1. CASE UNCHANGED vars
  <2>1. TypeOK'
    BY <1>1 DEF vars, sems, Inv, TypeOK
  <2>2. NamesLeft'
    BY <1>1 DEF vars, Inv, MemInv, NamesLeft
  <2>3. TurnKept' /\ StageKept'
    <3>1. TurnKept /\ StageKept
      BY DEF Inv, MemInv, TypeOK, TurnKept, StageKept
    <3> QED
      BY <1>1, <3>1 DEF vars, sems, TurnKept, Holders, StageKept, Talking, Stopping, Answering,
                        Announced
  <2> QED
    BY <2>1, <2>2, <2>3 DEF Inv, MemInv, TurnKept, StageKept
<1> QED
  BY <1>1, ProgramKeeps, KilledKeeps, StartOverKeeps DEF Next, Restart

(* One turn at the memory, and an exchange at one of three stages.         *)
THEOREM Inductive == Spec => []Inv
<1>1. Inv /\ [Next]_vars => Inv'
  BY NextInv
<1> QED
  BY InitInv, <1>1, PTL DEF Spec

(* The memory is never in two hands (sender.c:29-34, receiver.c:29-37).    *)
THEOREM OneTurn == Spec => []MemInv
<1>1. Inv => MemInv
  BY DEF Inv
<1> QED
  BY Inductive, <1>1, PTL

(* The semaphores count no further than one, and what the sender prints is *)
(* the receiver's answer.                                                  *)
THEOREM TypeCorrect == Spec => []TypeOK
<1>1. Inv => TypeOK
  BY DEF Inv
<1> QED
  BY Inductive, <1>1, PTL

(* The memory is removed after its last use (sender.c:44-51).              *)
THEOREM RemovedAfterUse == Spec => []RemovedLast
<1>1. Inv => RemovedLast
  BY DEF Inv, MemInv, Talking, Stopping, Answering, Removing, RemovedLast
<1> QED
  BY Inductive, <1>1, PTL
-----------------------------------------------------------------------------
(* The refinement: typing, the receiver's two looks, its answer and the    *)
(* sender's reading of it are steps of Handoff; nothing else is one.       *)
Stutters == TheLine' = TheLine /\ ThePhase' = ThePhase

LEMMA InitPromise == Init => Promise!Init
BY DEF Init, Promise!Init, TheLine, ThePhase

LEMMA SenderPromise ==
  ASSUME Inv, Inv', clean, SenderStep
  PROVE  Stutters \/ Promise!Read
<1> USE DEF Stutters, TheLine, ThePhase, sems, SameRun, snd_goes, Inv, MemInv, Holders, SndHas, RcvHas,
            TypeOK, Talking, Stopping, Answering, Removing, Announced
<1>1. CASE snd_open
  BY <1>1 DEF snd_open
<1>2. CASE take_slot
  BY <1>2 DEF take_slot
<1>3. CASE clear
  BY <1>3 DEF clear
<1>4. CASE announce
  BY <1>4 DEF announce
<1>5. CASE look_again
  BY <1>5 DEF look_again
<1>6. CASE await_stop
  BY <1>6 DEF await_stop
<1>7. CASE await_answer
  BY <1>7 DEF await_answer
<1>8. CASE print_answer
  BY <1>8 DEF print_answer, Promise!Read
<1>9. CASE give_slot
  BY <1>9 DEF give_slot
<1>10. CASE remove_memory
  BY <1>10 DEF remove_memory
<1>11. CASE cleanup
  BY <1>11 DEF cleanup, sem_unlink
<1> QED
  BY <1>1, <1>2, <1>3, <1>4, <1>5, <1>6, <1>7, <1>8, <1>9, <1>10, <1>11 DEF SenderStep

LEMMA TypePromise ==
  ASSUME Inv, Inv', clean, read_line
  PROVE  Promise!Type
BY DEF read_line, snd_goes, sems, SameRun, Promise!Type, TheLine, ThePhase, Inv, MemInv, Holders,
       SndHas, RcvHas, TypeOK, Talking, Stopping, Answering, Removing, Announced

(* A look at a line shows it; a look at exit stops the exchange. *)
LEMMA LookPromise ==
  ASSUME Inv, Inv', clean, look
  PROVE  Promise!Show \/ Promise!Stop
<1>1. /\ rcv = "strncmp" /\ rcv' = "V(empty)" /\ snd' = snd /\ full' = full
      /\ data' = data /\ typed' = typed /\ got' = got /\ clean'
  BY DEF look, rcv_goes, sems, SameRun
<1>2. ~must_stop /\ data = typed /\ full = 0 /\ snd # "V(full)" /\ typed \in Lines \cup {"exit"}
  BY <1>1 DEF Inv, MemInv, TypeOK, Talking, Stopping, Answering, Announced, Holders, SndHas, RcvHas
<1>3. TheLine = typed /\ TheLine' = "none" /\ ThePhase = "talking"
  BY <1>1, <1>2 DEF TheLine, ThePhase
<1>4. CASE data = "exit"
  <2>1. must_stop'
    BY <1>4 DEF look
  <2>2. ThePhase' = "stopped"
    BY <1>1, <1>4, <2>1 DEF ThePhase
  <2> QED
    BY <1>2, <1>3, <1>4, <2>2 DEF Promise!Stop
<1>5. CASE data # "exit"
  <2>1. ~must_stop'
    BY <1>5 DEF look
  <2>2. ThePhase' = "talking"
    BY <2>1 DEF ThePhase
  <2> QED
    BY <1>2, <1>3, <1>5, <2>2 DEF Promise!Show
<1> QED
  BY <1>4, <1>5

LEMMA ReceiverPromise ==
  ASSUME Inv, Inv', clean, ReceiverStep
  PROVE  Stutters \/ Promise!Show \/ Promise!Stop \/ Promise!Answer
<1>1. CASE look
  BY <1>1, LookPromise
<1> USE DEF Stutters, TheLine, ThePhase, sems, SameRun, rcv_goes, Inv, MemInv, Holders, SndHas, RcvHas,
            TypeOK, Talking, Stopping, Answering, Removing, Announced
<1>2. CASE rcv_open
  BY <1>2 DEF rcv_open
<1>3. CASE await_line
  BY <1>3 DEF await_line
<1>4. CASE release
  BY <1>4 DEF release
<1>5. CASE take_answer_slot
  BY <1>5 DEF take_answer_slot
<1>6. CASE answer
  BY <1>6 DEF answer, Promise!Answer
<1>7. CASE signal_stop
  BY <1>7 DEF signal_stop
<1>8. CASE announce_answer
  BY <1>8 DEF announce_answer
<1>9. CASE detach
  BY <1>9 DEF detach
<1> QED
  BY <1>1, <1>2, <1>3, <1>4, <1>5, <1>6, <1>7, <1>8, <1>9 DEF ReceiverStep

Handing == clean /\ clean' /\ ~start_over => Promise!Next \/ UNCHANGED Promise!handoff

LEMMA NextPromise == Inv /\ Inv' /\ [Next]_vars => [Handing]_vars
<1> SUFFICES ASSUME Inv, Inv', Next, clean, clean', ~start_over
             PROVE  Promise!Next \/ UNCHANGED Promise!handoff
  BY DEF Handing
<1>1. CASE SenderStep
  BY <1>1, SenderPromise DEF Stutters, Promise!handoff, Promise!Next
<1>2. CASE read_line
  BY <1>2, TypePromise DEF Promise!Next
<1>3. CASE ReceiverStep
  BY <1>3, ReceiverPromise DEF Stutters, Promise!handoff, Promise!Next
<1>4. CASE Restart
  <2>1. kill_snd \/ kill_rcv => Stutters
    BY DEF kill_snd, kill_rcv, SameRun, sems, Stutters, TheLine, ThePhase, Inv, MemInv, Talking,
           Stopping, Answering, Removing
  <2> QED
    BY <1>4, <2>1 DEF Restart, restart_snd, restart_rcv, Stutters, Promise!handoff
<1> QED
  BY <1>1, <1>2, <1>3, <1>4 DEF Next

(* As long as no program is killed the two hand lines over as Handoff says. *)
THEOREM Implements == Spec => HandsOver
<1>1. Inv /\ Inv' /\ [Next]_vars => [Handing]_vars
  BY NextPromise
<1>2. Spec => Promise!Init /\ [][Handing]_vars
  BY Inductive, InitPromise, <1>1, PTL DEF Spec
<1> QED
  BY <1>2 DEF Handing, HandsOver
=============================================================================
