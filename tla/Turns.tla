------------------------------- MODULE Turns -------------------------------
(***************************************************************************)
(* What the programs of Exp3_3 promise their users: senders take turns, a  *)
(* line is displayed before anyone types the next one, and a sender that   *)
(* says exit is answered before anyone goes on.                            *)
(***************************************************************************)
CONSTANT Senders

VARIABLES
  line,      \* the line typed and not yet displayed or answered
  talking,   \* senders that have not said exit
  answered   \* senders that have read their answer

turns == <<line, talking, answered>>

Silence == [who |-> "none", text |-> "none"]
Lines   == [who : Senders, text : {"text", "exit"}]

Init ==
  /\ line = Silence
  /\ talking = Senders
  /\ answered = {}

Say(s) ==
  /\ line = Silence /\ s \in talking
  /\ line' = [who |-> s, text |-> "text"]
  /\ UNCHANGED <<talking, answered>>

Show ==
  /\ line # Silence /\ line.text = "text"
  /\ line' = Silence
  /\ UNCHANGED <<talking, answered>>

Stop(s) ==
  /\ line = Silence /\ s \in talking
  /\ line' = [who |-> s, text |-> "exit"]
  /\ talking' = talking \ {s}
  /\ UNCHANGED answered

Answer(s) ==
  /\ line = [who |-> s, text |-> "exit"]
  /\ line' = Silence
  /\ answered' = answered \cup {s}
  /\ UNCHANGED talking

Next ==
  \/ \E s \in Senders : Say(s) \/ Stop(s) \/ Answer(s)
  \/ Show

Spec == Init /\ [][Next]_turns
=============================================================================
