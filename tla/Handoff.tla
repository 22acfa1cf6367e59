------------------------------- MODULE Handoff -------------------------------
(***************************************************************************)
(* What the two programs of Exp3_4 promise: every line typed is looked at  *)
(* exactly once before the next one is typed, exit is the last of them,    *)
(* and exit is answered at most once.                                      *)
(***************************************************************************)
CONSTANT Lines

VARIABLES
  line,    \* the line typed and not yet looked at, or "none"
  phase    \* "talking", "stopped", "answered", "over"

handoff == <<line, phase>>

Init == line = "none" /\ phase = "talking"

Type ==
  /\ phase = "talking" /\ line = "none"
  /\ line' \in Lines \cup {"exit"}
  /\ UNCHANGED phase

Show ==
  /\ line \in Lines /\ line' = "none"
  /\ UNCHANGED phase

Stop ==
  /\ line = "exit" /\ line' = "none"
  /\ phase' = "stopped"

Answer == phase = "stopped" /\ phase' = "answered" /\ UNCHANGED line

Read == phase = "answered" /\ phase' = "over" /\ UNCHANGED line

Next == Type \/ Show \/ Stop \/ Answer \/ Read

Spec == Init /\ [][Next]_handoff
=============================================================================
