------------------------------- MODULE KillGate -------------------------------
(* What the kill switch promises an operator, whatever it is built on: a       *)
(* command takes effect at once, and from the moment it is sure a crash and a  *)
(* restart cannot undo it. Before that a restart may come back either way.     *)
VARIABLES manual,   \* trading is halted
          sure,     \* what a restart is bound to find: "halted", "resumed", "nothing"
          up

vars == <<manual, sure, up>>

Word(halt) == IF halt THEN "halted" ELSE "resumed"

\* A new store is not halted; whether that is sure is left open.
Init == manual = FALSE /\ sure \in {"nothing", "resumed"} /\ up = TRUE

\* The switch is turned; the store may have what is commanded already. A
\* command that turns nothing is no step of the gate.
Command(halt) ==
  /\ up /\ manual # halt /\ manual' = halt
  /\ sure' \in {"nothing", Word(halt)} /\ UNCHANGED up

Confirm ==
  /\ up /\ sure = "nothing" /\ sure' = Word(manual)
  /\ UNCHANGED <<manual, up>>

\* The store loses a write that has not been committed.
Doubt == sure' = "nothing" /\ UNCHANGED <<manual, up>>

\* A crash may decide what was not sure.
Crash ==
  /\ up /\ up' = FALSE /\ manual' = FALSE
  /\ \/ sure = "nothing" /\ sure' \in {"halted", "resumed"}
     \/ UNCHANGED sure

Restart ==
  /\ ~up /\ up' = TRUE /\ UNCHANGED sure
  /\ manual' \in {v \in BOOLEAN : /\ sure = "halted"  => v
                                  /\ sure = "resumed" => ~v}

Kept == (\E halt \in BOOLEAN : Command(halt)) \/ Confirm \/ Crash \/ Restart

Next == Kept \/ Doubt

\* A store that loses no write, and one that may.
Steady == Init /\ [][Kept]_vars
Spec == Init /\ [][Next]_vars
=============================================================================
