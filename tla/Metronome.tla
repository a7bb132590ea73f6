----------------------------- MODULE Metronome -----------------------------
(***************************************************************************)
(* What a programmable timer promises: it is owed the cycles that elapse   *)
(* while it runs, and an update advances its counter exactly when a whole  *)
(* period is owed, which it then consumes.  The owner may load the counter *)
(* in its own steps and restart the timer with any period, never take or   *)
(* give cycles otherwise.  With the period 0 there are no cycles to count, *)
(* and every update advances the counter.                                  *)
(***************************************************************************)
EXTENDS Naturals

CONSTANTS
  Size,    \* the counter counts modulo Size
  Periods, \* the periods that can be programmed
  Costs    \* the cycles that one step of the owner can take

VARIABLES
  turn,     \* whose step is next: "execute" for the owner's, "update"
  running,
  period,
  owed,     \* cycles not yet accounted for by a count
  counter

vars == <<turn, running, period, owed, counter>>

Init ==
  /\ turn = "execute"
  /\ running = FALSE
  /\ period \in Periods
  /\ owed = 0
  /\ counter = 0

Elapse(n) == owed' = IF running /\ period # 0 THEN owed + n ELSE 0

Idle(n) == Elapse(n) /\ UNCHANGED <<running, period, counter>>

Load(n) == Elapse(n) /\ counter' \in 0 .. Size - 1 /\ UNCHANGED <<running, period>>

Start(n) ==
  /\ running' = TRUE
  /\ period' \in Periods
  /\ owed' = IF period' # 0 THEN n ELSE 0
  /\ counter' \in {counter, 0}

Stop ==
  /\ running' = FALSE
  /\ period' \in Periods
  /\ owed' = 0
  /\ counter' \in {counter, 0}

Owner ==
  /\ turn = "execute"
  /\ turn' = "update"
  /\ Stop \/ \E n \in Costs : Idle(n) \/ Load(n) \/ Start(n)

\* From the count where it restarts, the counter goes on to 1.
Update ==
  /\ turn = "update"
  /\ turn' = "execute"
  /\ IF running /\ owed >= period
     THEN owed' = owed - period /\ counter' \in {(counter + 1) % Size, 1}
     ELSE UNCHANGED <<owed, counter>>
  /\ UNCHANGED <<running, period>>

\* A power-on reset.
Reset ==
  /\ turn = "execute"
  /\ Stop
  /\ UNCHANGED turn

Next == Owner \/ Update \/ Reset

Spec == Init /\ [][Next]_vars
=============================================================================
