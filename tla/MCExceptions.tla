---------------------------- MODULE MCExceptions ----------------------------
(***************************************************************************)
(* Two instructions, an address without memory behind them, a stack of     *)
(* four longwords, two inputs and two levels.  Fetches of extension words  *)
(* and bytes lead to further addresses without memory, odd ones among      *)
(* them.  The guest handles access errors, privilege violations, TRAP #0   *)
(* and its devices, one of which reports a vector that is also a fault's;  *)
(* the monitor handles the rest.                                           *)
(***************************************************************************)
EXTENDS Exceptions

MCHandler == [v \in {2, 8, 10, 25, 26, 32} |-> 100]

\* User and supervisor state, two levels, and both values of the codes.
MCGuestSR == {[Cleared EXCEPT !.c = 1], [Cleared EXCEPT !.s = TRUE, !.i = 1]}

\* The guest may bring both inputs to one level by a write of its own.
MCRoutes == {[n \in Inputs |-> IF n = 9 THEN 1 ELSE 2]}

MCDevice == [n \in Inputs |-> 10]
=============================================================================
