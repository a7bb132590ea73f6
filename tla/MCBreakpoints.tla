--------------------------- MODULE MCBreakpoints ---------------------------
(* Two addresses, room for two breakpoints, and one fault inside a command. *)
EXTENDS Breakpoints

MCProgram == [a \in Addresses |-> a]
=============================================================================
