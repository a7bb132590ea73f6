------------------------ MODULE InterruptController ------------------------
(***************************************************************************)
(* What the interrupt path of the emulator promises, without the registers *)
(* and counters it is built from.  Every input is either requested or not, *)
(* and has a level and a vector.  The processor accepts an interrupt only  *)
(* for an input that is requested, whose level is above the mask and is    *)
(* the highest requested one, and it is given that input's vector.         *)
(*                                                                         *)
(* Sim5206 implements this module: see ImplementsController there.         *)
(***************************************************************************)
EXTENDS Integers

CONSTANTS
  Inputs,    \* the interrupt inputs of the SIM
  MaxLevel,  \* the highest interrupt level
  Vectors    \* every vector an input can deliver

Levels == 0 .. MaxLevel

VARIABLES
  requested,  \* the inputs that want an interrupt
  level,      \* level[n]: the level input n is routed to
  vectorOf,   \* vectorOf[n]: the vector input n delivers
  mask,       \* the interrupt mask of the processor
  delivered   \* the vector of the last interrupt the processor accepted

vars == <<requested, level, vectorOf, mask, delivered>>

Init ==
  /\ requested = {}
  /\ level \in [Inputs -> Levels]
  /\ vectorOf \in [Inputs -> Vectors]
  /\ mask \in Levels
  /\ delivered \in Vectors

\* The vector of n, and of no other input, may change.
Revector(n) ==
  /\ vectorOf' \in [Inputs -> Vectors]
  /\ \A m \in Inputs \ {n} : vectorOf'[m] = vectorOf[m]

\* A device raises or drops its request, and may change its vector as it does.
Signal(n) ==
  /\ requested' \in {requested \cup {n}, requested \ {n}}
  /\ Revector(n)
  /\ UNCHANGED <<level, mask, delivered>>

\* The firmware routes an input that is not requested.
Route(n) ==
  /\ n \notin requested
  /\ \E l \in Levels : level' = [level EXCEPT ![n] = l]
  /\ Revector(n)
  /\ UNCHANGED <<requested, mask, delivered>>

SetMask ==
  /\ mask' \in Levels
  /\ UNCHANGED <<requested, level, vectorOf, delivered>>

\* The processor accepts the interrupt of n.  A handler in ROM is run to its
\* end by the monitor before the next instruction, and leaves the mask alone.
Accept(n) ==
  /\ n \in requested
  /\ level[n] > mask
  /\ \A m \in requested : level[m] <= level[n]
  /\ delivered' = vectorOf[n]
  /\ mask' \in {mask, level[n]}
  /\ UNCHANGED <<requested, level, vectorOf>>

Next ==
  \/ \E n \in Inputs : Signal(n) \/ Route(n) \/ Accept(n)
  \/ SetMask

Spec == Init /\ [][Next]_vars
=============================================================================
