------------------------------ MODULE Sim5307 ------------------------------
(***************************************************************************)
(* The interrupt controller of the 5307 (peripherals/sim_5307.c) and the   *)
(* two variables in which exception.c keeps what it has posted.  The       *)
(* inputs 8 to 17 are internal, with a control register each; the numbers  *)
(* 1 to 7 are the external pins, which no device of the emulator drives,   *)
(* and neither does one drive an input above 14, where the 16-bit masks of *)
(* the code end.                                                           *)
(***************************************************************************)
EXTENDS Integers, FiniteSets

CONSTANTS
  Inputs,         \* the inputs that have a device
  MaxLevel,       \* 7: the highest level
  DeviceVectors,  \* the vectors that devices report
  Autovectored    \* the inputs whose AVEC bit is set

ASSUME Sim5307Assumption ==
  /\ Inputs \subseteq 8 .. 14
  /\ MaxLevel \in Nat
  /\ DeviceVectors \subseteq 0 .. 255
  /\ Autovectored \subseteq Inputs

VARIABLES
  IPR,                    \* pending inputs
  IMR,                    \* masked inputs
  ICR,                    \* the level of each input
  interrupts_at_level,
  interrupt_acknowledge,  \* the vector each device reported
  posted                  \* levels in exception_pending, with a function in iack_func

simVars == <<IPR, IMR, ICR, interrupts_at_level, interrupt_acknowledge, posted>>

Levels == 0 .. MaxLevel

\* sim_reset writes the reset values of the registers: everything is masked.
SimInit ==
  /\ IPR = {} /\ IMR = Inputs
  /\ ICR = [n \in Inputs |-> 0]
  /\ interrupts_at_level = [l \in Levels |-> 0]
  /\ interrupt_acknowledge = [n \in Inputs |-> 0]
  /\ posted = {}

exception_post(l) == posted' = posted \cup {l}
exception_withdraw(l) == posted' = posted \ {l}

\* The scan goes up from input 1 and takes the first one that is pending at the
\* level; 0 when there is none.
sim_iack_func(l) ==
  LET at == {n \in IPR : ICR[n] = l}
      first == CHOOSE n \in at : \A m \in at : n <= m
  IN IF at = {} THEN 0
     ELSE IF first \in Autovectored THEN 24 + l ELSE interrupt_acknowledge[first]

\* The level is that of the control register now.
sim_interrupt_assert(n, vector) ==
  LET l == ICR[n] IN
  \/ n \in IMR /\ UNCHANGED simVars
  \/ /\ n \notin IMR
     /\ interrupt_acknowledge' = [interrupt_acknowledge EXCEPT ![n] = vector]
     /\ IF n \in IPR
        THEN UNCHANGED <<IPR, interrupts_at_level, posted>>
        ELSE /\ IPR' = IPR \cup {n}
             /\ exception_post(l)
             /\ interrupts_at_level' = [interrupts_at_level EXCEPT ![l] = @ + 1]
     /\ UNCHANGED <<IMR, ICR>>

\* A mutant: the level is withdrawn from the core with any of its inputs.
sim_interrupt_withdraw_level(n) ==
  /\ n \notin IMR /\ n \in IPR
  /\ interrupt_acknowledge' = [interrupt_acknowledge EXCEPT ![n] = 0]
  /\ IPR' = IPR \ {n}
  /\ interrupts_at_level' = [interrupts_at_level EXCEPT ![ICR[n]] = @ - 1]
  /\ exception_withdraw(ICR[n])
  /\ UNCHANGED <<IMR, ICR>>

\* The level is withdrawn from the core with its last pending input.
sim_interrupt_withdraw(n) ==
  LET l == ICR[n] IN
  \/ n \in IMR /\ UNCHANGED simVars
  \/ /\ n \notin IMR
     /\ interrupt_acknowledge' = [interrupt_acknowledge EXCEPT ![n] = 0]
     /\ IF n \notin IPR
        THEN UNCHANGED <<IPR, interrupts_at_level, posted>>
        ELSE /\ IPR' = IPR \ {n}
             /\ interrupts_at_level' = [interrupts_at_level EXCEPT ![l] = @ - 1]
             /\ IF interrupts_at_level[l] = 1 THEN exception_withdraw(l) ELSE UNCHANGED posted
     /\ UNCHANGED <<IMR, ICR>>

\* The writes of a guest that sets its interrupts up, one after the other.
sim_setup(levels) ==
  /\ ICR' = levels /\ IMR' = {}
  /\ UNCHANGED <<IPR, interrupts_at_level, interrupt_acknowledge, posted>>

\* The guest writes the mask register or a control register.  A write only
\* stores: nothing is posted or withdrawn for it.  The guest is assumed to
\* route and mask an input only while it is not pending.
sim_write ==
  /\ \/ \E n \in Inputs \ IPR, l \in Levels : ICR' = [ICR EXCEPT ![n] = l] /\ UNCHANGED IMR
     \/ \E n \in Inputs \ IPR : IMR' \in {IMR \cup {n}, IMR \ {n}} /\ UNCHANGED ICR
  /\ UNCHANGED <<IPR, interrupts_at_level, interrupt_acknowledge, posted>>
=============================================================================
