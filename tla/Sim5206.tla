------------------------------ MODULE Sim5206 ------------------------------
(***************************************************************************)
(* The interrupt path of the emulator: the interrupt controller of the     *)
(* 5206 SIM (peripherals/sim_5206.c), the posting interface of the core    *)
(* (exception.c) and the run loop that consults it (run.c).                *)
(*                                                                         *)
(* One turn of the run loop is a check for interrupts, one instruction and *)
(* a call of memory_update, in which every device calls                    *)
(* sim_interrupt_assert, sim_interrupt_withdraw or neither.  The devices   *)
(* are kept abstract here: any of them may do any of the three.            *)
(***************************************************************************)
EXTENDS Integers, FiniteSets

CONSTANTS
  Inputs,         \* the numbers of the SIM's inputs that have a device (1..13)
  MaxLevel,       \* the highest interrupt level (7)
  IcrValues,      \* the ICR contents the firmware writes: [level, avec]
  DeviceVectors,  \* the vectors the devices report
  ResetIcr        \* the reset values of the ICRs

Levels == 0 .. MaxLevel

ASSUME SimAssumption ==
  /\ Inputs \subseteq Nat \ {0}
  /\ IsFiniteSet(Inputs)
  /\ MaxLevel \in Nat
  /\ IcrValues \subseteq [level : Levels, avec : BOOLEAN]
  /\ DeviceVectors \subseteq 0 .. 255
  /\ ResetIcr \in [Inputs -> [level : Levels, avec : BOOLEAN]]

VARIABLES
  ICR,                   \* interrupt control registers
  IMR,                   \* the inputs masked by the interrupt mask register
  IPR,                   \* the inputs pending in the interrupt pending register
  interrupt_acknowledge, \* the vector the device reported for each input
  interrupts_at_level,   \* how many inputs are pending at each level
  exception_pending,     \* the levels posted to the core
  iack_func,             \* the levels with an acknowledge function
  sr_i,                  \* the interrupt mask of the status register
  vector,                \* the vector of the last interrupt that was taken
  phase,                 \* where the run loop is
  due                    \* the devices memory_update has still to call

simVars == <<ICR, IMR, IPR, interrupt_acknowledge, interrupts_at_level>>
coreVars == <<exception_pending, iack_func>>
vars == <<simVars, coreVars, sr_i, vector, phase, due>>

Vectors == 0 .. 255 \cup {24 + l : l \in Levels}

\* "execute" is the instruction that follows a check; "resumed" is the one that
\* follows an interrupt the monitor has handled on behalf of a handler in ROM.
Phases == {"check", "execute", "resumed", "update"}

Init ==
  /\ ICR = ResetIcr
  /\ IMR = Inputs
  /\ IPR = {}
  /\ interrupt_acknowledge = [n \in Inputs |-> 0]
  /\ interrupts_at_level = [l \in Levels |-> 0]
  /\ exception_pending = {}
  /\ iack_func = {}
  /\ sr_i \in Levels
  /\ vector = 0
  /\ phase = "check"
  /\ due = {}

-----------------------------------------------------------------------------
(* The core: exception.c *)

ICR_LEVEL(icr) == icr.level
ICR_AVEC(icr) == icr.avec

exception_post(l) ==
  /\ exception_pending' = exception_pending \cup {l}
  /\ iack_func' = iack_func \cup {l}

exception_withdraw(l) ==
  /\ exception_pending' = exception_pending \ {l}
  /\ iack_func' = iack_func \ {l}

-----------------------------------------------------------------------------
(* The SIM: sim_5206.c *)

\* The pending inputs routed to level l now.
PendingAt(l) == {n \in IPR : ICR_LEVEL(ICR[n]) = l}

\* The vector an input delivers: its autovector, or the one its device reported.
InputVector(n) ==
  IF ICR_AVEC(ICR[n]) THEN 24 + ICR_LEVEL(ICR[n]) ELSE interrupt_acknowledge[n]

\* The lowest-numbered input the acknowledge cycle finds at level l.
Acknowledged(l) == CHOOSE n \in PendingAt(l) : \A m \in PendingAt(l) : n <= m

\* A mutant: the scan stops at the first pending input, whatever its level.
sim_iack_func_any_level(l) ==
  IF IPR = {} THEN 0 ELSE InputVector(CHOOSE n \in IPR : \A m \in IPR : n <= m)

sim_iack_func(l) == IF PendingAt(l) = {} THEN 0 ELSE InputVector(Acknowledged(l))

\* A mutant: the early return for an input that is pending already is gone.
sim_interrupt_assert_recount(n, v) ==
  LET l == ICR_LEVEL(ICR[n]) IN
  /\ n \notin IMR
  /\ interrupt_acknowledge' = [interrupt_acknowledge EXCEPT ![n] = v]
  /\ IPR' = IPR \cup {n}
  /\ exception_post(l)
  /\ interrupts_at_level' = [interrupts_at_level EXCEPT ![l] = @ + 1]
  /\ UNCHANGED <<ICR, IMR>>

sim_interrupt_assert(n, v) ==
  LET l == ICR_LEVEL(ICR[n]) IN
  \/ /\ n \in IMR
     /\ UNCHANGED <<simVars, coreVars>>
  \/ /\ n \notin IMR
     /\ interrupt_acknowledge' = [interrupt_acknowledge EXCEPT ![n] = v]
     /\ \/ /\ n \in IPR
           /\ UNCHANGED <<IPR, interrupts_at_level, coreVars>>
        \/ /\ n \notin IPR
           /\ IPR' = IPR \cup {n}
           /\ exception_post(l)
           /\ interrupts_at_level' = [interrupts_at_level EXCEPT ![l] = @ + 1]
     /\ UNCHANGED <<ICR, IMR>>

\* A mutant: the level is withdrawn from the core with every input.
sim_interrupt_withdraw_level(n) ==
  LET l == ICR_LEVEL(ICR[n]) IN
  /\ n \notin IMR
  /\ n \in IPR
  /\ interrupt_acknowledge' = [interrupt_acknowledge EXCEPT ![n] = 0]
  /\ IPR' = IPR \ {n}
  /\ interrupts_at_level' = [interrupts_at_level EXCEPT ![l] = @ - 1]
  /\ exception_withdraw(l)
  /\ UNCHANGED <<ICR, IMR>>

\* A mutant: the check that the input is pending is gone.
sim_interrupt_withdraw_unchecked(n) ==
  LET l == ICR_LEVEL(ICR[n]) IN
  /\ n \notin IMR
  /\ interrupt_acknowledge' = [interrupt_acknowledge EXCEPT ![n] = 0]
  /\ IPR' = IPR \ {n}
  /\ interrupts_at_level' = [interrupts_at_level EXCEPT ![l] = @ - 1]
  /\ IF interrupts_at_level'[l] = 0 THEN exception_withdraw(l) ELSE UNCHANGED coreVars
  /\ UNCHANGED <<ICR, IMR>>

sim_interrupt_withdraw(n) ==
  LET l == ICR_LEVEL(ICR[n]) IN
  \/ /\ n \in IMR
     /\ UNCHANGED <<simVars, coreVars>>
  \/ /\ n \notin IMR
     /\ interrupt_acknowledge' = [interrupt_acknowledge EXCEPT ![n] = 0]
     /\ \/ /\ n \notin IPR
           /\ UNCHANGED <<IPR, interrupts_at_level, coreVars>>
        \/ /\ n \in IPR
           /\ IPR' = IPR \ {n}
           /\ interrupts_at_level' = [interrupts_at_level EXCEPT ![l] = @ - 1]
           /\ IF interrupts_at_level'[l] = 0
              THEN exception_withdraw(l)
              ELSE UNCHANGED coreVars
     /\ UNCHANGED <<ICR, IMR>>

-----------------------------------------------------------------------------
(* The run loop: run.c *)

\* The levels the scan 7 .. sr.i + 1 would find.
Deliverable == {l \in iack_func : l > sr_i}

\* A mutant: the scan runs upwards, so the lowest level is served first.
exception_check_and_handle_upwards(l, inRom) ==
  /\ exception_pending # {}
  /\ l \in Deliverable
  /\ \A k \in Deliverable : l <= k
  /\ vector' = sim_iack_func(l)
  /\ sr_i' = IF inRom THEN sr_i ELSE l
  /\ phase' = IF inRom THEN "resumed" ELSE "execute"
  /\ UNCHANGED <<simVars, coreVars, due>>

\* An interrupt at level l is taken.  The frame is pushed before the mask is
\* raised; when the handler is in ROM the monitor handles it and the frame is
\* popped at once, which puts the old mask back.
exception_check_and_handle(l, inRom) ==
  /\ exception_pending # {}
  /\ l \in Deliverable
  /\ \A k \in Deliverable : k <= l
  /\ vector' = sim_iack_func(l)
  /\ sr_i' = IF inRom THEN sr_i ELSE l
  /\ phase' = IF inRom THEN "resumed" ELSE "execute"
  /\ UNCHANGED <<simVars, coreVars, due>>

TakeInterrupt ==
  /\ phase = "check"
  /\ \E l \in Levels, inRom \in BOOLEAN : exception_check_and_handle(l, inRom)

NothingToTake ==
  /\ phase = "check"
  /\ exception_pending = {} \/ Deliverable = {}
  /\ phase' = "execute"
  /\ UNCHANGED <<simVars, coreVars, sr_i, vector, due>>

\* The end of every instruction: memory_update is about to call each device.
StartUpdate ==
  /\ phase \in {"execute", "resumed"}
  /\ phase' = "update"
  /\ due' = Inputs

\* The guest writes an ICR through sim_write.
WriteICR(n, icr) ==
  /\ StartUpdate
  /\ ICR' = [ICR EXCEPT ![n] = icr]
  /\ UNCHANGED <<IMR, IPR, interrupt_acknowledge, interrupts_at_level>>
  /\ UNCHANGED <<coreVars, sr_i, vector>>

\* The guest writes the IMR through sim_write: the pending bits are not touched.
WriteIMR(masked) ==
  /\ StartUpdate
  /\ IMR' = masked
  /\ UNCHANGED <<ICR, IPR, interrupt_acknowledge, interrupts_at_level>>
  /\ UNCHANGED <<coreVars, sr_i, vector>>

\* MOVE to SR, STOP, and the frame RTE pops: the guest loads any mask.  With
\* i = sr_i this is every other instruction as well.
WriteSR(i) ==
  /\ StartUpdate
  /\ sr_i' = i
  /\ UNCHANGED <<simVars, coreVars, vector>>

\* An odd pc, an unmapped pc and an unknown opcode push an exception frame and
\* `continue': the devices are not updated in this turn.
FaultBeforeExecution ==
  /\ phase \in {"execute", "resumed"}
  /\ phase' = "check"
  /\ UNCHANGED <<simVars, coreVars, sr_i, vector, due>>

\* The `reset' command of the monitor, which an instruction has trapped into:
\* the SIM's writable registers and the status register are reloaded.
Reset(i) ==
  /\ StartUpdate
  /\ ICR' = ResetIcr
  /\ IMR' = Inputs
  /\ sr_i' = i
  /\ UNCHANGED <<IPR, interrupt_acknowledge, interrupts_at_level, coreVars, vector>>

\* memory_update calls one device: it asserts, withdraws, or returns early (a
\* timer that is off, a UART with no connection).  Several passes in one turn
\* (the polling loops of TRAP #15) end in the same states as one pass.
UpdateDevice(n) ==
  /\ phase = "update"
  /\ n \in due
  /\ due' = due \ {n}
  /\ phase' = IF due' = {} THEN "check" ELSE "update"
  /\ \/ \E v \in DeviceVectors : sim_interrupt_assert(n, v)
     \/ sim_interrupt_withdraw(n)
     \/ UNCHANGED <<simVars, coreVars>>
  /\ UNCHANGED <<sr_i, vector>>

Loop ==
  \/ TakeInterrupt
  \/ NothingToTake
  \/ \E masked \in SUBSET Inputs : WriteIMR(masked)
  \/ \E i \in Levels : WriteSR(i)
  \/ FaultBeforeExecution
  \/ \E n \in Inputs : UpdateDevice(n)

\* Firmware that routes an input only while the input is not pending.
Next ==
  \/ Loop
  \/ \E n \in Inputs \ IPR, icr \in IcrValues : WriteICR(n, icr)

Spec == Init /\ [][Next]_vars

\* Any firmware, and an operator who resets the board.
RawNext ==
  \/ Loop
  \/ \E n \in Inputs, icr \in IcrValues : WriteICR(n, icr)
  \/ \E i \in Levels : Reset(i)

RawSpec == Init /\ [][RawNext]_vars

-----------------------------------------------------------------------------
(* Properties *)

TypeOK ==
  /\ ICR \in [Inputs -> [level : Levels, avec : BOOLEAN]]
  /\ IMR \subseteq Inputs
  /\ IPR \subseteq Inputs
  /\ interrupt_acknowledge \in [Inputs -> 0 .. 255]
  /\ interrupts_at_level \in [Levels -> Nat]
  /\ exception_pending \subseteq Levels
  /\ iack_func \subseteq Levels
  /\ sr_i \in Levels
  /\ vector \in Vectors
  /\ phase \in Phases
  /\ due \subseteq Inputs

\* The counter of a level is the number of inputs pending at that level, after
\* any sequence of assertions, withdrawals, maskings and routings.
CountsMatchPending ==
  \A l \in Levels : interrupts_at_level[l] = Cardinality(PendingAt(l))

\* A level is posted to the core exactly while some input is pending at it: no
\* request is forgotten by the core, and none outlives its inputs.
PostedMatchesPending ==
  /\ exception_pending = {l \in Levels : PendingAt(l) # {}}
  /\ iack_func = exception_pending

\* An instruction never runs while an interrupt above the mask is posted, except
\* the one after a handler in ROM, which the monitor runs with the mask put back.
NothingDeliverableInExecute ==
  phase = "execute" => Deliverable = {}

Controller ==
  INSTANCE InterruptController WITH
    requested <- IPR,
    level <- [n \in Inputs |-> ICR_LEVEL(ICR[n])],
    vectorOf <- [n \in Inputs |-> InputVector(n)],
    mask <- sr_i,
    delivered <- vector

\* The counters, the posted levels and the acknowledge scan implement the
\* interrupt controller: every interrupt taken is that of a pending input of the
\* highest pending level, is above the mask, and carries that input's vector.
ImplementsController == Controller!Spec

\* sim_interrupt_withdraw says it withdraws a level from the core "only if there
\* are no interrupts left pending at that level".
WithdrawnOnlyWhenNonePending ==
  [][\A l \in iack_func \ iack_func' : PendingAt(l)' = {}]_vars
=============================================================================
