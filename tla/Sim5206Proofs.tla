--------------------------- MODULE Sim5206Proofs ---------------------------
(***************************************************************************)
(* Proofs about Sim5206, for every set of inputs, every number of levels   *)
(* and every choice of ICR values and device vectors.                      *)
(***************************************************************************)
EXTENDS Sim5206, FiniteSetTheorems, WellFoundedInduction, TLAPS

\* The part of the type invariant that the device calls can disturb.
RegisterTypes ==
  /\ ICR \in [Inputs -> [level : Levels, avec : BOOLEAN]]
  /\ IMR \subseteq Inputs
  /\ IPR \subseteq Inputs
  /\ interrupt_acknowledge \in [Inputs -> 0 .. 255]
  /\ interrupts_at_level \in [Levels -> Nat]
  /\ exception_pending \subseteq Levels
  /\ iack_func \subseteq Levels

\* What the registers, the counters and the posted levels owe each other.
Bookkeeping == RegisterTypes /\ CountsMatchPending /\ PostedMatchesPending

\* The inductive invariant: the properties of the run are inductive together.
IInv ==
  TypeOK /\ CountsMatchPending /\ PostedMatchesPending /\ NothingDeliverableInExecute

\* The inputs pending at a level are finitely many, so the counters count them.
LEMMA PendingAtFinite ==
  ASSUME RegisterTypes, NEW l
  PROVE  /\ PendingAt(l) \subseteq Inputs
         /\ IsFiniteSet(PendingAt(l))
         /\ Cardinality(PendingAt(l)) \in Nat
<1>1. PendingAt(l) \subseteq Inputs
  BY DEF PendingAt, RegisterTypes
<1>2. IsFiniteSet(PendingAt(l))
  BY <1>1, SimAssumption, FS_Subset
<1>3. QED
  BY <1>1, <1>2, FS_CardinalityType

\* sim_interrupt_assert keeps the counters and the posted levels in step.
LEMMA AssertKeepsBookkeeping ==
  ASSUME Bookkeeping, NEW n \in Inputs, NEW v \in DeviceVectors,
         sim_interrupt_assert(n, v)
  PROVE  Bookkeeping'
<1> USE DEF Bookkeeping
<1>0. PICK l \in Levels : l = ICR_LEVEL(ICR[n])
  BY DEF RegisterTypes, ICR_LEVEL
<1>1. CASE n \in IMR
  BY ZenonT(30), <1>1 DEF sim_interrupt_assert, simVars, coreVars, RegisterTypes,
     CountsMatchPending, PostedMatchesPending, PendingAt
<1>2. CASE n \notin IMR /\ n \in IPR
  <2>1. /\ UNCHANGED <<ICR, IMR, IPR, interrupts_at_level, coreVars>>
        /\ interrupt_acknowledge' = [interrupt_acknowledge EXCEPT ![n] = v]
    BY <1>2 DEF sim_interrupt_assert
  <2>2. QED
    BY <2>1, SimAssumption DEF coreVars, RegisterTypes,
       CountsMatchPending, PostedMatchesPending, PendingAt
<1>3. CASE n \notin IMR /\ n \notin IPR
  <2>1. /\ UNCHANGED <<ICR, IMR>>
        /\ IPR' = IPR \cup {n}
        /\ interrupt_acknowledge' = [interrupt_acknowledge EXCEPT ![n] = v]
        /\ interrupts_at_level' = [interrupts_at_level EXCEPT ![l] = @ + 1]
        /\ exception_pending' = exception_pending \cup {l}
        /\ iack_func' = iack_func \cup {l}
    BY <1>0, <1>3 DEF sim_interrupt_assert, exception_post
  <2>2. PendingAt(l)' = PendingAt(l) \cup {n} /\ n \notin PendingAt(l)
    BY <1>0, <1>3, <2>1 DEF PendingAt
  <2>3. \A k \in Levels \ {l} : PendingAt(k)' = PendingAt(k)
    BY <1>0, <2>1 DEF PendingAt
  <2>4. RegisterTypes'
    BY <1>0, <2>1, SimAssumption DEF RegisterTypes
  <2>5. CountsMatchPending'
    <3>1. Cardinality(PendingAt(l)') = Cardinality(PendingAt(l)) + 1
      BY <2>2, PendingAtFinite, FS_AddElement
    <3>2. interrupts_at_level'[l] = interrupts_at_level[l] + 1
      BY <1>0, <2>1 DEF RegisterTypes
    <3>3. \A k \in Levels \ {l} : interrupts_at_level'[k] = interrupts_at_level[k]
      BY <2>1 DEF RegisterTypes
    <3>4. QED
      BY <1>0, <2>3, <3>1, <3>2, <3>3 DEF CountsMatchPending
  <2>6. PostedMatchesPending'
    BY <1>0, <2>1, <2>2, <2>3 DEF PostedMatchesPending
  <2>7. QED
    BY <2>4, <2>5, <2>6
<1>4. QED
  BY <1>1, <1>2, <1>3

\* sim_interrupt_withdraw keeps them in step too: the counter reaches 0 exactly
\* when the last input of the level is withdrawn, and never goes below.
LEMMA WithdrawKeepsBookkeeping ==
  ASSUME Bookkeeping, NEW n \in Inputs, sim_interrupt_withdraw(n)
  PROVE  Bookkeeping'
<1> USE DEF Bookkeeping
<1>0. PICK l \in Levels : l = ICR_LEVEL(ICR[n])
  BY DEF RegisterTypes, ICR_LEVEL
<1>1. CASE n \in IMR
  BY ZenonT(30), <1>1 DEF sim_interrupt_withdraw, simVars, coreVars, RegisterTypes,
     CountsMatchPending, PostedMatchesPending, PendingAt
<1>2. CASE n \notin IMR /\ n \notin IPR
  <2>1. /\ UNCHANGED <<ICR, IMR, IPR, interrupts_at_level, coreVars>>
        /\ interrupt_acknowledge' = [interrupt_acknowledge EXCEPT ![n] = 0]
    BY <1>2 DEF sim_interrupt_withdraw
  <2>2. QED
    BY <2>1 DEF coreVars, RegisterTypes,
       CountsMatchPending, PostedMatchesPending, PendingAt
<1>3. CASE n \notin IMR /\ n \in IPR
  <2>1. /\ UNCHANGED <<ICR, IMR>>
        /\ IPR' = IPR \ {n}
        /\ interrupt_acknowledge' = [interrupt_acknowledge EXCEPT ![n] = 0]
        /\ interrupts_at_level' = [interrupts_at_level EXCEPT ![l] = @ - 1]
        /\ IF interrupts_at_level'[l] = 0
           THEN /\ exception_pending' = exception_pending \ {l}
                /\ iack_func' = iack_func \ {l}
           ELSE UNCHANGED coreVars
    BY <1>0, <1>3 DEF sim_interrupt_withdraw, exception_withdraw
  <2>2. PendingAt(l)' = PendingAt(l) \ {n} /\ n \in PendingAt(l)
    BY <1>0, <1>3, <2>1 DEF PendingAt
  <2>3. \A k \in Levels \ {l} : PendingAt(k)' = PendingAt(k)
    BY <1>0, <2>1 DEF PendingAt
  <2>4. Cardinality(PendingAt(l)') = Cardinality(PendingAt(l)) - 1
    BY <2>2, PendingAtFinite, FS_RemoveElement
  <2>5. interrupts_at_level'[l] = interrupts_at_level[l] - 1
    BY <1>0, <2>1 DEF RegisterTypes
  <2>6. interrupts_at_level[l] = Cardinality(PendingAt(l))
    BY <1>0 DEF CountsMatchPending
  <2>7. IsFiniteSet(PendingAt(l)) /\ IsFiniteSet(PendingAt(l)')
    BY <2>2, PendingAtFinite, FS_RemoveElement
  <2>8. interrupts_at_level'[l] = Cardinality(PendingAt(l)')
    BY <2>4, <2>5, <2>6
  <2>9. interrupts_at_level'[l] \in Nat
    BY <2>7, <2>8, FS_CardinalityType
  <2>10. interrupts_at_level'[l] = 0 <=> PendingAt(l)' = {}
    BY <2>7, <2>8, FS_EmptySet
  <2>11. \A k \in Levels \ {l} : interrupts_at_level'[k] = interrupts_at_level[k]
    BY <2>1 DEF RegisterTypes
  <2>12. RegisterTypes'
    <3>1. interrupts_at_level' \in [Levels -> Nat]
      BY <1>0, <2>1, <2>9, <2>11 DEF RegisterTypes
    <3>2. exception_pending' \subseteq Levels /\ iack_func' \subseteq Levels
      BY <2>1 DEF RegisterTypes, coreVars
    <3>3. QED
      BY <2>1, <3>1, <3>2 DEF RegisterTypes
  <2>13. CountsMatchPending'
    BY <2>3, <2>8, <2>11 DEF CountsMatchPending
  <2>14. PostedMatchesPending'
    <3>1. CASE PendingAt(l)' = {}
      <4>1. /\ exception_pending' = exception_pending \ {l}
            /\ iack_func' = iack_func \ {l}
        BY <2>1, <2>10, <3>1
      <4>2. QED
        BY <1>0, <2>3, <3>1, <4>1 DEF PostedMatchesPending
    <3>2. CASE PendingAt(l)' # {}
      <4>1. UNCHANGED <<exception_pending, iack_func>>
        BY <2>1, <2>10, <3>2 DEF coreVars
      <4>2. QED
        BY <1>0, <2>2, <2>3, <3>2, <4>1 DEF PostedMatchesPending
    <3>3. QED
      BY <3>1, <3>2
  <2>15. QED
    BY <2>12, <2>13, <2>14
<1>4. QED
  BY <1>1, <1>2, <1>3
-----------------------------------------------------------------------------

\* The initial states satisfy the invariant: nothing is pending or posted.
LEMMA InitIInv == Init => IInv
<1> SUFFICES ASSUME Init PROVE IInv
  OBVIOUS
<1>1. \A l \in Levels : PendingAt(l) = {}
  BY DEF Init, PendingAt
<1>2. TypeOK
  BY SimAssumption DEF Init, TypeOK, Vectors, Phases
<1>3. CountsMatchPending
  BY <1>1, FS_EmptySet DEF Init, CountsMatchPending
<1>4. PostedMatchesPending
  BY <1>1 DEF Init, PostedMatchesPending
<1>5. NothingDeliverableInExecute
  BY DEF Init, NothingDeliverableInExecute, Deliverable
<1>6. QED
  BY <1>2, <1>3, <1>4, <1>5 DEF IInv

\* What an input delivers is a vector number.
LEMMA InputVectorType ==
  ASSUME RegisterTypes, NEW n \in Inputs
  PROVE  InputVector(n) \in Vectors
BY DEF RegisterTypes, InputVector, ICR_AVEC, ICR_LEVEL, Vectors

\* The acknowledge scan finds the lowest-numbered input pending at the level.
LEMMA AcknowledgedIsPending ==
  ASSUME RegisterTypes, NEW l, PendingAt(l) # {}
  PROVE  Acknowledged(l) \in PendingAt(l)
<1> DEFINE P == PendingAt(l)
           Below(n) == {m \in P : m < n}
           Family == {Below(n) : n \in P}
<1>1. P \subseteq Nat /\ IsFiniteSet(P)
  BY PendingAtFinite, SimAssumption
<1>2. Family \subseteq FiniteSubsetsOf(P) /\ Family # {}
  <2>1. \A n \in P : Below(n) \in FiniteSubsetsOf(P)
    BY <1>1, FS_Subset DEF FiniteSubsetsOf
  <2>2. QED
    BY <2>1
<1>3. PICK B \in Family : \A C \in Family : <<C, B>> \notin StrictSubsetOrdering(P)
  <2>1. IsWellFoundedOn(StrictSubsetOrdering(P), FiniteSubsetsOf(P))
    BY FS_StrictSubsetOrderingWellFounded
  <2>2. QED
    BY <1>2, <2>1, WFMin
<1>4. PICK n \in P : B = Below(n)
  OBVIOUS
<1>5. ASSUME NEW m \in P, m < n PROVE FALSE
  <2>1. Below(m) \subseteq Below(n) /\ m \in Below(n) /\ m \notin Below(m)
    BY <1>1, <1>5
  <2>2. Below(m) \in SUBSET P /\ Below(n) \in SUBSET P
    OBVIOUS
  <2>3. <<Below(m), Below(n)>> \in StrictSubsetOrdering(P)
    BY <2>1, <2>2 DEF StrictSubsetOrdering
  <2>4. QED
    BY <1>3, <1>4, <1>5, <2>3
<1>6. \A m \in P : n <= m
  BY <1>1, <1>5
<1>7. QED
  BY <1>6 DEF Acknowledged

\* An interrupt that is taken carries a vector number.
LEMMA IackType ==
  ASSUME RegisterTypes, NEW l
  PROVE  sim_iack_func(l) \in Vectors
<1>1. CASE PendingAt(l) = {}
  BY <1>1 DEF sim_iack_func, Vectors
<1>2. CASE PendingAt(l) # {}
  BY <1>2, AcknowledgedIsPending, InputVectorType, PendingAtFinite
     DEF sim_iack_func
<1>3. QED
  BY <1>1, <1>2
-----------------------------------------------------------------------------

\* What a step of the loop that calls no device leaves as it was.
Untouched == UNCHANGED <<IPR, interrupt_acknowledge, interrupts_at_level, coreVars>>

\* The bookkeeping survives any step that leaves the pending inputs, the counters
\* and the core alone and routes no pending input elsewhere.
LEMMA RoutingKeepsBookkeeping ==
  ASSUME Bookkeeping, Untouched, IMR' \subseteq Inputs,
         ICR' \in [Inputs -> [level : Levels, avec : BOOLEAN]],
         \A n \in IPR : ICR'[n] = ICR[n]
  PROVE  Bookkeeping'
<1>1. \A l : PendingAt(l)' = PendingAt(l)
  BY DEF Untouched, PendingAt
<1>2. RegisterTypes'
  BY DEF Bookkeeping, RegisterTypes, Untouched, coreVars
<1>3. CountsMatchPending' /\ PostedMatchesPending'
  BY <1>1 DEF Bookkeeping, CountsMatchPending, PostedMatchesPending, Untouched, coreVars
<1>4. QED
  BY <1>2, <1>3 DEF Bookkeeping

\* The bookkeeping is inductive on its own.
LEMMA NextKeepsBookkeeping ==
  ASSUME Bookkeeping, [Next]_vars
  PROVE  Bookkeeping'
<1> USE DEF Untouched, simVars
<1>0. /\ IMR \subseteq Inputs
      /\ ICR \in [Inputs -> [level : Levels, avec : BOOLEAN]]
      /\ IPR \subseteq Inputs
  BY DEF Bookkeeping, RegisterTypes
<1>1. CASE TakeInterrupt
  BY <1>0, <1>1, RoutingKeepsBookkeeping DEF TakeInterrupt, exception_check_and_handle
<1>2. CASE NothingToTake
  BY <1>0, <1>2, RoutingKeepsBookkeeping DEF NothingToTake
<1>3. ASSUME NEW masked \in SUBSET Inputs, WriteIMR(masked)
      PROVE  Bookkeeping'
  BY <1>0, <1>3, RoutingKeepsBookkeeping DEF WriteIMR
<1>4. ASSUME NEW i \in Levels, WriteSR(i)
      PROVE  Bookkeeping'
  BY <1>0, <1>4, RoutingKeepsBookkeeping DEF WriteSR
<1>5. CASE FaultBeforeExecution
  BY <1>0, <1>5, RoutingKeepsBookkeeping DEF FaultBeforeExecution
<1>6. ASSUME NEW n \in Inputs, UpdateDevice(n)
      PROVE  Bookkeeping'
  <2>1. CASE \E v \in DeviceVectors : sim_interrupt_assert(n, v)
    BY <2>1, AssertKeepsBookkeeping
  <2>2. CASE sim_interrupt_withdraw(n)
    BY <2>2, WithdrawKeepsBookkeeping
  <2>3. CASE UNCHANGED <<simVars, coreVars>>
    BY <1>0, <2>3, RoutingKeepsBookkeeping
  <2>4. QED
    BY <1>6, <2>1, <2>2, <2>3 DEF UpdateDevice
<1>7. ASSUME NEW n \in Inputs \ IPR, NEW icr \in IcrValues, WriteICR(n, icr)
      PROVE  Bookkeeping'
  <2>1. ICR' = [ICR EXCEPT ![n] = icr] /\ IMR' = IMR /\ Untouched
    BY <1>7 DEF WriteICR
  <2>2. icr \in [level : Levels, avec : BOOLEAN]
    BY SimAssumption
  <2>3. QED
    BY <1>0, <2>1, <2>2, RoutingKeepsBookkeeping
<1>8. CASE UNCHANGED vars
  BY <1>0, <1>8, RoutingKeepsBookkeeping DEF vars
<1>9. QED
  BY <1>1, <1>2, <1>3, <1>4, <1>5, <1>6, <1>7, <1>8 DEF Next, Loop

\* The run loop's own variables keep their types.
LEMMA NextKeepsTypes ==
  ASSUME IInv, [Next]_vars
  PROVE  TypeOK'
<1>0. Bookkeeping /\ Bookkeeping'
  <2>1. Bookkeeping
    BY DEF IInv, TypeOK, Bookkeeping, RegisterTypes
  <2>2. QED
    BY <2>1, NextKeepsBookkeeping
<1>1. sr_i' \in Levels /\ vector' \in Vectors /\ phase' \in Phases /\ due' \subseteq Inputs
  <2>0. /\ sr_i \in Levels /\ vector \in Vectors /\ phase \in Phases /\ due \subseteq Inputs
        /\ RegisterTypes
    BY <1>0 DEF IInv, TypeOK, Bookkeeping
  <2>1. CASE TakeInterrupt
    BY <2>0, <2>1, IackType DEF TakeInterrupt, exception_check_and_handle, Phases
  <2>2. CASE NothingToTake \/ FaultBeforeExecution
    BY <2>0, <2>2 DEF NothingToTake, FaultBeforeExecution, Phases
  <2>3. CASE \/ \E masked \in SUBSET Inputs : WriteIMR(masked)
             \/ \E i \in Levels : WriteSR(i)
             \/ \E n \in Inputs \ IPR, icr \in IcrValues : WriteICR(n, icr)
    BY <2>0, <2>3 DEF WriteIMR, WriteSR, WriteICR, StartUpdate, Phases
  <2>4. CASE \E n \in Inputs : UpdateDevice(n)
    BY <2>0, <2>4 DEF UpdateDevice, Phases
  <2>5. CASE UNCHANGED vars
    BY <2>0, <2>5 DEF vars
  <2>6. QED
    BY <2>1, <2>2, <2>3, <2>4, <2>5 DEF Next, Loop
<1>2. QED
  BY <1>0, <1>1 DEF Bookkeeping, RegisterTypes, TypeOK

\* Only the check leads to "execute", and it leaves nothing above the mask.
LEMMA NextKeepsExecuteQuiet ==
  ASSUME IInv, [Next]_vars
  PROVE  NothingDeliverableInExecute'
<1> USE DEF NothingDeliverableInExecute
<1>0. iack_func = exception_pending /\ iack_func \subseteq Levels /\ sr_i \in Levels
  BY DEF IInv, TypeOK, PostedMatchesPending
<1>1. CASE TakeInterrupt
  <2>1. PICK l \in Levels, inRom \in BOOLEAN : exception_check_and_handle(l, inRom)
    BY <1>1 DEF TakeInterrupt
  <2>2. CASE inRom
    BY <2>1, <2>2 DEF exception_check_and_handle
  <2>3. CASE ~inRom
    <3>1. sr_i' = l /\ iack_func' = iack_func
      BY <2>1, <2>3 DEF exception_check_and_handle, coreVars
    <3>2. \A k \in iack_func : ~(k > l)
      <4>1. (\A k \in Deliverable : k <= l) /\ l > sr_i
        BY <2>1 DEF exception_check_and_handle, Deliverable
      <4>2. QED
        BY <1>0, <4>1, SimAssumption DEF Deliverable, Levels
    <3>3. QED
      BY <3>1, <3>2 DEF Deliverable
  <2>4. QED
    BY <2>2, <2>3
<1>2. CASE NothingToTake
  BY <1>0, <1>2 DEF NothingToTake, Deliverable, coreVars
<1>3. CASE \/ FaultBeforeExecution
           \/ \E masked \in SUBSET Inputs : WriteIMR(masked)
           \/ \E i \in Levels : WriteSR(i)
           \/ \E n \in Inputs \ IPR, icr \in IcrValues : WriteICR(n, icr)
           \/ \E n \in Inputs : UpdateDevice(n)
  BY <1>3 DEF FaultBeforeExecution, WriteIMR, WriteSR, WriteICR, StartUpdate, UpdateDevice
<1>4. CASE UNCHANGED vars
  BY <1>4 DEF IInv, vars, coreVars, Deliverable
<1>5. QED
  BY <1>1, <1>2, <1>3, <1>4 DEF Next, Loop

\* Every step of the loop keeps the inductive invariant.
LEMMA NextIInv == IInv /\ [Next]_vars => IInv'
<1> SUFFICES ASSUME IInv, [Next]_vars PROVE IInv'
  OBVIOUS
<1>1. Bookkeeping
  BY DEF IInv, TypeOK, Bookkeeping, RegisterTypes
<1>2. CountsMatchPending' /\ PostedMatchesPending'
  BY <1>1, NextKeepsBookkeeping DEF Bookkeeping
<1>3. QED
  BY <1>2, NextKeepsTypes, NextKeepsExecuteQuiet DEF IInv

\* The inductive invariant holds throughout: the counters of sim_5206.c count the
\* pending inputs, the core knows exactly the levels that have one, and no
\* instruction runs with an interrupt above the mask left waiting.
THEOREM InvariantHolds == Spec => []IInv
BY InitIInv, NextIInv, PTL DEF Spec

\* The registers of the controller, the mask of the core and the phase of the loop
\* keep their types, however the guest writes them.
THEOREM TypeCorrect == Spec => []TypeOK
<1>1. IInv => TypeOK
  BY DEF IInv
<1>2. QED
  BY <1>1, InvariantHolds, PTL

\* interrupts_at_level agrees with IPR and the ICRs in every reachable state.
THEOREM CountsAlwaysMatch == Spec => []CountsMatchPending
<1>1. IInv => CountsMatchPending
  BY DEF IInv
<1>2. QED
  BY <1>1, InvariantHolds, PTL

\* exception_pending and iack_func agree with IPR in every reachable state.
THEOREM PostedAlwaysMatch == Spec => []PostedMatchesPending
<1>1. IInv => PostedMatchesPending
  BY DEF IInv
<1>2. QED
  BY <1>1, InvariantHolds, PTL

\* No instruction runs while an interrupt above the mask waits to be taken.
THEOREM NothingIsLeftWaiting == Spec => []NothingDeliverableInExecute
<1>1. IInv => NothingDeliverableInExecute
  BY DEF IInv
<1>2. QED
  BY <1>1, InvariantHolds, PTL

-----------------------------------------------------------------------------
(* Refinement *)

\* The initial states are initial states of the interrupt controller.
LEMMA InitRefines == Init => Controller!Init
<1> SUFFICES ASSUME Init PROVE Controller!Init
  OBVIOUS
<1>1. RegisterTypes
  BY InitIInv DEF IInv, TypeOK, RegisterTypes
<1>2. \A n \in Inputs : ICR_LEVEL(ICR[n]) \in Levels /\ InputVector(n) \in Vectors
  BY <1>1, InputVectorType DEF RegisterTypes, ICR_LEVEL
<1>3. vector \in Vectors
  BY InitIInv DEF IInv, TypeOK
<1>4. QED
  BY <1>2, <1>3 DEF Init, Controller!Init, Controller!Levels, Levels

\* A step that leaves the registers alone leaves every input's level and vector.
LEMMA SameInputs ==
  ASSUME UNCHANGED <<ICR, interrupt_acknowledge>>
  PROVE  /\ UNCHANGED [n \in Inputs |-> ICR_LEVEL(ICR[n])]
         /\ UNCHANGED [n \in Inputs |-> InputVector(n)]
BY DEF ICR_LEVEL, InputVector, ICR_AVEC

\* An interrupt that is taken is one the controller may accept.
LEMMA TakeRefines ==
  ASSUME IInv, TakeInterrupt
  PROVE  \E n \in Inputs : Controller!Accept(n)
<1>1. PICK l \in Levels, inRom \in BOOLEAN : exception_check_and_handle(l, inRom)
  BY DEF TakeInterrupt
<1>2. RegisterTypes /\ sr_i \in Levels
  BY DEF IInv, TypeOK, RegisterTypes
<1>3. PendingAt(l) # {}
  BY <1>1 DEF exception_check_and_handle, Deliverable, IInv, PostedMatchesPending
<1>4. PICK n \in PendingAt(l) : n = Acknowledged(l)
  BY <1>2, <1>3, AcknowledgedIsPending
<1>5. n \in IPR /\ n \in Inputs /\ ICR_LEVEL(ICR[n]) = l
  BY <1>2 DEF PendingAt, RegisterTypes
<1>6. vector' = InputVector(n) /\ sr_i' \in {sr_i, l} /\ l > sr_i
  BY <1>1, <1>3, <1>4 DEF exception_check_and_handle, sim_iack_func, Deliverable
<1>7. \A m \in IPR : ICR_LEVEL(ICR[m]) <= l
  <2> SUFFICES ASSUME NEW m \in IPR PROVE ICR_LEVEL(ICR[m]) <= l
    OBVIOUS
  <2>1. PICK k \in Levels : k = ICR_LEVEL(ICR[m])
    BY <1>2 DEF RegisterTypes, ICR_LEVEL
  <2>2. m \in PendingAt(k)
    BY <2>1 DEF PendingAt
  <2>3. k \in iack_func
    BY <2>2 DEF IInv, PostedMatchesPending
  <2>4. k > sr_i => k <= l
    BY <1>1, <2>3 DEF exception_check_and_handle, Deliverable
  <2>5. QED
    BY <1>2, <1>6, <2>1, <2>4, SimAssumption DEF Levels
<1>8. UNCHANGED <<IPR, ICR, interrupt_acknowledge>>
  BY <1>1 DEF exception_check_and_handle, simVars
<1>9. Controller!Accept(n)
  <2>1. \A m \in IPR : m \in Inputs
    BY <1>2 DEF RegisterTypes
  <2>2. /\ UNCHANGED [i \in Inputs |-> ICR_LEVEL(ICR[i])]
        /\ UNCHANGED [i \in Inputs |-> InputVector(i)]
    BY <1>8, SameInputs
  <2>3. QED
    BY <1>5, <1>6, <1>7, <1>8, <2>1, <2>2 DEF Controller!Accept
<1>10. QED
  BY <1>5, <1>9

\* A device call is a signal of its input, or changes nothing.
LEMMA UpdateRefines ==
  ASSUME IInv, IInv', NEW n \in Inputs, UpdateDevice(n)
  PROVE  Controller!Signal(n) \/ UNCHANGED Controller!vars
<1> DEFINE levels == [i \in Inputs |-> ICR_LEVEL(ICR[i])]
           vectors == [i \in Inputs |-> InputVector(i)]
<1>1. UNCHANGED <<sr_i, vector, ICR>>
  BY DEF UpdateDevice, sim_interrupt_assert, sim_interrupt_withdraw, simVars
<1>2. UNCHANGED levels
  BY <1>1 DEF ICR_LEVEL
<1>3. CASE UNCHANGED <<simVars, coreVars>>
  BY <1>1, <1>3, SameInputs DEF Controller!vars, simVars
<1>4. CASE ~UNCHANGED <<simVars, coreVars>>
  <2>1. /\ IPR' \in {IPR \cup {n}, IPR \ {n}}
        /\ \A m \in Inputs \ {n} : interrupt_acknowledge'[m] = interrupt_acknowledge[m]
    <3>1. RegisterTypes
      BY DEF IInv, TypeOK, RegisterTypes
    <3>2. CASE \E v \in DeviceVectors : sim_interrupt_assert(n, v)
      BY <1>4, <3>1, <3>2 DEF sim_interrupt_assert, RegisterTypes
    <3>3. CASE sim_interrupt_withdraw(n)
      BY <1>4, <3>1, <3>3 DEF sim_interrupt_withdraw, RegisterTypes
    <3>4. QED
      BY <1>4, <3>2, <3>3 DEF UpdateDevice
  <2>2. vectors' \in [Inputs -> Vectors]
    <3>1. RegisterTypes'
      BY DEF IInv, TypeOK, RegisterTypes
    <3>2. \A i \in Inputs : InputVector(i)' \in Vectors
      BY <3>1 DEF RegisterTypes, InputVector, ICR_AVEC, ICR_LEVEL, Vectors
    <3>3. QED
      BY <3>2
  <2>3. \A m \in Inputs \ {n} : vectors'[m] = vectors[m]
    BY <1>1, <2>1 DEF InputVector, ICR_AVEC, ICR_LEVEL
  <2>4. QED
    BY <1>1, <1>2, <2>1, <2>2, <2>3 DEF Controller!Signal, Controller!Revector
<1>5. QED
  BY <1>3, <1>4

\* Routing an input that is not pending is the controller's Route.
LEMMA RouteRefines ==
  ASSUME IInv, IInv', NEW n \in Inputs \ IPR, NEW icr \in IcrValues, WriteICR(n, icr)
  PROVE  Controller!Route(n)
<1> DEFINE levels == [i \in Inputs |-> ICR_LEVEL(ICR[i])]
           vectors == [i \in Inputs |-> InputVector(i)]
<1>1. /\ UNCHANGED <<sr_i, vector, IPR, interrupt_acknowledge>>
      /\ ICR' = [ICR EXCEPT ![n] = icr]
  BY DEF WriteICR
<1>2. RegisterTypes /\ RegisterTypes'
  BY DEF IInv, TypeOK, RegisterTypes
<1>3. ICR_LEVEL(icr) \in Levels
  BY SimAssumption DEF ICR_LEVEL
<1>4. \A m \in Inputs \ {n} : ICR'[m] = ICR[m]
  BY <1>1, <1>2 DEF RegisterTypes
<1>5. levels' = [levels EXCEPT ![n] = ICR_LEVEL(icr)]
  BY <1>1, <1>2, <1>4 DEF RegisterTypes, ICR_LEVEL
<1>6. vectors' \in [Inputs -> Vectors]
  <2>1. \A i \in Inputs : InputVector(i)' \in Vectors
    BY <1>2 DEF RegisterTypes, InputVector, ICR_AVEC, ICR_LEVEL, Vectors
  <2>2. QED
    BY <2>1
<1>7. \A m \in Inputs \ {n} : vectors'[m] = vectors[m]
  BY <1>1, <1>4 DEF InputVector, ICR_AVEC, ICR_LEVEL
<1>8. QED
  BY <1>1, <1>3, <1>5, <1>6, <1>7
     DEF Controller!Route, Controller!Revector, Controller!Levels, Levels

\* Every step of the loop is a step of the controller, or leaves it unchanged.
LEMMA NextRefines ==
  ASSUME IInv, IInv', [Next]_vars
  PROVE  [Controller!Next]_(Controller!vars)
<1>1. CASE TakeInterrupt
  BY <1>1, TakeRefines DEF Controller!Next
<1>2. CASE \/ NothingToTake
           \/ FaultBeforeExecution
           \/ \E masked \in SUBSET Inputs : WriteIMR(masked)
           \/ UNCHANGED vars
  <2>1. UNCHANGED <<IPR, sr_i, vector, ICR, interrupt_acknowledge>>
    BY <1>2 DEF NothingToTake, FaultBeforeExecution, WriteIMR, vars, simVars
  <2>2. QED
    BY <2>1, SameInputs DEF Controller!vars
<1>3. ASSUME NEW i \in Levels, WriteSR(i)
      PROVE  Controller!Next
  <2>1. UNCHANGED <<IPR, vector, ICR, interrupt_acknowledge>> /\ sr_i' \in Levels
    BY <1>3 DEF WriteSR, simVars
  <2>2. Controller!SetMask
    BY <2>1, SameInputs DEF Controller!SetMask, Controller!Levels, Levels
  <2>3. QED
    BY <2>2 DEF Controller!Next
<1>4. ASSUME NEW n \in Inputs, UpdateDevice(n)
      PROVE  [Controller!Next]_(Controller!vars)
  BY <1>4, UpdateRefines DEF Controller!Next
<1>5. ASSUME NEW n \in Inputs \ IPR, NEW icr \in IcrValues, WriteICR(n, icr)
      PROVE  Controller!Next
  BY <1>5, RouteRefines DEF Controller!Next
<1>6. QED
  BY <1>1, <1>2, <1>3, <1>4, <1>5 DEF Next, Loop

\* The SIM, the core and the run loop implement the interrupt controller: every
\* interrupt taken belongs to a pending input of the highest pending level, is
\* above the mask, and carries that input's vector.
THEOREM Refinement == Spec => ImplementsController
<1>1. Spec => []IInv
  BY InvariantHolds
<1>2. IInv /\ IInv' /\ [Next]_vars => [Controller!Next]_(Controller!vars)
  BY NextRefines
<1>3. QED
  BY <1>1, <1>2, InitRefines, PTL DEF Spec, ImplementsController, Controller!Spec
=============================================================================
