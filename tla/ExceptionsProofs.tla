-------------------------- MODULE ExceptionsProofs --------------------------
(***************************************************************************)
(* Proofs about Exceptions: what the pushes, the frames, the monitor and   *)
(* the returns leave on the stack, for every program, every memory of the  *)
(* stack, every set of handlers, devices and levels.                       *)
(*                                                                         *)
(* The state core is a record, and every operation of the model is an      *)
(* operator from such a record to its outcomes; the lemmas are about the   *)
(* operators, and only the last ones are about the steps of the loop.      *)
(***************************************************************************)
EXTENDS Exceptions, FiniteSetTheorems, SequenceTheorems, WellFoundedInduction, TLAPS

-----------------------------------------------------------------------------
(* The interrupt controller: the counters, the pending inputs and the      *)
(* posted levels stay in step, and the acknowledge scan finds a pending    *)
(* input.                                                                  *)

\* The inputs pending at a level.
PendingAt(l) == {n \in IPR : ICR[n] = l}

\* What the controller is made of.
SimTypes ==
  /\ IPR \subseteq Inputs /\ IMR \subseteq Inputs
  /\ ICR \in [Inputs -> Levels]
  /\ interrupts_at_level \in [Levels -> Nat]
  /\ interrupt_acknowledge \in [Inputs -> 0 .. 255]

\* interrupts_at_level counts the pending inputs ...
Counted5307 == \A l \in Levels : interrupts_at_level[l] = Cardinality(PendingAt(l))

\* ... and the levels with one are posted.
Posted5307 == posted = {ICR[n] : n \in IPR}

\* An input does not become masked while it is pending: otherwise its device could
\* not withdraw it.
PendingIsUnmasked == IPR \cap IMR = {}

\* What each of its functions keeps.
SimInv == SimTypes /\ Counted5307 /\ Posted5307 /\ PendingIsUnmasked

-----------------------------------------------------------------------------

\* A set of numbers has a least element.
LEMMA LeastElement ==
  ASSUME NEW P, \A n \in P : n \in Nat, IsFiniteSet(P), P # {}
  PROVE  \E n \in P : \A m \in P : n <= m
<1> DEFINE Below(n) == {m \in P : m < n}
           Family == {Below(n) : n \in P}
<1>1. Family \subseteq FiniteSubsetsOf(P) /\ Family # {}
  <2>1. \A n \in P : Below(n) \in FiniteSubsetsOf(P)
    BY FS_Subset DEF FiniteSubsetsOf
  <2>2. QED
    BY <2>1
<1>2. PICK B \in Family : \A D \in Family : <<D, B>> \notin StrictSubsetOrdering(P)
  <2>1. IsWellFoundedOn(StrictSubsetOrdering(P), FiniteSubsetsOf(P))
    BY FS_StrictSubsetOrderingWellFounded
  <2>2. QED
    BY <1>1, <2>1, WFMin
<1>3. PICK n \in P : B = Below(n)
  OBVIOUS
<1>4. ASSUME NEW m \in P, m < n PROVE FALSE
  <2>1. Below(m) \subseteq Below(n) /\ m \in Below(n) /\ m \notin Below(m)
    BY <1>4
  <2>2. Below(m) \in SUBSET P /\ Below(n) \in SUBSET P
    OBVIOUS
  <2>3. <<Below(m), Below(n)>> \in StrictSubsetOrdering(P)
    BY <2>1, <2>2 DEF StrictSubsetOrdering
  <2>4. QED
    BY <1>2, <1>3, <1>4, <2>3
<1>5. QED
  BY <1>4

\* A set of levels has a highest one.
LEMMA HighestLevel ==
  ASSUME NEW P, \A l \in P : l \in Levels, P # {}
  PROVE  \E l \in P : \A k \in P : k <= l
<1> DEFINE Q == {d \in Levels : MaxLevel - d \in P}
<1>1. Levels = 0 .. MaxLevel /\ MaxLevel \in Nat /\ IsFiniteSet(Levels)
  BY Sim5307Assumption, FS_Interval DEF Levels
<1>2. (\A d \in Q : d \in Nat) /\ IsFiniteSet(Q)
  BY <1>1, FS_Subset
<1>3. \A l \in P : MaxLevel - l \in Q
  BY <1>1
<1>4. PICK d \in Q : \A e \in Q : d <= e
  BY <1>2, <1>3, LeastElement
<1>5. MaxLevel - d \in P /\ \A k \in P : k <= MaxLevel - d
  BY <1>1, <1>3, <1>4
<1>6. QED
  BY <1>5

\* The inputs are numbers, and few.
LEMMA InputsAreNumbers == IsFiniteSet(Inputs) /\ \A n \in Inputs : n \in Nat
<1>1. \A n \in Inputs : n \in 8 .. 14
  BY Sim5307Assumption
<1>2. IsFiniteSet(8 .. 14)
  <2>1. 8 \in Int /\ 14 \in Int
    OBVIOUS
  <2>2. QED
    BY ONLY <2>1, FS_Interval, Zenon
<1>3. IsFiniteSet(Inputs)
  BY <1>2, Sim5307Assumption, FS_Subset
<1>4. QED
  BY <1>1, <1>3

\* The inputs pending at a level are finitely many, so the counters can count them.
LEMMA PendingAtFinite ==
  ASSUME SimTypes, NEW l
  PROVE  /\ \A n \in PendingAt(l) : n \in Inputs /\ n \in Nat
         /\ IsFiniteSet(PendingAt(l)) /\ Cardinality(PendingAt(l)) \in Nat
<1>1. PendingAt(l) \subseteq Inputs
  BY DEF PendingAt, SimTypes
<1>2. IsFiniteSet(PendingAt(l))
  BY <1>1, InputsAreNumbers, FS_Subset
<1>3. QED
  BY <1>1, <1>2, InputsAreNumbers, FS_CardinalityType

\* The acknowledge scan returns the vector of an input that is pending at the level.
LEMMA AcknowledgesPending ==
  ASSUME SimTypes, NEW l, PendingAt(l) # {}
  PROVE  \E n \in PendingAt(l) :
           sim_iack_func(l) = IF n \in Autovectored THEN 24 + l ELSE interrupt_acknowledge[n]
<1> DEFINE first == CHOOSE n \in PendingAt(l) : \A m \in PendingAt(l) : n <= m
<1>1. \E n \in PendingAt(l) : \A m \in PendingAt(l) : n <= m
  BY PendingAtFinite, LeastElement
<1>2. first \in PendingAt(l)
  BY <1>1
<1>3. sim_iack_func(l) = IF first \in Autovectored THEN 24 + l ELSE interrupt_acknowledge[first]
  BY DEF sim_iack_func, PendingAt
<1>4. QED
  BY <1>2, <1>3

\* What an acknowledge cycle returns is a number.
LEMMA AcknowledgeType ==
  ASSUME SimTypes, NEW l \in Levels
  PROVE  sim_iack_func(l) \in Nat
<1>1. CASE PendingAt(l) = {}
  BY <1>1 DEF sim_iack_func, PendingAt
<1>2. CASE PendingAt(l) # {}
  <2>1. PICK n \in PendingAt(l) :
          sim_iack_func(l) = IF n \in Autovectored THEN 24 + l ELSE interrupt_acknowledge[n]
    BY <1>2, AcknowledgesPending
  <2>2. n \in Inputs
    BY PendingAtFinite
  <2>3. interrupt_acknowledge[n] \in 0 .. 255 /\ l \in Nat
    BY <2>2, Sim5307Assumption DEF SimTypes, Levels
  <2>4. QED
    BY <2>1, <2>3
<1>3. QED
  BY <1>1, <1>2

-----------------------------------------------------------------------------
(* The operations keep the invariant. *)

\* Before the guest has set anything up nothing is pending.
LEMMA SimInitInv == SimInit => SimInv
<1> SUFFICES ASSUME SimInit PROVE SimInv
  OBVIOUS
<1>1. \A l : PendingAt(l) = {}
  BY DEF SimInit, PendingAt
<1>2. SimTypes
  BY Sim5307Assumption DEF SimInit, SimTypes, Levels
<1>3. Counted5307
  BY <1>1, FS_EmptySet DEF SimInit, Counted5307
<1>4. QED
  BY <1>2, <1>3 DEF SimInit, SimInv, Posted5307, PendingIsUnmasked

\* sim_interrupt_assert counts the input once and posts its level.
LEMMA AssertKeepsSimInv ==
  ASSUME SimInv, NEW n \in Inputs, NEW v \in 0 .. 255, sim_interrupt_assert(n, v)
  PROVE  SimInv'
<1> USE DEF SimInv
<1>1. CASE UNCHANGED simVars
  BY <1>1 DEF simVars, SimTypes, Counted5307, Posted5307, PendingIsUnmasked, PendingAt
<1>2. CASE n \notin IMR /\ n \in IPR /\ ~UNCHANGED simVars
  <2>1. /\ UNCHANGED <<IPR, IMR, ICR, interrupts_at_level, posted>>
        /\ interrupt_acknowledge' = [interrupt_acknowledge EXCEPT ![n] = v]
    BY <1>2 DEF sim_interrupt_assert
  <2>2. QED
    BY <2>1 DEF SimTypes, Counted5307, Posted5307, PendingIsUnmasked, PendingAt
<1>3. CASE n \notin IMR /\ n \notin IPR
  <2>0. PICK l \in Levels : l = ICR[n]
    BY DEF SimTypes
  <2>1. /\ UNCHANGED <<ICR, IMR>>
        /\ IPR' = IPR \cup {n} /\ posted' = posted \cup {l}
        /\ interrupt_acknowledge' = [interrupt_acknowledge EXCEPT ![n] = v]
        /\ interrupts_at_level' = [interrupts_at_level EXCEPT ![l] = @ + 1]
    BY <1>3, <2>0 DEF sim_interrupt_assert, exception_post
  <2>2. PendingAt(l)' = PendingAt(l) \cup {n} /\ n \notin PendingAt(l)
    BY <1>3, <2>0, <2>1 DEF PendingAt
  <2>3. \A k \in Levels \ {l} : PendingAt(k)' = PendingAt(k)
    BY <2>0, <2>1 DEF PendingAt
  <2>4. Cardinality(PendingAt(l)') = Cardinality(PendingAt(l)) + 1
    BY <2>2, PendingAtFinite, FS_AddElement
  <2>5. SimTypes'
    BY <2>0, <2>1 DEF SimTypes
  <2>6. Counted5307'
    <3>1. interrupts_at_level'[l] = interrupts_at_level[l] + 1
      BY <2>0, <2>1 DEF SimTypes
    <3>2. \A k \in Levels \ {l} : interrupts_at_level'[k] = interrupts_at_level[k]
      BY <2>1 DEF SimTypes
    <3>3. QED
      BY <2>0, <2>3, <2>4, <3>1, <3>2 DEF Counted5307
  <2>7. Posted5307' /\ PendingIsUnmasked'
    BY <1>3, <2>0, <2>1 DEF Posted5307, PendingIsUnmasked
  <2>8. QED
    BY <2>5, <2>6, <2>7
<1>4. QED
  BY <1>1, <1>2, <1>3 DEF sim_interrupt_assert

\* sim_interrupt_withdraw uncounts the input, and withdraws the level exactly with
\* its last input.
LEMMA WithdrawKeepsSimInv ==
  ASSUME SimInv, NEW n \in Inputs, sim_interrupt_withdraw(n)
  PROVE  SimInv'
<1> USE DEF SimInv
<1>1. CASE UNCHANGED simVars
  BY <1>1 DEF simVars, SimTypes, Counted5307, Posted5307, PendingIsUnmasked, PendingAt
<1>2. CASE n \notin IMR /\ n \notin IPR /\ ~UNCHANGED simVars
  <2>1. /\ UNCHANGED <<IPR, IMR, ICR, interrupts_at_level, posted>>
        /\ interrupt_acknowledge' = [interrupt_acknowledge EXCEPT ![n] = 0]
    BY <1>2 DEF sim_interrupt_withdraw
  <2>2. QED
    BY <2>1 DEF SimTypes, Counted5307, Posted5307, PendingIsUnmasked, PendingAt
<1>3. CASE n \notin IMR /\ n \in IPR
  <2>0. PICK l \in Levels : l = ICR[n]
    BY DEF SimTypes
  <2>1. /\ UNCHANGED <<ICR, IMR>>
        /\ IPR' = IPR \ {n}
        /\ interrupt_acknowledge' = [interrupt_acknowledge EXCEPT ![n] = 0]
        /\ interrupts_at_level' = [interrupts_at_level EXCEPT ![l] = @ - 1]
        /\ posted' = IF interrupts_at_level[l] = 1 THEN posted \ {l} ELSE posted
    BY <1>3, <2>0 DEF sim_interrupt_withdraw, exception_withdraw, simVars
  <2>2. PendingAt(l)' = PendingAt(l) \ {n} /\ n \in PendingAt(l)
    BY <1>3, <2>0, <2>1 DEF PendingAt
  <2>3. \A k \in Levels \ {l} : PendingAt(k)' = PendingAt(k)
    BY <2>0, <2>1 DEF PendingAt
  <2>4. /\ Cardinality(PendingAt(l)') = Cardinality(PendingAt(l)) - 1
        /\ IsFiniteSet(PendingAt(l)')
    BY <2>2, PendingAtFinite, FS_RemoveElement
  <2>5. Cardinality(PendingAt(l)') \in Nat /\ (Cardinality(PendingAt(l)') = 0 <=> PendingAt(l)' = {})
    BY <2>4, FS_CardinalityType, FS_EmptySet
  <2>6. interrupts_at_level[l] = Cardinality(PendingAt(l)) /\ interrupts_at_level[l] \in Nat
    BY <2>0 DEF Counted5307, SimTypes
  <2>7. interrupts_at_level'[l] = Cardinality(PendingAt(l)')
    BY <2>0, <2>1, <2>4, <2>6 DEF SimTypes
  <2>8. \A k \in Levels \ {l} : interrupts_at_level'[k] = interrupts_at_level[k]
    BY <2>1 DEF SimTypes
  <2>9. SimTypes'
    <3>1. interrupts_at_level' \in [Levels -> Nat]
      BY <2>0, <2>1, <2>5, <2>7, <2>8 DEF SimTypes
    <3>2. QED
      BY <2>1, <3>1 DEF SimTypes
  <2>10. Counted5307'
    BY <2>3, <2>7, <2>8 DEF Counted5307
  <2>11. Posted5307'
    <3>1. interrupts_at_level[l] = 1 <=> PendingAt(l)' = {}
      BY <2>4, <2>5, <2>6
    <3>2. CASE PendingAt(l)' = {}
      <4>1. posted' = posted \ {l}
        BY <2>1, <3>1, <3>2
      <4>2. \A m \in IPR' : ICR[m] # l
        BY <2>1, <3>2 DEF PendingAt
      <4>3. QED
        BY <2>0, <2>1, <4>1, <4>2 DEF Posted5307
    <3>3. CASE PendingAt(l)' # {}
      <4>1. posted' = posted
        BY <2>1, <3>1, <3>3
      <4>2. PICK m \in IPR' : ICR[m] = l
        BY <2>1, <3>3 DEF PendingAt
      <4>3. QED
        BY <2>0, <2>1, <4>1, <4>2 DEF Posted5307
    <3>4. QED
      BY <3>2, <3>3
  <2>12. PendingIsUnmasked'
    BY <2>1 DEF PendingIsUnmasked
  <2>13. QED
    BY <2>9, <2>10, <2>11, <2>12
<1>4. QED
  BY <1>1, <1>2, <1>3 DEF sim_interrupt_withdraw

\* The guest's writes route and mask no input that is pending.
LEMMA WriteKeepsSimInv ==
  ASSUME SimInv,
         sim_write \/ (IPR = {} /\ \E levels \in [Inputs -> Levels] : sim_setup(levels))
  PROVE  SimInv'
<1> USE DEF SimInv
<1>1. UNCHANGED <<IPR, interrupts_at_level, interrupt_acknowledge, posted>>
  BY DEF sim_write, sim_setup
<1>2. /\ ICR' \in [Inputs -> Levels] /\ IMR' \subseteq Inputs
      /\ \A n \in IPR : ICR'[n] = ICR[n] /\ n \notin IMR'
  <2>1. CASE sim_write
    BY <2>1 DEF sim_write, SimTypes, PendingIsUnmasked
  <2>2. CASE IPR = {} /\ \E levels \in [Inputs -> Levels] : sim_setup(levels)
    BY <2>2 DEF sim_setup
  <2>3. QED
    BY <2>1, <2>2
<1>3. \A l : PendingAt(l)' = PendingAt(l)
  BY <1>1, <1>2 DEF PendingAt
<1>4. SimTypes'
  BY <1>1, <1>2 DEF SimTypes
<1>5. Counted5307'
  BY <1>1, <1>3 DEF Counted5307
<1>6. Posted5307' /\ PendingIsUnmasked'
  BY <1>1, <1>2 DEF Posted5307, PendingIsUnmasked
<1>7. QED
  BY <1>4, <1>5, <1>6

-----------------------------------------------------------------------------
(* The stack *)

\* What the layout, the memory of the stack and the frame pointer are made of.
Kinds     == {"frame", "return", "arg", "link"}
Entries   == [kind : Kinds, at : Stack, level : Levels]
Longwords == [word : Int, sr : SRs]
FramePointers == Stack \cup {0, InitialSP}

\* What a core is made of; the stack pointer may be anywhere for a moment.
Machines ==
  [pc : Pcs, a7 : Int, a6 : FramePointers, sr : SRs, ram : [Stack -> Longwords],
   layout : Seq(Entries), trace : -1 .. MaxTrace]

\* The bytes that an entry takes, and where it ends.
Size(e) == IF e.kind = "frame" THEN 8 ELSE 4
End(e)  == e.at + Size(e)

\* Where the stack may begin: at the initial stack pointer, or where a return to a
\* frame that was left behind has put the stack pointer.
Bases == Stack \cup {InitialSP}

\* What is on the stack lies there without a gap, from the stack pointer up to where
\* the stack begins: at the bad stack pointer nothing can be pushed.
Dense(m) ==
  LET held == m.layout IN
  /\ \A k \in 1 .. Len(held) : End(held[k]) - 4 \in Stack
  /\ \A k \in 1 .. Len(held) - 1 : held[k + 1].at = End(held[k])
  /\ \A j, k \in 1 .. Len(held) : j < k => End(held[j]) <= held[k].at
  /\ held = <<>> => m.a7 \in Bases \cup {BadSP}
  /\ held # <<>> => held[1].at = m.a7 /\ End(held[Len(held)]) \in Bases

\* The longwords that will be read again hold what their readers expect.
Holds(ram, e) ==
  /\ e.kind = "frame" => ram[e.at + 4].word \in Pcs
  /\ e.kind = "return" => ram[e.at].word \in Pcs
  /\ e.kind = "link" => ram[e.at].word \in FramePointers

Contents(m) == \A k \in 1 .. Len(m.layout) : Holds(m.ram, m.layout[k])

\* Each mask, the one in the status register and those saved in the frames, is at
\* least the level of every handler that it has interrupted.
Nested(m) ==
  LET held == m.layout IN
  \A k \in 1 .. Len(held) :
    /\ held[k].level <= m.sr.i
    /\ \A j \in k + 1 .. Len(held) :
         /\ held[k].level > 0 => held[j].level < held[k].level
         /\ held[k].kind = "frame" => held[j].level <= m.ram[held[k].at].sr.i

\* What a push, a pop, an exception and a command each keep.
Good(m) == m \in Machines /\ Dense(m) /\ Contents(m) /\ Nested(m)

\* What the loop keeps besides.
LoopInv ==
  /\ phase \in {"setup", "check", "execute", "operands", "trace", "stop", "update"}
  /\ stop_now \in BOOLEAN /\ events \in 0 .. MaxEvents
  /\ phase = "setup" => IPR = {}
  /\ \A n \in IPR : interrupt_acknowledge[n] = Device[n]

\* The address that a fault saves is that of the instruction, from its fetch until the
\* next one; before the first one nothing interrupts.
BeginInv ==
  /\ pc_instruction_begin \in Pcs \cup {0}
  /\ phase \in {"setup", "check"} \/ pc_instruction_begin \in Pcs
  /\ IPR = {} \/ pc_instruction_begin \in Pcs
  /\ phase = "execute" => pc_instruction_begin = core.pc
  /\ phase = "operands" => pc_instruction_begin \in Code

\* The inductive invariant.
IInv == SimInv /\ LoopInv /\ BeginInv /\ Good(core)

-----------------------------------------------------------------------------
(* Sequences. *)

\* The layouts grow at the front.
Push(e, s) == <<e>> \o s

\* The first element and the rest.
OnTop(s, first, rest) == s # <<>> /\ Head(s) = first /\ Tail(s) = rest

\* What is pushed is the head, and the rest is the tail.
LEMMA PushProperties ==
  ASSUME NEW S, NEW s \in Seq(S), NEW e \in S, NEW t, t = Push(e, s)
  PROVE  /\ t \in Seq(S) /\ OnTop(t, e, s) /\ Len(t) = Len(s) + 1
<1>1. <<e>> \in Seq(S) /\ Len(<<e>>) = 1 /\ <<e>>[1] = e
  OBVIOUS
<1>2. Len(s) \in Nat
  BY LenProperties
<1>3. /\ t \in Seq(S) /\ Len(t) = Len(s) + 1
      /\ \A i \in 1 .. Len(s) + 1 : t[i] = IF i <= 1 THEN e ELSE s[i - 1]
  BY <1>1, <1>2, ConcatProperties DEF Push
<1>4. t[1] = e /\ \A k \in 1 .. Len(s) : t[k + 1] = s[k]
  BY <1>2, <1>3
<1>5. t # <<>>
  BY <1>2, <1>3, EmptySeq
<1>6. Head(t) = e
  BY <1>4
<1>7. Tail(t) \in Seq(S) /\ Len(Tail(t)) = Len(s) /\ \A k \in 1 .. Len(s) : Tail(t)[k] = s[k]
  BY <1>2, <1>3, <1>4, <1>5, HeadTailProperties
<1>8. Tail(t) = s
  BY <1>7, SeqEqual
<1>9. QED
  BY <1>3, <1>4, <1>5, <1>6, <1>8 DEF OnTop

\* What is left when the first n are popped.
LEMMA PopProperties ==
  ASSUME NEW S, NEW s \in Seq(S), NEW n \in 0 .. Len(s), NEW t, t = SubSeq(s, n + 1, Len(s))
  PROVE  t \in Seq(S) /\ Len(t) = Len(s) - n /\ \A k \in 1 .. Len(t) : t[k] = s[k + n]
<1>1. Len(s) \in Nat /\ n \in Nat /\ n <= Len(s)
  BY LenProperties
<1>2. \A i \in n + 1 .. Len(s) : s[i] \in S
  BY <1>1, ElementOfSeq
<1>3. /\ t \in Seq(S)
      /\ Len(t) = IF n + 1 <= Len(s) THEN Len(s) - (n + 1) + 1 ELSE 0
      /\ \A i \in 1 .. Len(s) - (n + 1) + 1 : t[i] = s[n + 1 + i - 1]
  BY <1>1, <1>2, SubSeqProperties
<1>4. QED
  BY <1>1, <1>3

-----------------------------------------------------------------------------
(* Stacks. *)

\* The types that the arithmetic of the proofs needs.
LEMMA Numbers ==
  /\ \A a \in Stack : a \in Nat
  /\ \A l \in Levels : l \in Nat
  /\ 0 \in Levels
  /\ \A p \in Pcs : p \in Int
  /\ \A p \in FramePointers : p \in Int
  /\ InitialSP \in Nat /\ BadSP \in Nat
<1>1. (\A a \in Stack : a \in Nat) /\ InitialSP \in Nat /\ BadSP \in Nat
  BY ExceptionsAssumption
<1>2. (\A l \in Levels : l \in Nat) /\ 0 \in Levels
  BY Sim5307Assumption DEF Levels
<1>3. \A p \in Pcs : p \in Int
  <2>1. (\A p \in Code : p \in Nat) /\ (\A p \in Wild : p \in Nat)
    BY ExceptionsAssumption
  <2>2. QED
    BY <2>1 DEF Pcs
<1>4. \A p \in FramePointers : p \in Int
  BY <1>1 DEF FramePointers
<1>5. QED
  BY <1>1, <1>2, <1>3, <1>4

\* What the entries of a layout are.
LEMMA LayoutTypes ==
  ASSUME NEW m \in Machines
  PROVE  /\ m.layout \in Seq(Entries) /\ Len(m.layout) \in Nat
         /\ \A k \in 1 .. Len(m.layout) :
              /\ m.layout[k] \in Entries
              /\ m.layout[k].at \in Stack /\ m.layout[k].at \in Nat
              /\ m.layout[k].level \in Nat /\ m.layout[k].kind \in Kinds
              /\ Size(m.layout[k]) \in {4, 8} /\ End(m.layout[k]) \in Nat
<1>1. m.layout \in Seq(Entries) /\ Len(m.layout) \in Nat
  BY LenProperties DEF Machines
<1>2. ASSUME NEW k \in 1 .. Len(m.layout)
      PROVE  /\ m.layout[k] \in Entries
             /\ m.layout[k].at \in Stack /\ m.layout[k].at \in Nat
             /\ m.layout[k].level \in Nat /\ m.layout[k].kind \in Kinds
             /\ Size(m.layout[k]) \in {4, 8} /\ End(m.layout[k]) \in Nat
  <2>1. m.layout[k] \in Entries
    BY <1>1, ElementOfSeq
  <2>2. m.layout[k].at \in Stack /\ m.layout[k].level \in Levels /\ m.layout[k].kind \in Kinds
    BY <2>1 DEF Entries
  <2>3. Size(m.layout[k]) \in {4, 8}
    BY DEF Size
  <2>4. QED
    BY <2>1, <2>2, <2>3, Numbers DEF End
<1>3. QED
  BY <1>1, <1>2

\* The stack pointer is below everything on the stack.
LEMMA AboveStackPointer ==
  ASSUME NEW m \in Machines, Dense(m), NEW k \in 1 .. Len(m.layout)
  PROVE  m.a7 <= m.layout[k].at
<1>1. m.layout # <<>>
  BY LayoutTypes, EmptySeq
<1>2. m.layout[1].at = m.a7 /\ 1 \in 1 .. Len(m.layout)
  BY <1>1, LayoutTypes DEF Dense
<1>3. CASE k = 1
  BY <1>2, <1>3, LayoutTypes
<1>4. CASE k # 1
  <2>1. End(m.layout[1]) <= m.layout[k].at
    BY <1>2, <1>4, LayoutTypes DEF Dense
  <2>2. End(m.layout[1]) = m.a7 + Size(m.layout[1])
    BY <1>2 DEF End
  <2>3. QED
    BY <1>2, <2>1, <2>2, LayoutTypes
<1>5. QED
  BY <1>3, <1>4

\* The contexts that are saved on a stack: SavedContexts for any core.
ContextOf(ram, e) ==
  IF e.kind = "frame"
  THEN [kind |-> "frame", value |-> ram[e.at + 4].word, sr |-> ram[e.at].sr]
  ELSE [kind |-> e.kind, value |-> ram[e.at].word, sr |-> Cleared]

ContextsOf(m) == [k \in 1 .. Len(m.layout) |-> ContextOf(m.ram, m.layout[k])]

\* The longwords of an entry are the same in two memories.
Keeps(ram, old, e) ==
  ram[e.at] = old[e.at] /\ (e.kind = "frame" => ram[e.at + 4] = old[e.at + 4])

\* Two cores with the same stack and the same mask.
Same(x, m) ==
  /\ x.layout = m.layout /\ x.a7 = m.a7 /\ x.sr.i = m.sr.i
  /\ \A k \in 1 .. Len(m.layout) : Keeps(x.ram, m.ram, m.layout[k])

\* Everything said of a stack depends on these only.
LEMMA SameStack ==
  ASSUME NEW m, Good(m), NEW x \in Machines, Same(x, m)
  PROVE  Good(x) /\ ContextsOf(x) = ContextsOf(m)
<1>1. Dense(x)
  BY DEF Good, Dense, Same
<1>2. Contents(x)
  BY DEF Good, Contents, Same, Keeps, Holds
<1>3. Nested(x)
  BY DEF Good, Nested, Same, Keeps
<1>4. ContextsOf(x) = ContextsOf(m)
  BY DEF ContextsOf, ContextOf, Same, Keeps
<1>5. QED
  BY <1>1, <1>2, <1>3, <1>4 DEF Good

\* The contexts of Contexts.
SavedValues == [kind : Kinds, value : Int, sr : SRs]

\* The contexts are a sequence as long as the layout.
LEMMA ContextsType ==
  ASSUME NEW m \in Machines, Dense(m)
  PROVE  /\ ContextsOf(m) \in Seq(SavedValues) /\ Len(ContextsOf(m)) = Len(m.layout)
         /\ \A k \in 1 .. Len(m.layout) : ContextsOf(m)[k] = ContextOf(m.ram, m.layout[k])
<1> DEFINE n == Len(m.layout)
           e(k) == ContextOf(m.ram, m.layout[k])
<1>1. n \in Nat
  BY LayoutTypes
<1>2. ASSUME NEW k \in 1 .. n PROVE e(k) \in SavedValues
  <2>1. m.layout[k].at \in Stack /\ m.layout[k].kind \in Kinds
    BY LayoutTypes
  <2>2. m.layout[k].kind = "frame" => m.layout[k].at + 4 \in Stack
    <3>1. SUFFICES ASSUME m.layout[k].kind = "frame" PROVE m.layout[k].at + 4 \in Stack
      OBVIOUS
    <3>2. m.layout[k].at \in Nat /\ End(m.layout[k]) - 4 \in Stack
      BY LayoutTypes DEF Dense
    <3>3. End(m.layout[k]) = m.layout[k].at + 8
      BY <3>1 DEF End, Size
    <3>4. QED
      BY <3>2, <3>3
  <2>3. \A a \in Stack : m.ram[a].word \in Int /\ m.ram[a].sr \in SRs
    BY DEF Machines, Longwords
  <2>4. Cleared \in SRs
    BY Numbers DEF Cleared, SRs
  <2>5. QED
    BY <2>1, <2>2, <2>3, <2>4 DEF ContextOf, SavedValues, Kinds
<1>3. ContextsOf(m) = [k \in 1 .. n |-> e(k)]
  BY DEF ContextsOf
<1> HIDE DEF n, e
<1>4. ContextsOf(m) \in Seq(SavedValues)
  BY <1>1, <1>2, <1>3, IsASeq
<1>5. DOMAIN ContextsOf(m) = 1 .. n /\ \A k \in 1 .. n : ContextsOf(m)[k] = e(k)
  BY <1>3
<1>6. Len(ContextsOf(m)) = n
  BY <1>1, <1>4, <1>5, LenProperties
<1>7. QED
  BY <1>4, <1>5, <1>6 DEF n, e

\* A core whose stack has one more entry.
Pushes(x, m, e) ==
  /\ x.layout = Push(e, m.layout) /\ x.a7 = e.at
  /\ End(e) = m.a7 /\ End(e) - 4 \in Stack
  /\ \A a \in Stack : a >= m.a7 => x.ram[a] = m.ram[a]
  /\ Holds(x.ram, e)
  /\ m.sr.i <= x.sr.i /\ e.level <= x.sr.i
  /\ e.level > 0 => m.sr.i < e.level
  /\ e.kind = "frame" => m.sr.i <= x.ram[e.at].sr.i

\* The longwords of what is on the stack are not below the stack pointer.
LEMMA EntriesStay ==
  ASSUME NEW m \in Machines, Dense(m), NEW ram,
         \A a \in Stack : a >= m.a7 => ram[a] = m.ram[a],
         NEW k \in 1 .. Len(m.layout)
  PROVE  Keeps(ram, m.ram, m.layout[k])
<1>1. m.a7 <= m.layout[k].at /\ m.layout[k].at \in Stack /\ m.layout[k].at \in Nat /\ m.a7 \in Int
  BY AboveStackPointer, LayoutTypes DEF Machines
<1>2. m.layout[k].kind = "frame" => m.layout[k].at + 4 \in Stack
  <2>1. End(m.layout[k]) - 4 \in Stack
    BY DEF Dense
  <2>2. m.layout[k].kind = "frame" => End(m.layout[k]) = m.layout[k].at + 8
    BY DEF End, Size
  <2>3. QED
    BY <1>1, <2>1, <2>2
<1>3. ram[m.layout[k].at] = m.ram[m.layout[k].at]
  BY <1>1
<1>4. m.layout[k].kind = "frame" => ram[m.layout[k].at + 4] = m.ram[m.layout[k].at + 4]
  BY <1>1, <1>2
<1>5. QED
  BY <1>3, <1>4 DEF Keeps

\* A push leaves a good stack, with one more context.
LEMMA PushIsGood ==
  ASSUME NEW m, Good(m), NEW x \in Machines, NEW e \in Entries, Pushes(x, m, e)
  PROVE  /\ Good(x)
         /\ OnTop(ContextsOf(x), ContextOf(x.ram, e), ContextsOf(m))
<1> DEFINE old == m.layout
           new == x.layout
           n == Len(old)
<1>1. m \in Machines /\ Dense(m) /\ Contents(m) /\ Nested(m)
  BY DEF Good
<1>2. old \in Seq(Entries) /\ n \in Nat /\ m.a7 \in Int /\ m.sr.i \in Nat /\ x.sr.i \in Nat
  BY <1>1, LayoutTypes, Numbers DEF Machines, SRs
<1>3. /\ new \in Seq(Entries) /\ new # <<>> /\ Len(new) = n + 1
      /\ new[1] = e /\ \A k \in 1 .. n : new[k + 1] = old[k]
  <2>1. new = Push(e, old)
    BY DEF Pushes
  <2> HIDE DEF new, old
  <2>2. new \in Seq(Entries) /\ OnTop(new, e, old) /\ Len(new) = n + 1
    BY <1>2, <2>1, PushProperties DEF n
  <2>3. new # <<>> /\ Head(new) = e /\ Tail(new) = old
    BY <2>2 DEF OnTop
  <2>4. \A k \in 1 .. Len(Tail(new)) : Tail(new)[k] = new[k + 1]
    BY <2>2, <2>3, HeadTailProperties
  <2>5. QED
    BY <2>2, <2>3, <2>4 DEF n
<1>4. \A k \in 2 .. Len(new) : k - 1 \in 1 .. n /\ new[k] = old[k - 1]
  <2>1. SUFFICES ASSUME NEW k \in 2 .. Len(new) PROVE k - 1 \in 1 .. n /\ new[k] = old[k - 1]
    OBVIOUS
  <2>2. k - 1 \in 1 .. n /\ (k - 1) + 1 = k
    BY <1>2, <1>3
  <2>3. QED
    BY <1>3, <2>2
<1>5. \A k \in 1 .. n : Keeps(x.ram, m.ram, old[k])
  BY <1>1, EntriesStay DEF Pushes
<1>6. e.at \in Stack /\ e.at \in Nat /\ e.level \in Nat /\ e.kind \in Kinds
      /\ Size(e) \in {4, 8} /\ End(e) \in Int
  BY Numbers DEF Entries, Size, End
<1> HIDE DEF old, new, n
<1>7. Dense(x)
  <2>1. ASSUME NEW k \in 1 .. Len(new) PROVE End(new[k]) - 4 \in Stack
    <3>1. CASE k = 1
      BY <1>3, <3>1 DEF Pushes
    <3>2. CASE k # 1
      <4>1. k \in 2 .. Len(new)
        BY <1>2, <1>3, <3>2
      <4>2. QED
        BY <1>1, <1>4, <4>1 DEF Dense, old, n
    <3>3. QED
      BY <3>1, <3>2
  <2>2. n # 0 => old # <<>> /\ old[1].at = m.a7 /\ End(old[n]) \in Bases
    <3>1. n # 0 => old # <<>>
      BY EmptySeq DEF n
    <3>2. QED
      BY <1>1, <3>1 DEF Dense, old, n
  <2>3. n = 0 => old = <<>> /\ m.a7 \in Bases \cup {BadSP}
    BY <1>1, <1>2, EmptySeq DEF Dense, old, n
  <2>4. ASSUME NEW k \in 1 .. Len(new) - 1 PROVE new[k + 1].at = End(new[k])
    <3>1. k \in 1 .. n /\ new[k + 1] = old[k]
      BY <1>2, <1>3
    <3>2. CASE k = 1
      BY <1>2, <1>3, <2>2, <3>1, <3>2 DEF Pushes
    <3>3. CASE k # 1
      <4>0. k \in 2 .. Len(new) /\ k - 1 \in 1 .. n - 1 /\ (k - 1) + 1 = k
        BY <1>2, <1>3, <3>1, <3>3
      <4>1. k - 1 \in 1 .. n - 1 /\ new[k] = old[k - 1] /\ (k - 1) + 1 = k
        BY <1>4, <4>0
      <4>2. old[(k - 1) + 1].at = End(old[k - 1])
        BY <1>1, <4>1 DEF Dense, old, n
      <4>3. QED
        BY <3>1, <4>1, <4>2
    <3>4. QED
      BY <3>2, <3>3
  <2>5. ASSUME NEW j \in 1 .. Len(new), NEW k \in 1 .. Len(new), j < k
        PROVE  End(new[j]) <= new[k].at
    <3>1. k \in 2 .. Len(new) /\ k - 1 \in 1 .. n /\ new[k] = old[k - 1]
      BY <1>2, <1>3, <1>4, <2>5
    <3>2. CASE j = 1
      <4>1. m.a7 <= old[k - 1].at
        BY <1>1, <3>1, AboveStackPointer DEF old, n
      <4>2. QED
        BY <1>3, <3>1, <3>2, <4>1 DEF Pushes
    <3>3. CASE j # 1
      <4>0. j \in 2 .. Len(new) /\ j - 1 < k - 1
        BY <1>2, <1>3, <2>5, <3>3
      <4>1. j - 1 \in 1 .. n /\ new[j] = old[j - 1] /\ j - 1 < k - 1
        BY <1>4, <4>0
      <4>2. QED
        BY <1>1, <3>1, <4>1 DEF Dense, old, n
    <3>4. QED
      BY <3>2, <3>3
  <2>6. new[1].at = x.a7
    BY <1>3 DEF Pushes
  <2>7. End(new[Len(new)]) \in Bases
    <3>1. CASE n = 0
      <4>1. End(e) \in Bases \cup {BadSP} /\ End(e) - 4 \in Stack
        BY <2>3, <3>1 DEF Pushes
      <4>2. End(e) # BadSP
        BY <1>6, <4>1, ExceptionsAssumption
      <4>3. QED
        BY <1>3, <3>1, <4>1, <4>2
    <3>2. CASE n # 0
      <4>1. n \in 1 .. n /\ new[n + 1] = old[n]
        BY <1>2, <1>3, <3>2
      <4>2. QED
        BY <1>3, <2>2, <3>2, <4>1
    <3>3. QED
      BY <3>1, <3>2
  <2>8. QED
    BY <1>3, <2>1, <2>4, <2>5, <2>6, <2>7 DEF Dense, new
<1>8. Contents(x)
  <2>1. ASSUME NEW k \in 1 .. Len(new) PROVE Holds(x.ram, new[k])
    <3>1. CASE k = 1
      BY <1>3, <3>1 DEF Pushes
    <3>2. CASE k # 1
      <4>1. k \in 2 .. Len(new)
        BY <1>2, <1>3, <3>2
      <4>2. k - 1 \in 1 .. n /\ new[k] = old[k - 1]
        BY <1>4, <4>1
      <4>3. Holds(m.ram, old[k - 1]) /\ Keeps(x.ram, m.ram, old[k - 1])
        BY <1>1, <1>5, <4>2 DEF Contents, old, n
      <4>4. QED
        BY <4>2, <4>3 DEF Holds, Keeps
    <3>3. QED
      BY <3>1, <3>2
  <2>2. QED
    BY <2>1 DEF Contents, new
<1>9. Nested(x)
  <2>1. \A k \in 1 .. n : old[k].level <= m.sr.i /\ old[k].level \in Nat
    BY <1>1, LayoutTypes DEF Nested, old, n
  <2>2. ASSUME NEW k \in 1 .. Len(new) PROVE new[k].level <= x.sr.i
    <3>1. CASE k = 1
      BY <1>3, <3>1 DEF Pushes
    <3>2. CASE k # 1
      <4>1. k - 1 \in 1 .. n /\ new[k] = old[k - 1]
        BY <1>2, <1>3, <1>4, <3>2
      <4>2. QED
        BY <1>2, <2>1, <4>1 DEF Pushes
    <3>3. QED
      BY <3>1, <3>2
  <2>3. ASSUME NEW k \in 1 .. Len(new), NEW j \in k + 1 .. Len(new)
        PROVE  /\ new[k].level > 0 => new[j].level < new[k].level
               /\ new[k].kind = "frame" => new[j].level <= x.ram[new[k].at].sr.i
    <3>1. j - 1 \in 1 .. n /\ new[j] = old[j - 1]
      BY <1>2, <1>3, <1>4
    <3>2. old[j - 1].level <= m.sr.i /\ old[j - 1].level \in Nat
      BY <2>1, <3>1
    <3>3. CASE k = 1
      <4>1. e.kind = "frame" => x.ram[e.at].sr.i \in Nat
        BY <1>6, Numbers DEF Machines, Longwords, SRs
      <4>2. new[k] = e
        BY <1>3, <3>3
      <4>3. /\ e.level > 0 => m.sr.i < e.level
            /\ e.kind = "frame" => m.sr.i <= x.ram[e.at].sr.i
        BY DEF Pushes
      <4>4. e.level > 0 => old[j - 1].level < e.level
        BY <1>2, <1>6, <3>2, <4>3, SMTT(30)
      <4>5. e.kind = "frame" => old[j - 1].level <= x.ram[e.at].sr.i
        BY <1>2, <3>2, <4>1, <4>3
      <4>6. QED
        BY <3>1, <4>2, <4>4, <4>5
    <3>4. CASE k # 1
      <4>1. k - 1 \in 1 .. n /\ new[k] = old[k - 1] /\ j - 1 \in (k - 1) + 1 .. n
        BY <1>2, <1>3, <1>4, <3>1, <3>4, SMTT(30)
      <4>2. /\ old[k - 1].level > 0 => old[j - 1].level < old[k - 1].level
            /\ old[k - 1].kind = "frame" => old[j - 1].level <= m.ram[old[k - 1].at].sr.i
        BY <1>1, <4>1 DEF Nested, old, n
      <4>3. x.ram[old[k - 1].at] = m.ram[old[k - 1].at]
        BY <1>5, <4>1 DEF Keeps
      <4>4. QED
        BY <3>1, <4>1, <4>2, <4>3
    <3>5. QED
      BY <3>3, <3>4
  <2>4. QED
    BY <2>2, <2>3 DEF Nested, new
<1>10. Good(x)
  BY <1>7, <1>8, <1>9 DEF Good
<1>11. OnTop(ContextsOf(x), ContextOf(x.ram, e), ContextsOf(m))
  <2> DEFINE s == ContextsOf(m)
             t == ContextsOf(x)
  <2>1. s \in Seq(SavedValues) /\ Len(s) = n /\ \A k \in 1 .. n : s[k] = ContextOf(m.ram, old[k])
    BY <1>1, ContextsType DEF old, n
  <2>2. t \in Seq(SavedValues) /\ Len(t) = n + 1
        /\ \A k \in 1 .. n + 1 : t[k] = ContextOf(x.ram, new[k])
    BY <1>3, <1>7, ContextsType DEF new
  <2>3. ASSUME NEW k \in 1 .. n PROVE t[k + 1] = s[k]
    <3>1. k + 1 \in 1 .. n + 1 /\ new[k + 1] = old[k]
      BY <1>2, <1>3
    <3>2. ContextOf(x.ram, old[k]) = ContextOf(m.ram, old[k])
      BY <1>5 DEF Keeps, ContextOf
    <3>3. QED
      BY <2>1, <2>2, <3>1, <3>2
  <2>4. t[1] = ContextOf(x.ram, e) /\ 1 \in 1 .. n + 1
    BY <1>2, <1>3, <2>2
  <2> HIDE DEF s, t
  <2>5. t # <<>>
    BY <1>2, <2>2, EmptySeq
  <2>6. Tail(t) \in Seq(SavedValues) /\ Len(Tail(t)) = n /\ \A k \in 1 .. n : Tail(t)[k] = t[k + 1]
    BY <1>2, <2>2, <2>5, HeadTailProperties
  <2>7. Tail(t) = s
    BY <2>1, <2>3, <2>6, SeqEqual
  <2>8. Head(t) = t[1]
    OBVIOUS
  <2>9. QED
    BY <2>4, <2>5, <2>7, <2>8 DEF OnTop, s, t
<1>12. QED
  BY <1>10, <1>11

\* A core whose stack has lost the first n entries.
Pops(x, m, n) ==
  /\ x.layout = SubSeq(m.layout, n + 1, Len(m.layout)) /\ x.a7 = End(m.layout[n])
  /\ \A k \in n + 1 .. Len(m.layout) :
       Keeps(x.ram, m.ram, m.layout[k]) /\ m.layout[k].level <= x.sr.i

\* A pop leaves a good stack, with the contexts that were behind the popped ones.
LEMMA PopIsGood ==
  ASSUME NEW m, Good(m), NEW x \in Machines, NEW n \in 1 .. Len(m.layout), Pops(x, m, n)
  PROVE  /\ Good(x)
         /\ ContextsOf(x) = SubSeq(ContextsOf(m), n + 1, Len(ContextsOf(m)))
<1> DEFINE old == m.layout
           new == x.layout
           len == Len(old)
<1>1. m \in Machines /\ Dense(m) /\ Contents(m) /\ Nested(m)
  BY DEF Good
<1>2. old \in Seq(Entries) /\ len \in Nat /\ n \in 1 .. len
  BY <1>1, LayoutTypes
<1>3. new \in Seq(Entries) /\ Len(new) = len - n /\ \A k \in 1 .. Len(new) : new[k] = old[k + n]
  BY <1>2, PopProperties DEF Pops
<1>4. \A k \in 1 .. Len(new) :
        k + n \in n + 1 .. len /\ Keeps(x.ram, m.ram, old[k + n]) /\ old[k + n].level <= x.sr.i
  <2>1. \A k \in 1 .. Len(new) : k + n \in n + 1 .. len
    BY <1>2, <1>3
  <2>2. QED
    BY <2>1 DEF Pops
<1>5. \A k \in n + 1 .. len : k \in 1 .. len
  BY <1>2
<1> HIDE DEF old, new, len
<1>6. Dense(x)
  <2>1. ASSUME NEW k \in 1 .. Len(new) PROVE End(new[k]) - 4 \in Stack
    BY <1>1, <1>3, <1>4, <1>5 DEF Dense, old, len
  <2>2. ASSUME NEW k \in 1 .. Len(new) - 1 PROVE new[k + 1].at = End(new[k])
    <3>1. k \in 1 .. Len(new) /\ k + 1 \in 1 .. Len(new) /\ k + n \in 1 .. len - 1
          /\ (k + 1) + n = (k + n) + 1
      BY <1>2, <1>3
    <3>2. old[(k + n) + 1].at = End(old[k + n])
      BY <1>1, <3>1 DEF Dense, old, len
    <3>3. QED
      BY <1>3, <3>1, <3>2
  <2>3. ASSUME NEW j \in 1 .. Len(new), NEW k \in 1 .. Len(new), j < k
        PROVE  End(new[j]) <= new[k].at
    <3>1. j + n \in 1 .. len /\ k + n \in 1 .. len /\ j + n < k + n
      BY <1>2, <1>3, <2>3
    <3>2. End(old[j + n]) <= old[k + n].at
      BY <1>1, <3>1 DEF Dense, old, len
    <3>3. QED
      BY <1>3, <3>2
  <2>4. old # <<>> /\ End(old[len]) \in Bases
    <3>1. old # <<>>
      BY <1>2, EmptySeq DEF len
    <3>2. QED
      BY <1>1, <3>1 DEF Dense, old, len
  <2>5. CASE n = len
    <3>1. Len(new) = 0
      BY <1>2, <1>3, <2>5
    <3>2. new = <<>>
      BY <1>3, <3>1, EmptySeq
    <3>3. x.a7 \in Bases
      BY <2>4, <2>5 DEF Pops, old, len
    <3>4. QED
      BY <2>1, <2>2, <2>3, <3>2, <3>3 DEF Dense, new
  <2>6. CASE n # len
    <3>1. n \in 1 .. len - 1 /\ 1 \in 1 .. Len(new) /\ Len(new) \in 1 .. Len(new)
          /\ Len(new) + n = len /\ 1 + n = n + 1
      BY <1>2, <1>3, <2>6
    <3>2. old[n + 1].at = End(old[n])
      BY <1>1, <3>1 DEF Dense, old, len
    <3>3. new[1] = old[n + 1]
      BY <1>3, <3>1
    <3>4. new[1].at = x.a7
      BY <3>2, <3>3 DEF Pops, old
    <3>5. new[Len(new)] = old[len]
      BY <1>3, <3>1
    <3>6. new # <<>>
      BY <3>1, EmptySeq
    <3>7. QED
      BY <2>1, <2>2, <2>3, <2>4, <3>4, <3>5, <3>6 DEF Dense, new
  <2>7. QED
    BY <2>5, <2>6
<1>7. Contents(x)
  <2>1. ASSUME NEW k \in 1 .. Len(new) PROVE Holds(x.ram, new[k])
    <3>1. k + n \in 1 .. len /\ new[k] = old[k + n] /\ Keeps(x.ram, m.ram, old[k + n])
      BY <1>3, <1>4, <1>5
    <3>2. Holds(m.ram, old[k + n])
      BY <1>1, <3>1 DEF Contents, old, len
    <3>3. QED
      BY <3>1, <3>2 DEF Holds, Keeps
  <2>2. QED
    BY <2>1 DEF Contents, new
<1>8. Nested(x)
  <2>1. ASSUME NEW k \in 1 .. Len(new), NEW j \in k + 1 .. Len(new)
        PROVE  /\ new[k].level > 0 => new[j].level < new[k].level
               /\ new[k].kind = "frame" => new[j].level <= x.ram[new[k].at].sr.i
    <3>1. /\ k + n \in 1 .. len /\ j \in 1 .. Len(new) /\ j + n \in (k + n) + 1 .. len
      BY <1>2, <1>3
    <3>2. /\ old[k + n].level > 0 => old[j + n].level < old[k + n].level
          /\ old[k + n].kind = "frame" => old[j + n].level <= m.ram[old[k + n].at].sr.i
      BY <1>1, <3>1 DEF Nested, old, len
    <3>3. x.ram[old[k + n].at] = m.ram[old[k + n].at]
      BY <1>4 DEF Keeps
    <3>4. new[k] = old[k + n] /\ new[j] = old[j + n]
      BY <1>3, <3>1
    <3>5. QED
      BY <3>2, <3>3, <3>4
  <2>2. \A k \in 1 .. Len(new) : new[k].level <= x.sr.i
    BY <1>3, <1>4
  <2>3. QED
    BY <2>1, <2>2 DEF Nested, new
<1>9. ContextsOf(x) = SubSeq(ContextsOf(m), n + 1, Len(ContextsOf(m)))
  <2> DEFINE s == ContextsOf(m)
             t == ContextsOf(x)
             r == SubSeq(s, n + 1, Len(s))
  <2>1. s \in Seq(SavedValues) /\ Len(s) = len /\ \A k \in 1 .. len : s[k] = ContextOf(m.ram, old[k])
    BY <1>1, ContextsType DEF old, len
  <2>2. t \in Seq(SavedValues) /\ Len(t) = Len(new)
        /\ \A k \in 1 .. Len(new) : t[k] = ContextOf(x.ram, new[k])
    BY <1>6, ContextsType DEF new
  <2>3. n \in 0 .. Len(s)
    BY <1>2, <2>1
  <2> HIDE DEF s, t
  <2>4. r \in Seq(SavedValues) /\ Len(r) = Len(s) - n /\ \A k \in 1 .. Len(r) : r[k] = s[k + n]
    BY <2>1, <2>3, PopProperties
  <2> HIDE DEF r
  <2>5. Len(r) = Len(t)
    BY <1>3, <2>1, <2>2, <2>4
  <2>6. ASSUME NEW k \in 1 .. Len(t) PROVE t[k] = r[k]
    <3>1. k \in 1 .. Len(new) /\ k \in 1 .. Len(r) /\ k + n \in 1 .. len
      BY <1>4, <1>5, <2>2, <2>5, <2>6
    <3>2. ContextOf(x.ram, old[k + n]) = ContextOf(m.ram, old[k + n])
      BY <1>4, <3>1 DEF Keeps, ContextOf
    <3>3. QED
      BY <1>3, <2>1, <2>2, <2>4, <3>1, <3>2
  <2>7. t = r
    BY <2>2, <2>4, <2>5, <2>6, SeqEqual
  <2>8. QED
    BY <2>7 DEF r, s, t
<1>10. QED
  BY <1>6, <1>7, <1>8, <1>9 DEF Good

\* What is cleared is on the stack of nothing.
LEMMA ForgetKeepsStack ==
  ASSUME NEW m \in Machines, NEW x, x = Forget(m)
  PROVE  /\ x \in Machines
         /\ x.pc = m.pc /\ x.a7 = m.a7 /\ x.a6 = m.a6 /\ x.sr = m.sr
         /\ x.layout = m.layout /\ x.trace = m.trace
         /\ \A k \in 1 .. Len(m.layout) :
              End(m.layout[k]) - 4 \in Stack => Keeps(x.ram, m.ram, m.layout[k])
<1> DEFINE held == {m.layout[k] : k \in 1 .. Len(m.layout)}
           starts == {e.at : e \in held}
           ends == {e.at + 4 : e \in {f \in held : f.kind = "frame"}}
           live == starts \cup ends
           ram == [a \in Stack |-> IF a \in live THEN m.ram[a] ELSE Long(0)]
<1>1. x = [m EXCEPT !.ram = ram]
  BY DEF Forget
<1>2. \A k \in 1 .. Len(m.layout) :
        /\ m.layout[k].at \in live
        /\ m.layout[k].kind = "frame" => m.layout[k].at + 4 \in live
  <2>1. \A k \in 1 .. Len(m.layout) : m.layout[k] \in held
    OBVIOUS
  <2> HIDE DEF held
  <2>2. \A e \in held : e.at \in starts /\ (e.kind = "frame" => e.at + 4 \in ends)
    OBVIOUS
  <2> HIDE DEF starts, ends
  <2>3. QED
    BY <2>1, <2>2
<1> HIDE DEF live
<1>3. Long(0) \in Longwords
  BY Numbers DEF Long, Longwords, Cleared, SRs
<1>4. ram \in [Stack -> Longwords]
  BY <1>3 DEF Machines
<1>5. \A a \in Stack : a \in live => ram[a] = m.ram[a]
  OBVIOUS
<1> HIDE DEF ram
<1>6. /\ x \in Machines
      /\ x.pc = m.pc /\ x.a7 = m.a7 /\ x.a6 = m.a6 /\ x.sr = m.sr
      /\ x.layout = m.layout /\ x.trace = m.trace /\ x.ram = ram
  BY <1>1, <1>4 DEF Machines
<1>7. ASSUME NEW k \in 1 .. Len(m.layout), End(m.layout[k]) - 4 \in Stack
      PROVE  Keeps(x.ram, m.ram, m.layout[k])
  <2>1. m.layout[k].at \in Stack /\ m.layout[k].at \in Nat
    BY LayoutTypes
  <2>2. m.layout[k].kind = "frame" => End(m.layout[k]) - 4 = m.layout[k].at + 4
    BY <2>1 DEF End, Size
  <2>3. QED
    BY <1>2, <1>5, <1>6, <1>7, <2>1, <2>2 DEF Keeps
<1>8. QED
  BY <1>6, <1>7

-----------------------------------------------------------------------------
(* Frames and the monitor. *)

\* There is room for a frame.
Fits(m) == {m.a7 - 4, m.a7 - 8} \subseteq Stack

\* A frame changes the two longwords below the stack pointer.
LEMMA FramedFields ==
  ASSUME NEW m \in Machines, Fits(m), NEW vector \in Int, NEW saved \in Pcs,
         NEW level \in Levels, NEW p, p = Framed(m, vector, saved, level)
  PROVE  /\ p \in Machines /\ Saved("frame", m.a7 - 8, level) \in Entries
         /\ p.pc = m.pc /\ p.sr = m.sr /\ p.a6 = m.a6 /\ p.a7 = m.a7 - 8
         /\ p.layout = Push(Saved("frame", m.a7 - 8, level), m.layout)
         /\ p.ram[m.a7 - 4].word = saved /\ p.ram[m.a7 - 8].word = vector /\ p.ram[m.a7 - 8].sr = m.sr
         /\ \A a \in Stack : a >= m.a7 => p.ram[a] = m.ram[a]
<1> DEFINE ram == [m.ram EXCEPT ![m.a7 - 4] = Long(saved),
                                ![m.a7 - 8] = [word |-> vector, sr |-> m.sr]]
           e == Saved("frame", m.a7 - 8, level)
           layout == Push(e, m.layout)
<1>1. /\ m.a7 \in Int /\ m.sr \in SRs /\ m.ram \in [Stack -> Longwords]
      /\ m.layout \in Seq(Entries) /\ m.a7 - 4 \in Stack /\ m.a7 - 8 \in Stack
  BY DEF Machines, Fits
<1>2. saved \in Int /\ Cleared \in SRs
  BY Numbers DEF Cleared, SRs
<1>3. Long(saved) \in Longwords /\ Long(saved).word = saved
      /\ [word |-> vector, sr |-> m.sr] \in Longwords
  BY <1>1, <1>2 DEF Long, Longwords
<1>4. /\ ram \in [Stack -> Longwords]
      /\ ram[m.a7 - 4].word = saved /\ ram[m.a7 - 8] = [word |-> vector, sr |-> m.sr]
      /\ \A a \in Stack : a >= m.a7 => ram[a] = m.ram[a]
  <2>1. m.a7 - 4 # m.a7 - 8 /\ \A a \in Stack : a >= m.a7 => a # m.a7 - 4 /\ a # m.a7 - 8
    BY <1>1, Numbers
  <2>2. QED
    BY <1>1, <1>3, <2>1
<1>5. e \in Entries
  BY <1>1 DEF Saved, Entries, Kinds
<1>6. layout \in Seq(Entries)
  BY <1>1, <1>5, PushProperties
<1> DEFINE lower == m.a7 - 8
<1>7. p = [m EXCEPT !.ram = ram, !.a7 = lower, !.layout = layout] /\ lower \in Int
  BY <1>1 DEF Framed, Push
<1> HIDE DEF ram, e, layout, lower
<1>8. /\ p \in Machines
      /\ p.pc = m.pc /\ p.sr = m.sr /\ p.a6 = m.a6 /\ p.a7 = lower
      /\ p.layout = layout /\ p.ram = ram
  BY <1>4, <1>6, <1>7 DEF Machines
<1>9. QED
  BY <1>4, <1>5, <1>8 DEF e, layout, lower

\* What the operator of the monitor may do to a core whose stack pointer points to
\* a frame: the status register, the pc and the trace count aside, the T bit and
\* the pc in the frame.
Touched(h, t) ==
  /\ h \in Machines
  /\ h.a7 = t.a7 /\ h.a6 = t.a6 /\ h.layout = t.layout
  /\ \A a \in Stack : a \notin {t.a7, t.a7 + 4} => h.ram[a] = t.ram[a]
  /\ h.ram[t.a7].sr.i = t.ram[t.a7].sr.i
  /\ h.ram[t.a7 + 4].word = t.ram[t.a7 + 4].word \/ h.ram[t.a7 + 4].word \in Code

\* Setting the T bit, in the frame and in the status register.
LEMMA TraceBitTouches ==
  ASSUME NEW t \in Machines, {t.a7, t.a7 + 4} \subseteq Stack,
         NEW n \in -1 .. MaxTrace, NEW b \in BOOLEAN,
         NEW h, h = [t EXCEPT !.trace = n, !.ram[t.a7].sr.t = b, !.sr.t = b]
  PROVE  Touched(h, t)
<1> DEFINE long == [t.ram[t.a7] EXCEPT !.sr = [t.ram[t.a7].sr EXCEPT !.t = b]]
           ram == [t.ram EXCEPT ![t.a7] = long]
           sr == [t.sr EXCEPT !.t = b]
<1>1. t.a7 \in Stack /\ t.a7 + 4 \in Stack /\ t.a7 \in Int /\ t.ram \in [Stack -> Longwords] /\ t.sr \in SRs
  BY DEF Machines
<1>2. long \in Longwords /\ long.sr.i = t.ram[t.a7].sr.i /\ sr \in SRs
  BY <1>1 DEF Longwords, SRs
<1>3. h = [t EXCEPT !.trace = n, !.ram = ram, !.sr = sr]
  OBVIOUS
<1> HIDE DEF long, sr
<1>4. /\ ram \in [Stack -> Longwords] /\ ram[t.a7] = long
      /\ \A a \in Stack : a # t.a7 => ram[a] = t.ram[a]
  BY <1>1, <1>2
<1> HIDE DEF ram
<1>5. h \in Machines /\ h.a7 = t.a7 /\ h.a6 = t.a6 /\ h.layout = t.layout /\ h.ram = ram
  BY <1>2, <1>3, <1>4 DEF Machines
<1>6. ram[t.a7 + 4] = t.ram[t.a7 + 4]
  BY <1>1, <1>4
<1>7. QED
  BY <1>2, <1>4, <1>5, <1>6 DEF Touched

\* The commands go and trace.
LEMMA EntryTouches ==
  ASSUME NEW t \in Machines, {t.a7, t.a7 + 4} \subseteq Stack, NEW h \in Monitor_Entry(t)
  PROVE  Touched(h, t)
<1>1. CASE h = t
  BY <1>1 DEF Touched
<1>2. ASSUME NEW target \in Code,
             h = [t EXCEPT !.pc = target, !.ram[t.a7 + 4].word = target]
      PROVE  Touched(h, t)
  <2> DEFINE long == [t.ram[t.a7 + 4] EXCEPT !.word = target]
             ram == [t.ram EXCEPT ![t.a7 + 4] = long]
  <2>1. /\ t.a7 \in Stack /\ t.a7 + 4 \in Stack /\ t.a7 \in Int /\ t.ram \in [Stack -> Longwords]
        /\ target \in Pcs /\ target \in Int
    BY Numbers DEF Machines, Pcs
  <2>2. long \in Longwords /\ long.word = target
    BY <2>1 DEF Longwords
  <2>3. h = [t EXCEPT !.pc = target, !.ram = ram]
    BY <1>2
  <2> HIDE DEF long
  <2>4. /\ ram \in [Stack -> Longwords] /\ ram[t.a7 + 4] = long
        /\ \A a \in Stack : a # t.a7 + 4 => ram[a] = t.ram[a]
    BY <2>1, <2>2
  <2> HIDE DEF ram
  <2>5. h \in Machines /\ h.a7 = t.a7 /\ h.a6 = t.a6 /\ h.layout = t.layout /\ h.ram = ram
    BY <2>1, <2>3, <2>4 DEF Machines
  <2>6. ram[t.a7] = t.ram[t.a7]
    BY <2>1, <2>4
  <2>7. QED
    BY <2>2, <2>4, <2>5, <2>6 DEF Touched
<1>3. ASSUME NEW n \in 0 .. MaxTrace,
             h = [t EXCEPT !.trace = n, !.ram[t.a7].sr.t = TRUE, !.sr.t = TRUE]
      PROVE  Touched(h, t)
  <2>1. n \in -1 .. MaxTrace
    BY ExceptionsAssumption
  <2>2. QED
    BY <1>3, <2>1, TraceBitTouches
<1>4. QED
  BY <1>1, <1>2, <1>3 DEF Monitor_Entry, Monitor_GO, Monitor_TRACE

\* Whatever the exception, the monitor keeps to that.
LEMMA MonitorTouches ==
  ASSUME NEW t \in Machines, {t.a7, t.a7 + 4} \subseteq Stack, NEW vector,
         NEW h \in Monitor_HandleException(t, vector)
  PROVE  Touched(h, t)
<1>1. CASE h \in Monitor_Entry(t)
  BY <1>1, EntryTouches
<1>2. CASE h = t
  BY <1>2 DEF Touched
<1>3. CASE h \in Monitor_TRACE_Entry(t)
  <2>1. CASE t.trace = 1
    <3> DEFINE u == [t EXCEPT !.trace = 0, !.ram[t.a7].sr.t = FALSE, !.sr.t = FALSE]
    <3>1. 0 \in -1 .. MaxTrace
      BY ExceptionsAssumption
    <3>2. Touched(u, t)
      BY <3>1, TraceBitTouches
    <3>3. h \in Monitor_Entry(u)
      BY <1>3, <2>1 DEF Monitor_TRACE_Entry
    <3> HIDE DEF u
    <3>4. Touched(h, u)
      BY <3>2, <3>3, EntryTouches, SMTT(30) DEF Touched
    <3>5. QED
      BY <3>2, <3>4 DEF Touched
  <2>2. CASE t.trace # 1
    <3>1. h = [t EXCEPT !.trace = IF t.trace > 0 THEN t.trace - 1 ELSE -1]
      BY <1>3, <2>2 DEF Monitor_TRACE_Entry
    <3>2. t.trace \in -1 .. MaxTrace /\ MaxTrace \in Nat
      BY ExceptionsAssumption DEF Machines
    <3>3. (IF t.trace > 0 THEN t.trace - 1 ELSE -1) \in -1 .. MaxTrace
      BY <3>2
    <3>4. h \in Machines /\ h.a7 = t.a7 /\ h.a6 = t.a6 /\ h.layout = t.layout /\ h.ram = t.ram
      BY <3>1, <3>3 DEF Machines
    <3>5. QED
      BY <3>4 DEF Touched
  <2>3. QED
    BY <2>1, <2>2
<1>4. QED
  BY <1>1, <1>2, <1>3 DEF Monitor_HandleException

\* A core with a frame on top of the stack of b, whatever its own status.
Carries(t, b, level) ==
  /\ t.a7 = b.a7 - 8
  /\ t.layout = Push(Saved("frame", b.a7 - 8, level), b.layout)
  /\ t.ram[b.a7 - 8].sr.i = b.sr.i /\ t.ram[b.a7 - 4].word \in Pcs
  /\ \A a \in Stack : a >= b.a7 => t.ram[a] = b.ram[a]

\* The status, the pc and the stack pointer are popped together.
LEMMA RestoreReturns ==
  ASSUME NEW b, Good(b), Fits(b), NEW level \in Levels,
         NEW t \in Machines, Carries(t, b, level), NEW h, Touched(h, t),
         NEW x, x = exception_restore_from_stack_frame(h)
  PROVE  /\ x \in Machines /\ Same(x, b) /\ x.a6 = t.a6
         /\ x.pc = t.ram[b.a7 - 4].word \/ x.pc \in Code
<1> DEFINE y == [h EXCEPT !.sr = h.ram[h.a7].sr, !.pc = h.ram[h.a7 + 4].word,
                          !.a7 = @ + 8, !.layout = Tail(@)]
<1>1. /\ b \in Machines /\ b.a7 \in Int /\ b.layout \in Seq(Entries) /\ Dense(b)
      /\ b.a7 - 4 \in Stack /\ b.a7 - 8 \in Stack
  BY DEF Good, Machines, Fits
<1>2. /\ h \in Machines /\ h.a7 = b.a7 - 8 /\ h.a6 = t.a6 /\ h.a7 + 4 = b.a7 - 4
      /\ h.layout = Push(Saved("frame", b.a7 - 8, level), b.layout)
  BY <1>1 DEF Touched, Carries
<1>3. /\ h.ram[b.a7 - 8].sr.i = b.sr.i /\ h.ram[b.a7 - 4].word \in Pcs
      /\ h.ram[b.a7 - 4].word = t.ram[b.a7 - 4].word \/ h.ram[b.a7 - 4].word \in Code
  <2>1. t.a7 = b.a7 - 8 /\ t.a7 + 4 = b.a7 - 4
    BY <1>1 DEF Carries
  <2>2. h.ram[b.a7 - 8].sr.i = t.ram[b.a7 - 8].sr.i
    BY <2>1 DEF Touched
  <2>3. h.ram[b.a7 - 4].word = t.ram[b.a7 - 4].word \/ h.ram[b.a7 - 4].word \in Code
    BY <2>1 DEF Touched
  <2>4. QED
    BY <2>2, <2>3 DEF Carries, Pcs
<1>4. \A a \in Stack : a >= b.a7 => h.ram[a] = b.ram[a]
  <2>1. SUFFICES ASSUME NEW a \in Stack, a >= b.a7 PROVE h.ram[a] = b.ram[a]
    OBVIOUS
  <2>2. a \notin {t.a7, t.a7 + 4}
    BY <1>1, <2>1, Numbers DEF Carries
  <2>3. QED
    BY <2>1, <2>2 DEF Touched, Carries
<1>5. Saved("frame", b.a7 - 8, level) \in Entries
  BY <1>1 DEF Saved, Entries, Kinds
<1>6. Tail(h.layout) = b.layout
  <2>1. PICK e, pushed : e = Saved("frame", b.a7 - 8, level) /\ pushed = Push(e, b.layout)
    OBVIOUS
  <2>2. e \in Entries /\ h.layout = pushed
    BY <1>2, <1>5, <2>1
  <2>3. OnTop(pushed, e, b.layout)
    BY <1>1, <2>1, <2>2, PushProperties
  <2>4. QED
    BY <2>2, <2>3 DEF OnTop
<1>7. h.ram[b.a7 - 8].sr \in SRs
  BY <1>1, <1>2 DEF Machines, Longwords
<1>8. y = [h EXCEPT !.sr = h.ram[b.a7 - 8].sr, !.pc = h.ram[b.a7 - 4].word,
                    !.a7 = b.a7, !.layout = b.layout]
  <2>1. h.a7 + 8 = b.a7 /\ h.a7 + 4 = b.a7 - 4 /\ h.a7 = b.a7 - 8
    BY <1>1, <1>2
  <2>2. QED
    BY ONLY <1>6, <2>1
<1> HIDE DEF y
<1>9. /\ y \in Machines /\ y.sr = h.ram[b.a7 - 8].sr /\ y.a7 = b.a7 /\ y.a6 = h.a6
      /\ y.pc = h.ram[b.a7 - 4].word /\ y.layout = b.layout /\ y.ram = h.ram
  <2>1. h \in Machines /\ b.layout \in Seq(Entries) /\ b.a7 \in Int
    BY <1>1, <1>2
  <2>2. QED
    BY <1>3, <1>7, <1>8, <2>1 DEF Machines
<1>10. x = Forget(y)
  BY DEF exception_restore_from_stack_frame, y
<1>11. /\ x \in Machines /\ x.a7 = b.a7 /\ x.a6 = t.a6 /\ x.layout = b.layout /\ x.sr.i = b.sr.i
       /\ x.pc = h.ram[b.a7 - 4].word
       /\ \A k \in 1 .. Len(b.layout) :
            End(b.layout[k]) - 4 \in Stack => Keeps(x.ram, h.ram, b.layout[k])
  BY <1>2, <1>3, <1>9, <1>10, ForgetKeepsStack
<1>12. ASSUME NEW k \in 1 .. Len(b.layout) PROVE Keeps(x.ram, b.ram, b.layout[k])
  <2>1. Keeps(h.ram, b.ram, b.layout[k])
    BY <1>1, <1>4, EntriesStay
  <2>2. End(b.layout[k]) - 4 \in Stack
    BY <1>1 DEF Dense
  <2>3. QED
    BY <1>11, <2>1, <2>2 DEF Keeps
<1>13. QED
  BY <1>3, <1>11, <1>12 DEF Same

\* The context that an exception saves.
FrameContext(saved, sr) == [kind |-> "frame", value |-> saved, sr |-> sr]

\* A core that entered a handler of the guest with a frame on the stack of b.
Entered(x, b, vector, saved, level, i) ==
  /\ x \in Machines
  /\ x.pc = Handler[vector] /\ x.a7 = b.a7 - 8 /\ x.a6 = b.a6 /\ x.sr.i = i
  /\ x.layout = Push(Saved("frame", b.a7 - 8, level), b.layout)
  /\ x.ram[b.a7 - 4].word = saved /\ x.ram[b.a7 - 8].word = vector /\ x.ram[b.a7 - 8].sr = b.sr
  /\ \A a \in Stack : a >= b.a7 => x.ram[a] = b.ram[a]

\* A core that came back from the monitor, to the pc that was saved or to another one.
Returned(x, b, saved) ==
  x \in Machines /\ Same(x, b) /\ x.a6 = b.a6 /\ (x.pc = saved \/ x.pc \in Code)

\* The vectors are in the guest's table or in the ROM.
LEMMA RawOutcome ==
  ASSUME NEW b, Good(b), Fits(b), NEW vector \in Int, NEW saved \in Pcs, NEW level \in Levels,
         NEW q \in Machines, q.a7 = b.a7 - 8, q.a6 = b.a6,
         q.layout = Push(Saved("frame", b.a7 - 8, level), b.layout),
         q.ram = Framed(b, vector, saved, level).ram,
         NEW x \in exception_do_raw_exception(q, vector)
  PROVE  IF vector \in DOMAIN Handler THEN Entered(x, b, vector, saved, level, q.sr.i)
                                      ELSE Returned(x, b, saved)
<1> DEFINE sr == [q.sr EXCEPT !.s = TRUE, !.t = FALSE]
           taken == [q EXCEPT !.sr.s = TRUE, !.sr.t = FALSE]
<1>1. b \in Machines
  BY DEF Good
<1>2. /\ q.ram[b.a7 - 4].word = saved /\ q.ram[b.a7 - 8].word = vector /\ q.ram[b.a7 - 8].sr = b.sr
      /\ \A a \in Stack : a >= b.a7 => q.ram[a] = b.ram[a]
  BY <1>1, FramedFields
<1>3. sr \in SRs /\ sr.i = q.sr.i
  BY DEF Machines, SRs
<1>4. taken = [q EXCEPT !.sr = sr]
  OBVIOUS
<1> HIDE DEF sr, taken
<1>5. /\ taken \in Machines /\ taken.a7 = q.a7 /\ taken.a6 = q.a6 /\ taken.sr = sr
      /\ taken.layout = q.layout /\ taken.ram = q.ram
  BY <1>3, <1>4 DEF Machines
<1>6. CASE vector \in DOMAIN Handler
  <2>1. x = [taken EXCEPT !.pc = Handler[vector]]
    BY <1>6 DEF exception_do_raw_exception, taken
  <2>2. Handler[vector] \in Pcs
    BY <1>6, ExceptionsAssumption DEF Pcs
  <2>3. /\ x \in Machines /\ x.pc = Handler[vector] /\ x.a7 = q.a7 /\ x.a6 = q.a6
        /\ x.sr = sr /\ x.layout = q.layout /\ x.ram = q.ram
    BY <1>5, <2>1, <2>2 DEF Machines
  <2>4. QED
    BY <1>2, <1>3, <1>6, <2>3 DEF Entered
<1>7. CASE vector \notin DOMAIN Handler
  <2>1. PICK h \in Monitor_HandleException(taken, vector) :
          x = exception_restore_from_stack_frame(h)
    BY <1>7 DEF exception_do_raw_exception, taken
  <2>2. b.a7 \in Int /\ b.a7 - 8 \in Stack /\ b.a7 - 4 \in Stack
    BY <1>1 DEF Machines, Fits
  <2>3. {taken.a7, taken.a7 + 4} \subseteq Stack
    BY <1>5, <2>2
  <2>4. Touched(h, taken)
    BY <1>5, <2>1, <2>3, MonitorTouches
  <2>5. Carries(taken, b, level)
    BY <1>2, <1>5 DEF Carries
  <2>6. /\ x \in Machines /\ Same(x, b) /\ x.a6 = taken.a6
        /\ x.pc = taken.ram[b.a7 - 4].word \/ x.pc \in Code
    BY <1>5, <2>1, <2>4, <2>5, RestoreReturns
  <2>7. taken.ram[b.a7 - 4].word = saved
    BY <1>2, <1>5
  <2>8. QED
    BY <1>5, <1>7, <2>6, <2>7 DEF Returned
<1>8. QED
  BY <1>6, <1>7

\* With a frame of the mask's own level, or of a higher one that becomes the mask,
\* the stack is good, and its first context is the interrupted program's.
LEMMA EnteredIsGood ==
  ASSUME NEW b, Good(b), Fits(b), NEW vector \in Int, NEW saved \in Pcs,
         NEW level \in Levels, NEW i,
         (level = 0 /\ i = b.sr.i) \/ (b.sr.i < level /\ i = level),
         NEW x, Entered(x, b, vector, saved, level, i)
  PROVE  /\ Good(x)
         /\ OnTop(ContextsOf(x), FrameContext(saved, b.sr), ContextsOf(b))
<1> DEFINE e == Saved("frame", b.a7 - 8, level)
<1>1. /\ b \in Machines /\ b.a7 \in Int /\ b.a7 - 4 \in Stack /\ b.a7 - 8 \in Stack
      /\ b.sr.i \in Nat /\ level \in Nat
  BY Numbers DEF Good, Machines, SRs, Fits
<1>2. /\ e \in Entries /\ e.kind = "frame" /\ e.at = b.a7 - 8 /\ e.level = level
  BY <1>1 DEF Saved, Entries, Kinds
<1> HIDE DEF e
<1>3. Size(e) = 8 /\ End(e) = b.a7 /\ e.at + 4 = b.a7 - 4 /\ End(e) - 4 = b.a7 - 4
  BY <1>1, <1>2 DEF Size, End
<1>4. Holds(x.ram, e)
  BY <1>2, <1>3 DEF Holds, Entered
<1>5. Pushes(x, b, e)
  <2>1. x.layout = Push(e, b.layout) /\ x.a7 = e.at
    BY <1>2 DEF Entered, e
  <2>2. \A a \in Stack : a >= b.a7 => x.ram[a] = b.ram[a]
    BY DEF Entered
  <2>3. b.sr.i <= x.sr.i /\ e.level <= x.sr.i /\ (e.level > 0 => b.sr.i < e.level)
    BY <1>1, <1>2 DEF Entered
  <2>4. b.sr.i <= x.ram[e.at].sr.i
    BY <1>1, <1>2 DEF Entered
  <2>5. QED
    BY <1>1, <1>3, <1>4, <2>1, <2>2, <2>3, <2>4 DEF Pushes
<1>6. x \in Machines
  BY DEF Entered
<1>7. ContextOf(x.ram, e) = FrameContext(saved, b.sr)
  BY <1>2, <1>3 DEF ContextOf, Entered, FrameContext
<1>8. QED
  BY <1>2, <1>5, <1>6, <1>7, PushIsGood

-----------------------------------------------------------------------------
(* Stacks that are given up. *)

\* Nothing is left of the contexts, or only the frame of an exception.
Abandoned(s) == s = <<>> \/ (Len(s) = 1 /\ s[1].kind = "frame")

\* A stack with nothing on it is good.
LEMMA EmptyIsGood ==
  ASSUME NEW m \in Machines, m.layout = <<>>, m.a7 \in Bases \cup {BadSP}
  PROVE  Good(m) /\ ContextsOf(m) = <<>>
<1>1. Len(m.layout) = 0
  OBVIOUS
<1>2. Dense(m) /\ Contents(m) /\ Nested(m)
  BY <1>1 DEF Dense, Contents, Nested
<1>3. ContextsOf(m) \in Seq(SavedValues) /\ Len(ContextsOf(m)) = 0
  BY <1>1, <1>2, ContextsType
<1>4. ContextsOf(m) = <<>>
  BY <1>3, EmptySeq
<1>5. QED
  BY <1>2, <1>4 DEF Good

\* A new value of the stack pointer leaves nothing on the stack.
LEMMA FreshIsGood ==
  ASSUME NEW m \in Machines, NEW sp \in Bases \cup {BadSP}, NEW x, x = SetStackPointer(m, sp)
  PROVE  /\ Good(x) /\ ContextsOf(x) = <<>> /\ x.layout = <<>>
         /\ x.pc = m.pc /\ x.a7 = sp /\ x.a6 = m.a6 /\ x.sr = m.sr
<1> DEFINE y == [m EXCEPT !.a7 = sp, !.layout = <<>>]
<1>1. sp \in Int /\ <<>> \in Seq(Entries)
  BY Numbers DEF Bases
<1>2. /\ y \in Machines /\ y.pc = m.pc /\ y.a7 = sp /\ y.a6 = m.a6 /\ y.sr = m.sr /\ y.layout = <<>>
  BY <1>1 DEF Machines
<1>3. x = Forget(y)
  BY DEF SetStackPointer
<1> HIDE DEF y
<1>4. /\ x \in Machines /\ x.pc = m.pc /\ x.a7 = sp /\ x.a6 = m.a6 /\ x.sr = m.sr /\ x.layout = <<>>
  BY <1>2, <1>3, ForgetKeepsStack
<1>5. QED
  BY <1>4, EmptyIsGood

\* After the repair there is room, on a stack with nothing on it.
LEMMA RepairedIsGood ==
  ASSUME NEW m \in Machines, NEW r \in Repaired(m)
  PROVE  /\ Good(r) /\ Fits(r) /\ r.layout = <<>> /\ ContextsOf(r) = <<>>
         /\ r.a6 = m.a6 /\ r.sr.i = m.sr.i
<1>1. PICK fresh : fresh = SetStackPointer(m, InitialSP)
  OBVIOUS
<1>2. /\ Good(fresh) /\ ContextsOf(fresh) = <<>> /\ fresh.layout = <<>> /\ fresh \in Machines
      /\ fresh.pc = m.pc /\ fresh.a7 = InitialSP /\ fresh.a6 = m.a6 /\ fresh.sr = m.sr
  BY <1>1, FreshIsGood DEF Good, Bases
<1>3. Fits(fresh) /\ fresh.pc \in Pcs
  BY <1>2, ExceptionsAssumption DEF Fits, Machines
<1>4. PICK level \in Levels, vector \in Int : level = 0 /\ vector = 31
  BY Numbers
<1>5. level \in Levels /\ vector \in Int
  BY <1>4
<1>6. PICK t : t = Framed(fresh, vector, fresh.pc, level)
  OBVIOUS
<1>7. PICK h \in Monitor_HandleException(t, vector) : r = exception_restore_from_stack_frame(h)
  BY <1>1, <1>4, <1>6 DEF Repaired
<1>8. /\ t \in Machines /\ t.a6 = fresh.a6 /\ t.a7 = fresh.a7 - 8
      /\ t.layout = Push(Saved("frame", fresh.a7 - 8, level), fresh.layout)
      /\ t.ram[fresh.a7 - 4].word = fresh.pc
      /\ t.ram[fresh.a7 - 8].word = vector /\ t.ram[fresh.a7 - 8].sr = fresh.sr
      /\ \A a \in Stack : a >= fresh.a7 => t.ram[a] = fresh.ram[a]
  BY <1>2, <1>3, <1>5, <1>6, FramedFields
<1>9. Carries(t, fresh, level)
  BY <1>3, <1>8 DEF Carries
<1>10. {t.a7, t.a7 + 4} \subseteq Stack
  <2>1. fresh.a7 \in Int /\ fresh.a7 - 8 \in Stack /\ fresh.a7 - 4 \in Stack
    BY <1>2, <1>3, Numbers DEF Fits
  <2>2. t.a7 + 4 = fresh.a7 - 4
    BY <1>8, <2>1
  <2>3. QED
    BY <1>8, <2>1, <2>2
<1>11. Touched(h, t)
  BY <1>7, <1>8, <1>10, MonitorTouches
<1>12. r \in Machines /\ Same(r, fresh) /\ r.a6 = t.a6
  BY <1>2, <1>3, <1>7, <1>8, <1>9, <1>11, RestoreReturns
<1>13. Good(r) /\ ContextsOf(r) = ContextsOf(fresh)
  BY <1>2, <1>12, SameStack
<1>14. QED
  BY <1>2, <1>3, <1>8, <1>12, <1>13 DEF Same, Fits

-----------------------------------------------------------------------------
(* Exceptions. *)

\* A stack pointer with room below it is not the bad one.
LEMMA RoomIsNotBad ==
  ASSUME NEW m \in Machines, Fits(m)
  PROVE  m.a7 # BadSP
<1>1. m.a7 \in Int /\ BadSP \in Int /\ m.a7 - 4 \in Stack /\ BadSP < m.a7 - 4
  BY ExceptionsAssumption DEF Machines, Fits
<1>2. QED
  BY <1>1

\* The frame is pushed where there is room for it: on the stack, or on the new one.
LEMMA PushFrame ==
  ASSUME NEW m \in Machines, Fits(m) => Good(m), NEW vector, NEW level,
         NEW p \in exception_push_stack_frame(m, vector, level)
  PROVE  \E b : /\ p = Framed(b, vector, PcToPush(m, vector), level)
                /\ Good(b) /\ Fits(b) /\ b.a6 = m.a6 /\ b.sr.i = m.sr.i
                /\ IF Fits(m) THEN b = m ELSE b.layout = <<>> /\ ContextsOf(b) = <<>>
<1>1. CASE Fits(m)
  <2>1. p = Framed(m, vector, PcToPush(m, vector), level)
    BY <1>1 DEF exception_push_stack_frame, Fits
  <2>2. QED
    BY <1>1, <2>1
<1>2. CASE ~ Fits(m)
  <2>1. PICK b \in Repaired(m) : p = Framed(b, vector, PcToPush(m, vector), level)
    BY <1>2 DEF exception_push_stack_frame, Fits
  <2>2. QED
    BY <1>2, <2>1, RepairedIsGood
<1>3. QED
  BY <1>1, <1>2

\* What an exception makes of the core m: a frame with its status, or nothing, on
\* its stack, or a new stack.
Raised(x, m, saved) ==
  /\ Good(x) /\ x.a6 = m.a6 /\ (x.pc = saved \/ x.pc \in Code)
  /\ \/ ContextsOf(x) = ContextsOf(m)
     \/ x.pc \in Handlers /\ OnTop(ContextsOf(x), FrameContext(saved, m.sr), ContextsOf(m))
     \/ Abandoned(ContextsOf(x))

\* The same without a stack to push on.
Restarted(x, m) ==
  /\ Good(x) /\ x.a6 = m.a6 /\ x.a7 # BadSP
  /\ Abandoned(ContextsOf(x))

\* What the frame and the handler, or the monitor, leave of b, for an exception and
\* for an interrupt.
LEMMA RaisedOn ==
  ASSUME NEW b, Good(b), Fits(b), NEW vector \in Int, NEW saved \in Pcs, NEW level \in Levels,
         NEW p, p = Framed(b, vector, saved, level),
         NEW q, (level = 0 /\ q = p) \/ (b.sr.i < level /\ q = [p EXCEPT !.sr.i = level]),
         NEW x \in exception_do_raw_exception(q, vector)
  PROVE  /\ Raised(x, b, saved) /\ x.a7 # BadSP
         /\ ContextsOf(b) = <<>> => Abandoned(ContextsOf(x))
         /\ IF vector \in DOMAIN Handler THEN Entered(x, b, vector, saved, level, q.sr.i)
                                         ELSE Returned(x, b, saved)
<1>1. b \in Machines
  BY DEF Good
<1>2. /\ p \in Machines /\ p.sr = b.sr /\ p.a6 = b.a6 /\ p.a7 = b.a7 - 8
      /\ p.layout = Push(Saved("frame", b.a7 - 8, level), b.layout)
  BY <1>1, FramedFields
<1>3. /\ q \in Machines /\ q.a6 = p.a6 /\ q.a7 = p.a7 /\ q.layout = p.layout /\ q.ram = p.ram
      /\ (level = 0 /\ q.sr.i = b.sr.i) \/ (b.sr.i < level /\ q.sr.i = level)
  <2>1. CASE level = 0 /\ q = p
    BY <1>2, <2>1
  <2>2. CASE b.sr.i < level /\ q = [p EXCEPT !.sr.i = level]
    <3> DEFINE sr == [p.sr EXCEPT !.i = level]
    <3>1. q = [p EXCEPT !.sr = sr]
      BY <2>2
    <3>2. sr \in SRs /\ sr.i = level
      BY <1>2 DEF Machines, SRs
    <3> HIDE DEF sr
    <3>3. /\ q \in Machines /\ q.a6 = p.a6 /\ q.a7 = p.a7 /\ q.layout = p.layout /\ q.ram = p.ram
          /\ q.sr = sr
      BY <1>2, <3>1, <3>2 DEF Machines
    <3>4. QED
      BY <2>2, <3>2, <3>3
  <2>3. QED
    BY <2>1, <2>2
<1>4. IF vector \in DOMAIN Handler THEN Entered(x, b, vector, saved, level, q.sr.i) ELSE Returned(x, b, saved)
  BY <1>1, <1>2, <1>3, RawOutcome
<1>5. CASE Entered(x, b, vector, saved, level, q.sr.i)
  <2>1. Good(x) /\ OnTop(ContextsOf(x), FrameContext(saved, b.sr), ContextsOf(b))
    BY <1>3, <1>5, EnteredIsGood
  <2>2. x.a7 # BadSP
    <3>1. x.a7 \in Stack
      BY <1>1, <1>5 DEF Entered, Fits
    <3>2. QED
      BY <3>1, ExceptionsAssumption
  <2>3. ContextsOf(b) = <<>> => Abandoned(ContextsOf(x))
    <3>1. x \in Machines /\ Dense(x)
      BY <2>1 DEF Good
    <3>2. ContextsOf(x) \in Seq(SavedValues)
      BY <3>1, ContextsType
    <3>3. ContextsOf(b) = <<>> => Len(ContextsOf(x)) = 1
      <4>1. SUFFICES ASSUME ContextsOf(b) = <<>> PROVE Len(ContextsOf(x)) = 1
        OBVIOUS
      <4>2. PICK s : s = ContextsOf(x)
        OBVIOUS
      <4>3. s \in Seq(SavedValues) /\ s # <<>> /\ Tail(s) = <<>>
        BY <2>1, <3>2, <4>1, <4>2 DEF OnTop
      <4>4. Len(s) \in Nat
        BY <4>3, LenProperties
      <4>5. Len(Tail(s)) = Len(s) - 1
        BY <4>3, HeadTailProperties
      <4>6. Tail(s) \in Seq(SavedValues)
        BY <4>3, HeadTailProperties
      <4>7. Len(s) = 1
        <5>1. PICK n, k : n = Len(Tail(s)) /\ k = Len(s)
          OBVIOUS
        <5>2. n = 0
          BY <4>3, <4>6, <5>1, EmptySeq
        <5>3. k \in Nat /\ n = k - 1
          BY <4>4, <4>5, <5>1
        <5>4. k = 1
          BY <5>2, <5>3
        <5>5. QED
          BY <5>1, <5>4
      <4>8. QED
        BY <4>2, <4>7
    <3>4. ContextsOf(x)[1].kind = "frame"
      BY <2>1 DEF OnTop, FrameContext
    <3>5. QED
      BY <3>3, <3>4 DEF Abandoned
  <2>4. QED
    <3>1. CASE Returned(x, b, saved)
      BY <1>4, <2>2, <2>3, <3>1, SameStack DEF Raised, Returned
    <3>2. CASE vector \in DOMAIN Handler
      <4>1. Handler[vector] \in Code /\ Handler[vector] \in Handlers
        BY <3>2, ExceptionsAssumption DEF Handlers
      <4>2. x.pc \in Code /\ x.pc \in Handlers /\ x.a6 = b.a6
        BY <1>5, <4>1 DEF Entered
      <4>3. Raised(x, b, saved)
        BY <2>1, <4>2 DEF Raised
      <4>4. QED
        BY <1>4, <2>2, <2>3, <4>3
    <3>3. QED
      BY <1>4, <3>1, <3>2
<1>6. CASE Returned(x, b, saved)
  <2>1. Good(x) /\ ContextsOf(x) = ContextsOf(b)
    BY <1>6, SameStack DEF Returned
  <2>2. x.a7 # BadSP
    BY <1>1, <1>6, RoomIsNotBad DEF Returned, Same
  <2>3. QED
    BY <1>4, <1>6, <2>1, <2>2 DEF Raised, Returned, Same, Abandoned
<1>7. QED
  BY <1>4, <1>5, <1>6

\* An exception of a core whose stack is good.
LEMMA ExceptionRaises ==
  ASSUME NEW m, Good(m), pc_instruction_begin \in Pcs, NEW vector \in Int,
         NEW x \in exception_do_exception(m, vector)
  PROVE  Raised(x, m, PcToPush(m, vector))
<1>1. m \in Machines
  BY DEF Good
<1>2. PICK saved : saved = PcToPush(m, vector)
  OBVIOUS
<1>3. saved \in Pcs
  BY <1>1, <1>2 DEF Machines, PcToPush
<1>4. PICK level \in Levels : level = 0
  BY Numbers
<1>5. PICK p \in exception_push_stack_frame(m, vector, level) : x \in exception_do_raw_exception(p, vector)
  BY <1>4 DEF exception_do_exception
<1>6. PICK b : /\ p = Framed(b, vector, saved, level)
               /\ Good(b) /\ Fits(b) /\ b.a6 = m.a6
               /\ IF Fits(m) THEN b = m ELSE b.layout = <<>> /\ ContextsOf(b) = <<>>
  BY <1>1, <1>2, <1>5, PushFrame
<1>7. Raised(x, b, saved) /\ (ContextsOf(b) = <<>> => Abandoned(ContextsOf(x)))
  BY <1>3, <1>4, <1>5, <1>6, RaisedOn
<1>8. CASE b = m
  BY <1>2, <1>7, <1>8
<1>9. CASE b # m
  BY <1>2, <1>6, <1>7, <1>9 DEF Raised
<1>10. QED
  BY <1>8, <1>9

\* An exception of a core with no room for a frame.
LEMMA ExceptionRestarts ==
  ASSUME NEW m \in Machines, ~ Fits(m), pc_instruction_begin \in Pcs, NEW vector \in Int,
         NEW x \in exception_do_exception(m, vector)
  PROVE  Restarted(x, m)
<1>1. PICK saved : saved = PcToPush(m, vector)
  OBVIOUS
<1>2. saved \in Pcs
  BY <1>1 DEF Machines, PcToPush
<1>3. PICK level \in Levels : level = 0
  BY Numbers
<1>4. PICK p \in exception_push_stack_frame(m, vector, level) : x \in exception_do_raw_exception(p, vector)
  BY <1>3 DEF exception_do_exception
<1>5. PICK b : /\ p = Framed(b, vector, saved, level)
               /\ Good(b) /\ Fits(b) /\ b.a6 = m.a6 /\ ContextsOf(b) = <<>>
  BY <1>1, <1>4, PushFrame
<1>6. Raised(x, b, saved) /\ x.a7 # BadSP /\ Abandoned(ContextsOf(x))
  BY <1>2, <1>3, <1>4, <1>5, RaisedOn
<1>7. QED
  BY <1>5, <1>6 DEF Raised, Restarted

-----------------------------------------------------------------------------
(* The steps of Contexts. *)

\* The context that a call, an argument or a frame pointer makes.
CellContext(kind, value) == [kind |-> kind, value |-> value, sr |-> Cleared]

\* What Contexts calls room for locals: nothing, or one longword on top of u.
MayHold(t, u) == t = u \/ \E value : OnTop(t, CellContext("arg", value), u)

\* What an exception may save.
Savable == {NextWord, pc_instruction_begin}

\* How much of its handler the fault of a fetch skips.
Skips == {1, 2, 4}

\* What Contexts allows, between two cores.
Steps(m, x) ==
  LET s == ContextsOf(m)
      t == ContextsOf(x)
  IN \/ t = s
     \/ /\ x.a6 = m.a6 /\ x.pc \in Handlers
        /\ \E saved \in Savable : OnTop(t, FrameContext(saved, m.sr), s)
     \/ /\ x.a6 = m.a6 /\ x.pc \in {h + size : h \in Handlers, size \in Skips}
        /\ OnTop(t, FrameContext(pc_instruction_begin, m.sr), s)
     \/ x.a6 = m.a6 /\ OnTop(s, FrameContext(x.pc, x.sr), t)
     \/ x.a6 = m.a6 /\ x.sr = m.sr /\ OnTop(t, CellContext("return", NextWord), s)
     \/ x.a6 = m.a6 /\ x.sr = m.sr /\ OnTop(s, CellContext("return", x.pc), t)
     \/ x.a6 = m.a6 /\ x.sr = m.sr /\ \E value : OnTop(t, CellContext("arg", value), s)
     \/ x.sr = m.sr /\ \E u : MayHold(t, u) /\ OnTop(u, CellContext("link", m.a6), s)
     \/ x.sr = m.sr /\ \E n \in 1 .. Len(s) :
          /\ \A k \in 1 .. n - 1 : s[k].kind = "arg"
          /\ s[n].kind = "link" /\ x.a6 = s[n].value
          /\ t = SubSeq(s, n + 1, Len(s))
     \/ \E u : MayHold(t, u) /\ Abandoned(u)

\* What is without its locals in Contexts.
LEMMA LocalsRefine ==
  ASSUME NEW t, NEW u, MayHold(t, u)
  PROVE  u \in C!WithoutLocals(t)
<1>1. CASE t = u
  BY <1>1 DEF C!WithoutLocals
<1>2. CASE \E value : OnTop(t, CellContext("arg", value), u)
  BY <1>2 DEF C!WithoutLocals, OnTop, CellContext
<1>3. QED
  BY <1>1, <1>2 DEF MayHold

\* Those steps are steps of the abstract module.
LEMMA StepsRefine ==
  ASSUME Steps(core, core')
  PROVE  C!Step
<1> DEFINE s == ContextsOf(core)
           t == ContextsOf(core')
<1>1. SavedContexts = s /\ SavedContexts' = t
  BY DEF SavedContexts, ContextsOf, ContextOf
<1> HIDE DEF s, t
<1>2. CASE t = s
  BY <1>1, <1>2 DEF C!Step, C!Run
<1>3. ASSUME core'.a6 = core.a6, core'.pc \in Handlers, NEW saved \in Savable,
             OnTop(t, FrameContext(saved, core.sr), s)
      PROVE  C!Step
  BY <1>1, <1>3 DEF C!Step, C!Save, C!Pushes, OnTop, FrameContext, Savable
<1>4. CASE /\ core'.a6 = core.a6 /\ core'.pc \in {h + size : h \in Handlers, size \in Skips}
           /\ OnTop(t, FrameContext(pc_instruction_begin, core.sr), s)
  BY <1>1, <1>4 DEF C!Step, C!SaveAndSkip, C!Pushes, OnTop, FrameContext, Skips
<1>5. CASE core'.a6 = core.a6 /\ OnTop(s, FrameContext(core'.pc, core'.sr), t)
  BY <1>1, <1>5 DEF C!Step, C!Restore, C!Pops, OnTop, FrameContext
<1>6. CASE /\ core'.a6 = core.a6 /\ core'.sr = core.sr
           /\ OnTop(t, CellContext("return", NextWord), s)
  BY <1>1, <1>6 DEF C!Step, C!Call, C!Pushes, OnTop, CellContext
<1>7. CASE /\ core'.a6 = core.a6 /\ core'.sr = core.sr
           /\ OnTop(s, CellContext("return", core'.pc), t)
  BY <1>1, <1>7 DEF C!Step, C!Return, C!Pops, OnTop, CellContext
<1>8. ASSUME core'.a6 = core.a6, core'.sr = core.sr, NEW value,
             OnTop(t, CellContext("arg", value), s)
      PROVE  C!Step
  BY <1>1, <1>8 DEF C!Step, C!Argument, C!Pushes, OnTop, CellContext
<1>9. ASSUME core'.sr = core.sr, NEW u, MayHold(t, u), OnTop(u, CellContext("link", core.a6), s)
      PROVE  C!Step
  <2>1. u \in C!WithoutLocals(SavedContexts')
    BY <1>1, <1>9, LocalsRefine
  <2>2. C!Linked(u)
    BY <1>1, <1>9 DEF C!Linked, OnTop, CellContext
  <2>3. C!Enter
    BY <1>9, <2>1, <2>2 DEF C!Enter
  <2>4. QED
    BY <2>3 DEF C!Step
<1>10. ASSUME core'.sr = core.sr, NEW n \in 1 .. Len(s),
              \A k \in 1 .. n - 1 : s[k].kind = "arg",
              s[n].kind = "link", core'.a6 = s[n].value, t = SubSeq(s, n + 1, Len(s))
       PROVE  C!Step
  BY <1>1, <1>10 DEF C!Step, C!Leave
<1>11. ASSUME NEW u, MayHold(t, u), Abandoned(u)
       PROVE  C!Step
  <2>1. u \in C!WithoutLocals(SavedContexts')
    BY <1>1, <1>11, LocalsRefine
  <2>2. C!Abandon
    BY <1>11, <2>1 DEF C!Abandon, Abandoned, C!OnlyFrame
  <2>3. QED
    BY <2>2 DEF C!Step
<1>12. QED
  BY <1>2, <1>3, <1>4, <1>5, <1>6, <1>7, <1>8, <1>9, <1>10, <1>11 DEF Steps, s, t

\* The steps that need no room for locals.
LEMMA StepsWithoutLocals ==
  ASSUME NEW m, NEW x,
         \/ ContextsOf(x) = ContextsOf(m)
         \/ Abandoned(ContextsOf(x))
         \/ /\ x.a6 = m.a6 /\ x.pc \in Handlers
            /\ \E saved \in Savable :
                 OnTop(ContextsOf(x), FrameContext(saved, m.sr), ContextsOf(m))
  PROVE  Steps(m, x)
BY DEF Steps, MayHold

-----------------------------------------------------------------------------
(* What the instructions are made of. *)

\* The stack pointer points into the stack, or is one of the two others.
LEMMA StackPointers ==
  ASSUME NEW m, Good(m)
  PROVE  m.a7 \in Stack \cup {InitialSP, BadSP}
<1>1. m \in Machines /\ Dense(m)
  BY DEF Good
<1>2. CASE m.layout = <<>>
  BY <1>1, <1>2 DEF Dense, Bases
<1>3. CASE m.layout # <<>>
  <2>1. 1 \in 1 .. Len(m.layout)
    BY <1>1, <1>3, LayoutTypes, EmptySeq
  <2>2. QED
    BY <1>1, <1>3, <2>1, LayoutTypes DEF Dense
<1>4. QED
  BY <1>2, <1>3

\* The pc has been given another value, and nothing else has changed.
LEMMA MovedFields ==
  ASSUME NEW y, Good(y), NEW target \in Pcs, NEW m, m = [y EXCEPT !.pc = target]
  PROVE  /\ m \in Machines /\ Same(m, y) /\ Good(m) /\ ContextsOf(m) = ContextsOf(y)
         /\ m.pc = target /\ m.a7 = y.a7 /\ m.a6 = y.a6 /\ m.sr = y.sr
         /\ m.ram = y.ram /\ m.layout = y.layout /\ m.trace = y.trace
<1>1. y \in Machines
  BY DEF Good
<1>2. /\ m \in Machines
      /\ m.pc = target /\ m.a7 = y.a7 /\ m.a6 = y.a6 /\ m.sr = y.sr
      /\ m.ram = y.ram /\ m.layout = y.layout /\ m.trace = y.trace
  BY <1>1 DEF Machines
<1>3. Same(m, y)
  BY <1>2 DEF Same, Keeps
<1>4. Good(m) /\ ContextsOf(m) = ContextsOf(y)
  BY <1>2, <1>3, SameStack
<1>5. QED
  BY <1>2, <1>3, <1>4

\* The processor fetches from somewhere.
LEMMA NextWordType ==
  ASSUME Good(core), Executing
  PROVE  NextWord \in Pcs
<1>1. core.pc \in Pcs
  BY DEF Good, Machines
<1>2. CASE phase = "execute"
  <2>1. core.pc \in Code
    BY <1>2 DEF Executing
  <2>2. NextWord = core.pc + 2 /\ 2 \in 1 .. 5
    BY <1>2 DEF NextWord
  <2>3. QED
    BY <2>1, <2>2 DEF Pcs
<1>3. CASE phase # "execute"
  BY <1>1, <1>3 DEF NextWord
<1>4. QED
  BY <1>2, <1>3

\* The pc has been advanced past the instruction word.
LEMMA FetchedFields ==
  ASSUME Good(core), Executing, NEW m, m = Fetched
  PROVE  /\ m \in Machines /\ Same(m, core) /\ Good(m) /\ ContextsOf(m) = ContextsOf(core)
         /\ m.pc = NextWord /\ m.a7 = core.a7 /\ m.a6 = core.a6 /\ m.sr = core.sr
         /\ m.ram = core.ram /\ m.layout = core.layout /\ m.trace = core.trace
<1>1. PICK target \in Pcs : target = NextWord
  BY NextWordType
<1>2. m = [core EXCEPT !.pc = target]
  BY <1>1 DEF Fetched
<1>3. QED
  BY <1>1, <1>2, MovedFields

\* A core with the same stack as before.
LEMMA KeptIsGood ==
  ASSUME Good(core), NEW y \in Machines, Same(y, core)
  PROVE  Good(y) /\ Steps(core, y)
<1>1. Good(y) /\ ContextsOf(y) = ContextsOf(core)
  BY SameStack
<1>2. QED
  BY <1>1 DEF Steps

\* The core that an exception works on: as it is, or after a fetch.
Executed(m) ==
  /\ phase = "execute" => pc_instruction_begin = core.pc
  /\ m = core \/ (Executing /\ m = Fetched)

\* The stack is the same for both.
LEMMA ExecutedFields ==
  ASSUME Good(core), NEW m, Executed(m)
  PROVE  /\ m \in Machines /\ Good(m) /\ ContextsOf(m) = ContextsOf(core)
         /\ Same(m, core) /\ m.a7 = core.a7 /\ m.a6 = core.a6 /\ m.sr = core.sr
         /\ {m.pc, pc_instruction_begin} \subseteq Savable
<1>1. CASE m = core
  BY <1>1 DEF Good, Same, Keeps, Savable, NextWord, Executed
<1>2. CASE Executing /\ m = Fetched
  BY <1>2, FetchedFields DEF Savable
<1>3. QED
  BY <1>1, <1>2 DEF Executed

\* While an instruction executes, its address is known.
LEMMA ExecutesFetched ==
  ASSUME Good(core), BeginInv, NEW outcomes, Executes(outcomes) \/ GoesOn(outcomes)
  PROVE  /\ pc_instruction_begin \in Code /\ pc_instruction_begin \in Pcs
         /\ Executing /\ Executed(Fetched) /\ core' \in outcomes
<1>1. Executing /\ core' \in outcomes
  BY DEF Executes, GoesOn
<1>2. /\ phase = "execute" => pc_instruction_begin = core.pc
      /\ pc_instruction_begin \in Code
  BY <1>1 DEF Executing, BeginInv
<1>3. QED
  BY <1>1, <1>2 DEF Executed, Pcs

\* An exception before or after the fetch, and an advance of the pc after it.
LEMMA RaisedIsGood ==
  ASSUME Good(core), pc_instruction_begin \in Pcs, NEW m, Executed(m),
         NEW vector \in Int, NEW x \in exception_do_exception(m, vector)
  PROVE  /\ Good(x) /\ Steps(core, x)
         /\ vector = 2 =>
              \A y \in Machines :
                Same(y, x) /\ y.a6 = x.a6 /\ y.pc \in {x.pc + size : size \in Skips} =>
                  Good(y) /\ Steps(core, y)
<1>1. /\ Good(m) /\ ContextsOf(m) = ContextsOf(core) /\ m.a6 = core.a6 /\ m.sr = core.sr
      /\ {m.pc, pc_instruction_begin} \subseteq Savable
  BY ExecutedFields
<1>2. PICK saved : saved = PcToPush(m, vector)
  OBVIOUS
<1>3. saved \in Savable /\ (vector = 2 => saved = pc_instruction_begin)
  BY <1>1, <1>2 DEF PcToPush, FaultVectors
<1>4. Raised(x, m, saved)
  BY <1>1, <1>2, ExceptionRaises
<1>5. /\ Good(x) /\ x.a6 = core.a6
      /\ \/ ContextsOf(x) = ContextsOf(core)
         \/ /\ x.pc \in Handlers
            /\ OnTop(ContextsOf(x), FrameContext(saved, core.sr), ContextsOf(core))
         \/ Abandoned(ContextsOf(x))
  BY <1>1, <1>4 DEF Raised
<1>6. Steps(core, x)
  BY <1>3, <1>5, StepsWithoutLocals
<1>7. ASSUME vector = 2, NEW y \in Machines, Same(y, x), y.a6 = x.a6,
             y.pc \in {x.pc + size : size \in Skips}
      PROVE  Good(y) /\ Steps(core, y)
  <2>1. Good(y) /\ ContextsOf(y) = ContextsOf(x)
    BY <1>5, <1>7, SameStack
  <2>2. CASE /\ x.pc \in Handlers
             /\ OnTop(ContextsOf(x), FrameContext(saved, core.sr), ContextsOf(core))
    BY <1>3, <1>5, <1>7, <2>1, <2>2 DEF Steps
  <2>3. CASE ContextsOf(x) = ContextsOf(core) \/ Abandoned(ContextsOf(x))
    BY <2>1, <2>3, StepsWithoutLocals
  <2>4. QED
    BY <1>5, <2>1, <2>2, <2>3
<1>8. QED
  BY <1>5, <1>6, <1>7

\* Where a handler returns to, or the monitor, there is an instruction, when there was
\* one before.
LEMMA RaisedInCode ==
  ASSUME Good(core), pc_instruction_begin \in Code, NEW m, Executed(m),
         NEW x \in exception_do_exception(m, 2)
  PROVE  x \in Machines /\ x.pc \in Code
<1>1. PICK vector \in Int : vector = 2
  OBVIOUS
<1>2. Good(m) /\ pc_instruction_begin \in Pcs
  BY ExecutedFields DEF Pcs
<1>3. x \in exception_do_exception(m, vector) /\ vector \in Int
  BY <1>1
<1>4. Raised(x, m, PcToPush(m, vector))
  BY <1>2, <1>3, ExceptionRaises
<1>5. PcToPush(m, vector) = pc_instruction_begin
  BY <1>1 DEF PcToPush, FaultVectors
<1>6. QED
  BY <1>4, <1>5 DEF Raised, Good

\* A cell on the stack, or a fault on another stack.
LEMMA CellIsGood ==
  ASSUME Good(core), pc_instruction_begin \in Pcs, NEW m, Executed(m),
         NEW kind \in {"return", "arg", "link"}, NEW value \in Int,
         kind = "return" => value \in Pcs, kind = "link" => value \in FramePointers,
         NEW y \in Stack_Push(m, kind, value)
  PROVE  /\ Good(y) /\ y.a7 \in FramePointers
         /\ \/ Abandoned(ContextsOf(y))
            \/ /\ OnTop(ContextsOf(y), CellContext(kind, value), ContextsOf(core))
               /\ y.sr = core.sr /\ y.a6 = core.a6
<1>1. /\ m \in Machines /\ Good(m) /\ ContextsOf(m) = ContextsOf(core)
      /\ m.a6 = core.a6 /\ m.sr = core.sr /\ m.a7 \in Int /\ m.sr.i \in Nat
  <2>1. m \in Machines
    BY ExecutedFields
  <2>2. m.a7 \in Int /\ m.sr.i \in Nat
    BY <2>1, Numbers DEF Machines, SRs
  <2>3. QED
    BY <2>1, <2>2, ExecutedFields
<1>2. PICK at, lower : at = m.a7 - 4 /\ lower = [m EXCEPT !.a7 = at]
  OBVIOUS
<1>3. at \in Int
  BY <1>1, <1>2
<1>4. /\ lower \in Machines /\ lower.a7 = at /\ lower.a6 = m.a6 /\ lower.sr = m.sr
      /\ lower.ram = m.ram /\ lower.layout = m.layout
  BY <1>1, <1>2, <1>3 DEF Machines
<1>5. CASE at \in Stack
  <2>1. PICK e : e = Saved(kind, at, 0)
    OBVIOUS
  <2>2. /\ e \in Entries /\ e.kind = kind /\ e.at = at /\ e.level = 0 /\ kind # "frame"
        /\ e.at \in Nat
    BY <1>5, <2>1, Numbers DEF Saved, Entries, Kinds
  <2>3. PICK long, ram, layout :
          /\ long = Long(value) /\ ram = [m.ram EXCEPT ![at] = long]
          /\ layout = Push(e, m.layout)
    OBVIOUS
  <2>4. y = [lower EXCEPT !.ram = ram, !.layout = layout]
    <3>1. y = [lower EXCEPT !.ram[lower.a7] = long, !.layout = <<e>> \o @]
      BY <1>2, <1>4, <1>5, <2>1, <2>3 DEF Stack_Push
    <3>2. QED
      BY <1>4, <2>3, <3>1 DEF Push
  <2>5. long \in Longwords /\ long.word = value
    BY <2>3, Numbers DEF Long, Longwords, Cleared, SRs
  <2>6. ram \in [Stack -> Longwords] /\ ram[at] = long /\ \A a \in Stack : a # at => ram[a] = m.ram[a]
    BY <1>1, <1>5, <2>3, <2>5 DEF Machines
  <2>7. m.layout \in Seq(Entries) /\ layout \in Seq(Entries)
    <3>1. m.layout \in Seq(Entries)
      BY <1>1 DEF Machines
    <3>2. QED
      BY <2>2, <2>3, <3>1, PushProperties
  <2>8. /\ y \in Machines /\ y.a7 = at /\ y.a6 = m.a6 /\ y.sr = m.sr
        /\ y.ram = ram /\ y.layout = layout
    BY <1>4, <2>4, <2>6, <2>7 DEF Machines
  <2>9. Pushes(y, m, e)
    <3>1. End(e) = m.a7 /\ End(e) - 4 = at
      BY <1>1, <1>2, <2>2 DEF End, Size
    <3>2. \A a \in Stack : a >= m.a7 => y.ram[a] = m.ram[a]
      <4>1. \A a \in Stack : a >= m.a7 => a # at
        BY <1>1, <1>2, Numbers
      <4>2. QED
        BY <2>6, <2>8, <4>1
    <3>3. Holds(y.ram, e)
      BY <2>2, <2>5, <2>6, <2>8 DEF Holds
    <3>4. QED
      BY <1>1, <1>5, <2>2, <2>3, <2>8, <3>1, <3>2, <3>3 DEF Pushes
  <2>10. Good(y) /\ OnTop(ContextsOf(y), ContextOf(y.ram, e), ContextsOf(m))
    BY <1>1, <2>2, <2>8, <2>9, PushIsGood
  <2>11. ContextOf(y.ram, e) = CellContext(kind, value)
    BY <2>2, <2>5, <2>6, <2>8 DEF ContextOf, CellContext
  <2>12. QED
    BY <1>1, <1>5, <2>8, <2>10, <2>11 DEF FramePointers
<1>6. CASE at \notin Stack
  <2>1. ~ Fits(lower)
    <3>1. SUFFICES ASSUME at - 4 \in Stack, at - 8 \in Stack PROVE FALSE
      BY <1>4 DEF Fits
    <3>2. m.a7 \in Stack \cup {InitialSP, BadSP}
      BY <1>1, StackPointers
    <3>3. at - 4 = m.a7 - 8 /\ at - 8 = m.a7 - 12
      BY <1>1, <1>2
    <3>4. m.a7 \notin Stack /\ m.a7 # InitialSP
      BY <1>2, <1>6, <3>1, <3>3, ExceptionsAssumption
    <3>5. BadSP < m.a7 - 8
      BY <3>1, <3>3, ExceptionsAssumption
    <3>6. QED
      BY <1>1, <3>2, <3>4, <3>5
  <2>2. y \in exception_do_exception(lower, 2)
    BY <1>2, <1>4, <1>6 DEF Stack_Push
  <2>3. PICK vector \in Int : vector = 2
    OBVIOUS
  <2>4. y \in exception_do_exception(lower, vector) /\ vector \in Int
    BY <2>2, <2>3
  <2>5. Restarted(y, lower)
    BY <1>4, <2>1, <2>4, ExceptionRestarts
  <2>6. QED
    BY <2>5, StackPointers DEF Restarted, FramePointers
<1>7. QED
  BY <1>5, <1>6

\* The last entry of a stack.
LEMMA TopEntry ==
  ASSUME NEW m, Good(m), m.layout # <<>>
  PROVE  /\ 1 \in 1 .. Len(m.layout)
         /\ Head(m.layout) = m.layout[1] /\ Tail(m.layout) = SubSeq(m.layout, 2, Len(m.layout))
         /\ m.layout[1].at = m.a7 /\ End(m.layout[1]) = m.a7 + Size(m.layout[1])
         /\ Holds(m.ram, m.layout[1])
<1>1. m \in Machines /\ Dense(m) /\ Contents(m)
  BY DEF Good
<1>2. m.layout \in Seq(Entries) /\ Len(m.layout) \in Nat /\ Len(m.layout) # 0
  BY <1>1, LayoutTypes, EmptySeq
<1>3. 1 \in 1 .. Len(m.layout)
  BY <1>2
<1>4. Tail(m.layout) = SubSeq(m.layout, 2, Len(m.layout))
  <2>1. PICK s, t : s = m.layout /\ t = SubSeq(s, 1 + 1, Len(s))
    OBVIOUS
  <2>2. s \in Seq(Entries) /\ s # <<>> /\ 1 \in 0 .. Len(s) /\ Len(s) \in Nat
    BY <1>2, <2>1
  <2>3. t \in Seq(Entries) /\ Len(t) = Len(s) - 1 /\ \A k \in 1 .. Len(t) : t[k] = s[k + 1]
    BY <2>1, <2>2, PopProperties
  <2>4. /\ Tail(s) \in Seq(Entries) /\ Len(Tail(s)) = Len(s) - 1
        /\ \A k \in 1 .. Len(Tail(s)) : Tail(s)[k] = s[k + 1]
    BY <2>2, HeadTailProperties
  <2>5. Tail(s) = t
    BY <2>3, <2>4, SeqEqual
  <2>6. QED
    BY <2>1, <2>5
<1>5. QED
  BY <1>1, <1>2, <1>3, <1>4 DEF Dense, Contents, End

\* What is popped is forgotten.
LEMMA PoppedIsGood ==
  ASSUME NEW m, Good(m), NEW y \in Machines, NEW n \in 1 .. Len(m.layout),
         y.layout = SubSeq(m.layout, n + 1, Len(m.layout)), y.a7 = End(m.layout[n]),
         y.ram = m.ram,
         \A k \in n + 1 .. Len(m.layout) : m.layout[k].level <= y.sr.i,
         NEW x, x = Forget(y)
  PROVE  /\ Good(x) /\ x.pc = y.pc /\ x.a6 = y.a6 /\ x.sr = y.sr
         /\ ContextsOf(x) = SubSeq(ContextsOf(m), n + 1, Len(ContextsOf(m)))
<1>1. Pops(y, m, n)
  BY DEF Pops, Keeps
<1>2. Good(y) /\ ContextsOf(y) = SubSeq(ContextsOf(m), n + 1, Len(ContextsOf(m)))
  BY <1>1, PopIsGood
<1>3. /\ x \in Machines
      /\ x.pc = y.pc /\ x.a7 = y.a7 /\ x.a6 = y.a6 /\ x.sr = y.sr /\ x.layout = y.layout
      /\ \A k \in 1 .. Len(y.layout) :
           End(y.layout[k]) - 4 \in Stack => Keeps(x.ram, y.ram, y.layout[k])
  BY ForgetKeepsStack
<1>4. Same(x, y)
  BY <1>2, <1>3 DEF Same, Good, Dense
<1>5. Good(x) /\ ContextsOf(x) = ContextsOf(y)
  BY <1>2, <1>3, <1>4, SameStack
<1>6. QED
  BY <1>2, <1>3, <1>5

\* The last context is the one of the last entry.
LEMMA TopContext ==
  ASSUME NEW m, Good(m), m.layout # <<>>, NEW t, t = SubSeq(ContextsOf(m), 1 + 1, Len(ContextsOf(m)))
  PROVE  OnTop(ContextsOf(m), ContextOf(m.ram, m.layout[1]), t)
<1>1. m \in Machines /\ Dense(m) /\ 1 \in 1 .. Len(m.layout) /\ Len(m.layout) \in Nat
  BY TopEntry, LayoutTypes DEF Good
<1>2. PICK s : s = ContextsOf(m)
  OBVIOUS
<1>3. s \in Seq(SavedValues) /\ Len(s) = Len(m.layout) /\ s[1] = ContextOf(m.ram, m.layout[1])
  BY <1>1, <1>2, ContextsType
<1>4. s # <<>> /\ 1 \in 0 .. Len(s) /\ Len(s) \in Nat
  BY <1>1, <1>3, EmptySeq
<1>5. t \in Seq(SavedValues) /\ Len(t) = Len(s) - 1 /\ \A k \in 1 .. Len(t) : t[k] = s[k + 1]
  BY <1>2, <1>3, <1>4, PopProperties
<1>6. /\ Tail(s) \in Seq(SavedValues) /\ Len(Tail(s)) = Len(s) - 1
      /\ \A k \in 1 .. Len(Tail(s)) : Tail(s)[k] = s[k + 1]
  BY <1>3, <1>4, HeadTailProperties
<1>7. Tail(s) = t
  BY <1>5, <1>6, SeqEqual
<1>8. Head(s) = s[1]
  OBVIOUS
<1>9. QED
  BY <1>2, <1>3, <1>4, <1>7, <1>8 DEF OnTop

\* Each mask covers what is behind it.
LEMMA BehindTheTop ==
  ASSUME NEW m, Good(m), NEW n \in 1 .. Len(m.layout), NEW k \in n + 1 .. Len(m.layout)
  PROVE  /\ m.layout[k].level <= m.sr.i
         /\ m.layout[n].kind = "frame" => m.layout[k].level <= m.ram[m.layout[n].at].sr.i
<1>1. k \in 1 .. Len(m.layout)
  BY LayoutTypes DEF Good
<1>2. QED
  BY <1>1 DEF Good, Nested

-----------------------------------------------------------------------------
(* The instructions. *)

\* Levels that are above the new mask have been let in again.
LEMMA SET_SRIsGood ==
  ASSUME NEW m, Good(m), NEW sr \in SRs, NEW x, x = SET_SR(m, sr)
  PROVE  Good(x) /\ ContextsOf(x) = ContextsOf(m)
<1> DEFINE len == Len(m.layout)
           entry(k) == LetIn(m.layout[k], sr.i)
           layout == [k \in DOMAIN m.layout |-> entry(k)]
<1>1. m \in Machines /\ Dense(m) /\ Contents(m) /\ Nested(m)
  BY DEF Good
<1>2. m.layout \in Seq(Entries) /\ len \in Nat /\ DOMAIN m.layout = 1 .. len
  BY <1>1, LayoutTypes, LenProperties
<1>3. sr.i \in Nat /\ 0 \in Levels
  BY Numbers DEF SRs
<1>4. ASSUME NEW k \in 1 .. len
      PROVE  /\ entry(k) \in Entries
             /\ entry(k).kind = m.layout[k].kind /\ entry(k).at = m.layout[k].at
             /\ entry(k).level <= sr.i /\ entry(k).level <= m.layout[k].level
             /\ entry(k).level > 0 => entry(k).level = m.layout[k].level
  <2>1. m.layout[k] \in Entries /\ m.layout[k].level \in Nat
    BY <1>1, LayoutTypes
  <2>2. PICK level : level = IF m.layout[k].level > sr.i THEN 0 ELSE m.layout[k].level
    OBVIOUS
  <2>3. level \in Levels
    BY <1>3, <2>1, <2>2 DEF Entries
  <2>4. entry(k) = [m.layout[k] EXCEPT !.level = level]
    BY <2>2 DEF LetIn
  <2>5. /\ entry(k) \in Entries /\ entry(k).level = level
        /\ entry(k).kind = m.layout[k].kind /\ entry(k).at = m.layout[k].at
    BY <2>1, <2>3, <2>4 DEF Entries
  <2> HIDE DEF entry
  <2>6. level <= sr.i /\ level <= m.layout[k].level /\ (level > 0 => level = m.layout[k].level)
    BY <1>3, <2>1, <2>2
  <2>7. QED
    BY <2>5, <2>6
<1> HIDE DEF entry
<1>5. layout = [k \in 1 .. len |-> entry(k)]
  BY <1>2
<1>6. layout \in Seq(Entries) /\ Len(layout) = len /\ \A k \in 1 .. len : layout[k] = entry(k)
  BY <1>2, <1>4, <1>5, IsASeq, LenProperties
<1>7. x = [m EXCEPT !.sr = sr, !.layout = layout]
  BY DEF SET_SR, entry
<1> HIDE DEF layout
<1>8. /\ x \in Machines
      /\ x.a7 = m.a7 /\ x.a6 = m.a6 /\ x.sr = sr /\ x.ram = m.ram /\ x.layout = layout
  BY <1>1, <1>6, <1>7 DEF Machines
<1>9. \A k \in 1 .. len :
        /\ layout[k].kind = m.layout[k].kind /\ layout[k].at = m.layout[k].at
        /\ End(layout[k]) = End(m.layout[k])
        /\ layout[k].level <= sr.i /\ layout[k].level <= m.layout[k].level
        /\ layout[k].level > 0 => layout[k].level = m.layout[k].level
        /\ layout[k].level \in Nat /\ m.layout[k].level \in Nat
  <2>1. \A k \in 1 .. len : entry(k).level \in Nat /\ m.layout[k].level \in Nat
    BY <1>1, <1>4, LayoutTypes, Numbers DEF Entries
  <2>2. QED
    BY <1>4, <1>6, <2>1 DEF End, Size
<1> HIDE DEF len
<1>10. Dense(x)
  <2>1. layout = <<>> <=> m.layout = <<>>
    BY <1>2, <1>6, EmptySeq DEF len
  <2>2. layout # <<>> => 1 \in 1 .. len /\ len \in 1 .. len
    BY <1>2, <1>6, EmptySeq
  <2>3. \A k \in 1 .. len : End(layout[k]) - 4 \in Stack
    BY <1>1, <1>9 DEF Dense, len
  <2>4. \A k \in 1 .. len - 1 : layout[k + 1].at = End(layout[k])
    <3>1. \A k \in 1 .. len - 1 : k \in 1 .. len /\ k + 1 \in 1 .. len
      BY <1>2
    <3>2. \A k \in 1 .. len - 1 : m.layout[k + 1].at = End(m.layout[k])
      BY <1>1 DEF Dense, len
    <3>3. QED
      BY <1>9, <3>1, <3>2
  <2>5. \A j, k \in 1 .. len : j < k => End(layout[j]) <= layout[k].at
    BY <1>1, <1>9 DEF Dense, len
  <2>6. layout = <<>> => x.a7 \in Bases \cup {BadSP}
    BY <1>1, <1>8, <2>1 DEF Dense
  <2>7. layout # <<>> => layout[1].at = x.a7 /\ End(layout[len]) \in Bases
    BY <1>1, <1>8, <1>9, <2>1, <2>2 DEF Dense, len
  <2>8. QED
    BY <1>6, <1>8, <2>3, <2>4, <2>5, <2>6, <2>7 DEF Dense
<1>11. Contents(x)
  BY <1>1, <1>6, <1>8, <1>9 DEF Contents, Holds, len
<1>12. Nested(x)
  <2>1. ASSUME NEW k \in 1 .. len, NEW j \in k + 1 .. len
        PROVE  /\ layout[k].level > 0 => layout[j].level < layout[k].level
               /\ layout[k].kind = "frame" => layout[j].level <= m.ram[layout[k].at].sr.i
    <3>1. j \in 1 .. len
      BY <1>2
    <3>2. /\ m.layout[k].level > 0 => m.layout[j].level < m.layout[k].level
          /\ m.layout[k].kind = "frame" => m.layout[j].level <= m.ram[m.layout[k].at].sr.i
      BY <1>1 DEF Nested, len
    <3>3. m.layout[k].kind = "frame" => m.ram[m.layout[k].at].sr.i \in Nat
      BY <1>1, LayoutTypes, Numbers DEF Machines, Longwords, SRs, len
    <3>4. layout[k].level > 0 => layout[j].level < layout[k].level
      BY <1>9, <3>1, <3>2
    <3>5. layout[k].kind = "frame" => layout[j].level <= m.ram[layout[k].at].sr.i
      <4>1. SUFFICES ASSUME layout[k].kind = "frame"
                     PROVE  layout[j].level <= m.ram[layout[k].at].sr.i
        OBVIOUS
      <4>2. PICK i : i = m.ram[m.layout[k].at].sr.i
        OBVIOUS
      <4>3. i \in Nat /\ m.layout[j].level <= i /\ layout[j].level <= m.layout[j].level
            /\ layout[j].level \in Nat /\ m.layout[j].level \in Nat
        BY <1>9, <3>1, <3>2, <3>3, <4>1, <4>2
      <4>4. layout[j].level <= i
        BY <4>3
      <4>5. QED
        BY <1>9, <4>2, <4>4
    <3>6. QED
      BY <3>4, <3>5
  <2>2. \A k \in 1 .. len : layout[k].level <= sr.i
    BY <1>9
  <2>3. QED
    BY <1>6, <1>8, <2>1, <2>2 DEF Nested
<1>13. ContextsOf(x) = ContextsOf(m)
  <2>1. \A k \in 1 .. len : ContextOf(x.ram, layout[k]) = ContextOf(m.ram, m.layout[k])
    BY <1>8, <1>9 DEF ContextOf
  <2>2. QED
    BY <1>6, <1>8, <2>1 DEF ContextsOf, len
<1>14. QED
  BY <1>8, <1>10, <1>11, <1>12, <1>13 DEF Good

\* Room for locals on a good stack.
LEMMA DisplacedIsGood ==
  ASSUME NEW m, Good(m), NEW x \in Displaced(m)
  PROVE  Good(x) /\ x.sr = m.sr /\ MayHold(ContextsOf(x), ContextsOf(m))
<1>1. m \in Machines /\ m.a7 \in Int /\ m.sr.i \in Nat /\ m.layout \in Seq(Entries)
  BY Numbers DEF Good, Machines, SRs
<1>2. CASE x = m
  BY <1>2 DEF MayHold
<1>3. CASE x # m
  <2>1. PICK at, e : /\ at \in Stack /\ at = m.a7 - 4 /\ e = Saved("arg", at, 0)
                     /\ x = [m EXCEPT !.a7 = at, !.layout = <<e>> \o m.layout]
    BY <1>3 DEF Displaced
  <2>2. /\ e \in Entries /\ e.kind = "arg" /\ e.at = at /\ e.level = 0
        /\ at \in Stack /\ at \in Nat
    BY <2>1, Numbers DEF Saved, Entries, Kinds
  <2>3. PICK layout : layout = Push(e, m.layout)
    OBVIOUS
  <2>4. layout \in Seq(Entries) /\ x = [m EXCEPT !.a7 = at, !.layout = layout]
    <3>1. layout \in Seq(Entries)
      BY <1>1, <2>2, <2>3, PushProperties
    <3>2. QED
      <4>1. layout = <<e>> \o m.layout
        BY <2>3 DEF Push
      <4>2. QED
        BY ONLY <2>1, <3>1, <4>1
  <2>5. x \in Machines /\ x.a7 = at /\ x.sr = m.sr /\ x.ram = m.ram /\ x.layout = layout
    <3>1. m \in Machines /\ at \in Int /\ layout \in Seq(Entries)
      BY <1>1, <2>2, <2>4
    <3>2. QED
      BY <2>4, <3>1 DEF Machines
  <2>6. Pushes(x, m, e)
    <3>1. End(e) = m.a7 /\ End(e) - 4 = at
      BY <1>1, <2>1, <2>2 DEF End, Size
    <3>2. Holds(x.ram, e)
      BY <2>2 DEF Holds
    <3>3. QED
      BY <1>1, <2>2, <2>3, <2>5, <3>1, <3>2 DEF Pushes
  <2>7. Good(x) /\ OnTop(ContextsOf(x), ContextOf(x.ram, e), ContextsOf(m))
    BY <2>2, <2>5, <2>6, PushIsGood
  <2>8. ContextOf(x.ram, e) = CellContext("arg", x.ram[at].word)
    BY <2>2 DEF ContextOf, CellContext
  <2>9. QED
    BY <2>5, <2>7, <2>8 DEF MayHold
<1>4. QED
  BY <1>2, <1>3

\* A call, an argument and a frame pointer, or the fault of their push.
LEMMA PushingSteps ==
  ASSUME Good(core), BeginInv, JSR \/ PEA \/ LINK
  PROVE  Good(core') /\ Steps(core, core')
<1>1. PICK m, x : m = Fetched /\ x = core'
  OBVIOUS
<1>2. /\ Executing /\ pc_instruction_begin \in Pcs /\ Executed(m)
      /\ m.pc = NextWord /\ m.a6 = core.a6
  <2>1. PICK outcomes : Executes(outcomes)
    BY DEF JSR, PEA, LINK
  <2>2. QED
    BY <1>1, <2>1, ExecutesFetched, FetchedFields
<1>3. /\ NextWord \in Pcs /\ NextWord \in Int
      /\ core.a6 \in FramePointers /\ core.a6 \in Int
  <2>1. NextWord \in Pcs /\ core.a6 \in FramePointers
    BY <1>2, NextWordType DEF Good, Machines
  <2>2. QED
    BY <2>1, Numbers
<1>4. CASE JSR
  <2>1. PICK target \in Code \cup Wild, y \in Stack_Push(m, "return", NextWord) :
          x = [y EXCEPT !.pc = target]
    BY <1>1, <1>2, <1>4 DEF JSR, Executes
  <2>2. PICK kind, value : kind = "return" /\ value = NextWord
    OBVIOUS
  <2>3. y \in Stack_Push(m, kind, value)
    BY <2>1, <2>2
  <2>4. /\ Good(y)
        /\ \/ Abandoned(ContextsOf(y))
           \/ /\ OnTop(ContextsOf(y), CellContext(kind, value), ContextsOf(core))
              /\ y.sr = core.sr /\ y.a6 = core.a6
    BY <1>2, <1>3, <2>2, <2>3, CellIsGood
  <2>5. y \in Machines /\ target \in Pcs
    BY <2>1, <2>4 DEF Good, Pcs
  <2>6. /\ x \in Machines /\ x.sr = y.sr /\ x.a6 = y.a6 /\ x.a7 = y.a7
        /\ x.layout = y.layout /\ x.ram = y.ram
    BY <2>1, <2>5 DEF Machines
  <2>7. Good(x) /\ ContextsOf(x) = ContextsOf(y)
    BY <2>4, <2>6, SameStack DEF Same, Keeps
  <2>8. Steps(core, x)
    BY <2>2, <2>4, <2>6, <2>7, StepsWithoutLocals DEF Steps
  <2>9. QED
    BY <1>1, <2>7, <2>8
<1>5. CASE PEA
  <2>1. PICK kind, value : kind = "arg" /\ value = 0
    OBVIOUS
  <2>2. x \in Stack_Push(m, kind, value) /\ value \in Int
    BY <1>1, <1>5, <2>1 DEF PEA, Executes
  <2>3. /\ Good(x)
        /\ \/ Abandoned(ContextsOf(x))
           \/ /\ OnTop(ContextsOf(x), CellContext(kind, value), ContextsOf(core))
              /\ x.sr = core.sr /\ x.a6 = core.a6
    BY <1>2, <2>1, <2>2, CellIsGood
  <2>4. Steps(core, x)
    BY <2>1, <2>3, StepsWithoutLocals DEF Steps
  <2>5. QED
    BY <1>1, <2>3, <2>4
<1>6. CASE LINK
  <2>1. PICK y \in Stack_Push(m, "link", core.a6) : x \in Displaced([y EXCEPT !.a6 = y.a7])
    BY <1>1, <1>2, <1>6 DEF LINK, Executes
  <2>2. PICK kind, value, z : kind = "link" /\ value = core.a6 /\ z = [y EXCEPT !.a6 = y.a7]
    OBVIOUS
  <2>3. y \in Stack_Push(m, kind, value)
    BY <2>1, <2>2
  <2>4. /\ Good(y) /\ y.a7 \in FramePointers
        /\ \/ Abandoned(ContextsOf(y))
           \/ /\ OnTop(ContextsOf(y), CellContext(kind, value), ContextsOf(core))
              /\ y.sr = core.sr
    BY <1>2, <1>3, <2>2, <2>3, CellIsGood
  <2>5. y \in Machines
    BY <2>4 DEF Good
  <2>6. /\ z \in Machines /\ z.sr = y.sr /\ z.a7 = y.a7
        /\ z.layout = y.layout /\ z.ram = y.ram
    BY <2>2, <2>4, <2>5 DEF Machines
  <2>7. Good(z) /\ ContextsOf(z) = ContextsOf(y)
    BY <2>4, <2>6, SameStack DEF Same, Keeps
  <2>8. Good(x) /\ x.sr = z.sr /\ MayHold(ContextsOf(x), ContextsOf(y))
    BY <2>1, <2>2, <2>7, DisplacedIsGood
  <2>9. Steps(core, x)
    BY <2>2, <2>4, <2>6, <2>8 DEF Steps
  <2>10. QED
    BY <1>1, <2>8, <2>9
<1>7. QED
  BY <1>4, <1>5, <1>6

\* A return from a subroutine.
LEMMA RTSSteps ==
  ASSUME Good(core), RTS
  PROVE  Good(core') /\ Steps(core, core')
<1> DEFINE y == [core EXCEPT !.pc = core.ram[core.a7].word, !.a7 = @ + 4, !.layout = Tail(@)]
<1>1. core.layout # <<>> /\ Head(core.layout).kind = "return" /\ core' = Forget(y)
  BY DEF RTS, Executes
<1>2. PICK e : e = core.layout[1]
  OBVIOUS
<1>3. /\ 1 \in 1 .. Len(core.layout) /\ Tail(core.layout) = SubSeq(core.layout, 2, Len(core.layout))
      /\ e.kind = "return" /\ e.at = core.a7 /\ End(e) = core.a7 + 4
      /\ core.ram[core.a7].word \in Pcs
  BY <1>1, <1>2, TopEntry DEF Holds, Size
<1>4. /\ core \in Machines /\ core.a7 \in Int /\ Len(core.layout) \in Nat
      /\ core.layout \in Seq(Entries)
  BY LayoutTypes DEF Good, Machines
<1>5. PICK at, rest, target : /\ at = core.a7 + 4 /\ target = core.ram[core.a7].word
                              /\ rest = SubSeq(core.layout, 1 + 1, Len(core.layout))
  OBVIOUS
<1>6. rest \in Seq(Entries)
  BY <1>3, <1>4, <1>5, PopProperties
<1>7. y = [core EXCEPT !.pc = target, !.a7 = at, !.layout = rest]
  <2>1. Tail(core.layout) = rest /\ core.a7 + 4 = at /\ core.ram[core.a7].word = target
    BY <1>3, <1>5
  <2>2. QED
    BY <2>1
<1> HIDE DEF y
<1>8. /\ y \in Machines /\ y.pc = target /\ y.a7 = at /\ y.a6 = core.a6 /\ y.sr = core.sr
      /\ y.ram = core.ram /\ y.layout = rest
  <2>1. core \in Machines /\ target \in Pcs /\ at \in Int /\ rest \in Seq(Entries)
    BY <1>3, <1>4, <1>5, <1>6
  <2>2. QED
    BY <1>7, <2>1 DEF Machines
<1>9. PICK n, x : n = 1 /\ x = core'
  OBVIOUS
<1>10. /\ n \in 1 .. Len(core.layout) /\ y.layout = SubSeq(core.layout, n + 1, Len(core.layout))
       /\ y.a7 = End(core.layout[n]) /\ y.ram = core.ram /\ x = Forget(y)
  BY <1>1, <1>2, <1>3, <1>5, <1>8, <1>9
<1>11. \A k \in n + 1 .. Len(core.layout) : core.layout[k].level <= y.sr.i
  BY <1>8, <1>10, BehindTheTop
<1>12. /\ Good(x) /\ x.pc = y.pc /\ x.a6 = y.a6 /\ x.sr = y.sr
       /\ ContextsOf(x) = SubSeq(ContextsOf(core), n + 1, Len(ContextsOf(core)))
  BY <1>8, <1>10, <1>11, PoppedIsGood
<1>13. ContextsOf(x) = SubSeq(ContextsOf(core), 1 + 1, Len(ContextsOf(core)))
  BY <1>9, <1>12
<1>14. OnTop(ContextsOf(core), ContextOf(core.ram, e), ContextsOf(x))
  BY <1>1, <1>2, <1>13, TopContext
<1>15. ContextOf(core.ram, e) = CellContext("return", x.pc)
  BY <1>3, <1>5, <1>8, <1>12 DEF ContextOf, CellContext
<1>16. Steps(core, x)
  BY <1>8, <1>12, <1>14, <1>15 DEF Steps
<1>17. QED
  BY <1>9, <1>12, <1>16

\* A return from an exception.
LEMMA ReturnSteps ==
  ASSUME Good(core), core.layout # <<>>, Head(core.layout).kind = "frame",
         Executes({exception_restore_from_stack_frame(Fetched)})
  PROVE  Good(core') /\ Steps(core, core')
<1>1. PICK m : m = Fetched
  OBVIOUS
<1> DEFINE y == [m EXCEPT !.sr = m.ram[m.a7].sr, !.pc = m.ram[m.a7 + 4].word,
                          !.a7 = @ + 8, !.layout = Tail(@)]
<1>2. /\ core.layout # <<>> /\ Head(core.layout).kind = "frame" /\ Executing
      /\ core' = Forget(y)
  BY <1>1 DEF Executes, exception_restore_from_stack_frame
<1>3. /\ m \in Machines /\ m.a7 = core.a7 /\ m.a6 = core.a6 /\ m.ram = core.ram
      /\ m.layout = core.layout
  BY <1>1, <1>2, FetchedFields
<1>4. PICK e : e = core.layout[1]
  OBVIOUS
<1>5. /\ 1 \in 1 .. Len(core.layout) /\ Tail(core.layout) = SubSeq(core.layout, 2, Len(core.layout))
      /\ e.kind = "frame" /\ e.at = core.a7 /\ End(e) = core.a7 + 8
      /\ core.ram[core.a7 + 4].word \in Pcs
  BY <1>2, <1>4, TopEntry DEF Holds, Size
<1>6. /\ core \in Machines /\ core.a7 \in Int /\ Len(core.layout) \in Nat
      /\ core.layout \in Seq(Entries) /\ core.ram[core.a7].sr \in SRs
  <2>1. core \in Machines /\ e.at \in Stack
    BY <1>4, <1>5, LayoutTypes DEF Good
  <2>2. QED
    BY <1>5, <2>1, LayoutTypes DEF Machines, Longwords
<1>7. PICK at, rest, target, sr :
        /\ at = core.a7 + 8 /\ target = core.ram[core.a7 + 4].word /\ sr = core.ram[core.a7].sr
        /\ rest = SubSeq(core.layout, 1 + 1, Len(core.layout))
  OBVIOUS
<1>8. rest \in Seq(Entries)
  BY <1>5, <1>6, <1>7, PopProperties
<1>9. y = [m EXCEPT !.sr = sr, !.pc = target, !.a7 = at, !.layout = rest]
  <2>1. /\ Tail(m.layout) = rest /\ m.a7 + 8 = at
        /\ m.ram[m.a7 + 4].word = target /\ m.ram[m.a7].sr = sr
    BY <1>3, <1>5, <1>7
  <2>2. QED
    BY <2>1
<1> HIDE DEF y
<1>10. /\ y \in Machines /\ y.pc = target /\ y.a7 = at /\ y.a6 = core.a6 /\ y.sr = sr
       /\ y.ram = core.ram /\ y.layout = rest
  <2>1. m \in Machines /\ target \in Pcs /\ at \in Int /\ rest \in Seq(Entries) /\ sr \in SRs
    BY <1>3, <1>5, <1>6, <1>7, <1>8
  <2>2. /\ y \in Machines /\ y.pc = target /\ y.a7 = at /\ y.a6 = m.a6 /\ y.sr = sr
        /\ y.ram = m.ram /\ y.layout = rest
    BY <1>9, <2>1 DEF Machines
  <2>3. QED
    BY <1>3, <2>2
<1>11. PICK n, x : n = 1 /\ x = core'
  OBVIOUS
<1>12. /\ n \in 1 .. Len(core.layout) /\ y.layout = SubSeq(core.layout, n + 1, Len(core.layout))
       /\ y.a7 = End(core.layout[n]) /\ y.ram = core.ram /\ x = Forget(y)
       /\ core.layout[n] = e
  BY <1>2, <1>4, <1>5, <1>7, <1>10, <1>11
<1>13. \A k \in n + 1 .. Len(core.layout) : core.layout[k].level <= y.sr.i
  BY <1>5, <1>7, <1>10, <1>12, BehindTheTop
<1>14. /\ Good(x) /\ x.pc = y.pc /\ x.a6 = y.a6 /\ x.sr = y.sr
       /\ ContextsOf(x) = SubSeq(ContextsOf(core), n + 1, Len(ContextsOf(core)))
  BY <1>10, <1>12, <1>13, PoppedIsGood, ZenonT(60)
<1>15. ContextsOf(x) = SubSeq(ContextsOf(core), 1 + 1, Len(ContextsOf(core)))
  BY <1>11, <1>14
<1>16. OnTop(ContextsOf(core), ContextOf(core.ram, e), ContextsOf(x))
  BY <1>2, <1>4, <1>15, TopContext
<1>17. ContextOf(core.ram, e) = FrameContext(x.pc, x.sr)
  BY <1>5, <1>7, <1>10, <1>14 DEF ContextOf, FrameContext
<1>18. Steps(core, x)
  BY <1>10, <1>14, <1>16, <1>17 DEF Steps
<1>19. QED
  BY <1>11, <1>14, <1>18

\* The stack pointer after a return to a frame that was left behind.
LEMMA LeftBehindFields ==
  ASSUME Good(core), FrameLeftBehind
  PROVE  core.a7 + 8 \in Stack
<1>1. PICK n \in 2 .. Len(core.layout) :
        core.layout[n].kind = "frame" /\ \A k \in 1 .. n - 1 : core.layout[k].kind # "frame"
  BY DEF FrameLeftBehind
<1>2. core \in Machines /\ Dense(core) /\ Len(core.layout) \in Nat /\ core.a7 \in Int
  BY LayoutTypes DEF Good, Machines
<1>3. 1 \in 1 .. Len(core.layout) - 1 /\ 1 \in 1 .. n - 1 /\ 2 \in 1 .. Len(core.layout) /\ 1 + 1 = 2
  BY <1>1, <1>2
<1>4. core.layout # <<>>
  BY <1>2, <1>3, EmptySeq
<1>5. core.layout[1].at = core.a7 /\ Size(core.layout[1]) = 4
  BY <1>1, <1>2, <1>3, <1>4 DEF Dense, Size
<1>6. core.layout[1 + 1].at = End(core.layout[1])
  BY <1>2, <1>3 DEF Dense
<1>7. core.layout[2].at = core.a7 + 4
  BY <1>3, <1>5, <1>6 DEF End
<1>8. CASE n = 2
  <2>1. End(core.layout[2]) = core.a7 + 4 + 8
    BY <1>1, <1>7, <1>8 DEF End, Size
  <2>2. End(core.layout[2]) - 4 \in Stack
    BY <1>2, <1>3 DEF Dense
  <2>3. QED
    BY <1>2, <2>1, <2>2
<1>9. CASE n # 2
  <2>1. 2 \in 1 .. n - 1 /\ 2 \in 1 .. Len(core.layout) - 1 /\ 3 \in 1 .. Len(core.layout)
        /\ 2 + 1 = 3
    BY <1>1, <1>2, <1>9
  <2>2. Size(core.layout[2]) = 4
    BY <1>1, <2>1 DEF Size
  <2>3. core.layout[2 + 1].at = End(core.layout[2])
    BY <1>2, <2>1 DEF Dense
  <2>4. core.layout[3].at = core.a7 + 8
    BY <1>2, <1>7, <2>1, <2>2, <2>3 DEF End
  <2>5. QED
    BY <1>2, <2>1, <2>4, LayoutTypes
<1>10. QED
  BY <1>8, <1>9

\* A return, and one that takes something else for its frame.
LEMMA RTESteps ==
  ASSUME Good(core), RTE
  PROVE  Good(core') /\ Steps(core, core')
<1>1. CASE /\ core.layout # <<>> /\ Head(core.layout).kind = "frame"
           /\ Executes({exception_restore_from_stack_frame(Fetched)})
  BY <1>1, ReturnSteps
<1>2. ASSUME FrameLeftBehind, NEW status \in GuestSR, NEW target \in Code \cup Wild,
             Executes({SetStackPointer([Fetched EXCEPT !.sr = status, !.pc = target],
                                       core.a7 + 8)})
      PROVE  Good(core') /\ Steps(core, core')
  <2>1. PICK m, x, y, sp : /\ m = Fetched /\ x = core' /\ sp = core.a7 + 8
                           /\ y = [m EXCEPT !.sr = status, !.pc = target]
    OBVIOUS
  <2>2. Executing /\ x = SetStackPointer(y, sp)
    BY <1>2, <2>1 DEF Executes
  <2>3. m \in Machines
    BY <2>1, <2>2, FetchedFields
  <2>4. status \in SRs /\ target \in Pcs
    <3>1. status \in SRs
      BY ExceptionsAssumption DEF SRs
    <3>2. QED
      BY <3>1 DEF Pcs
  <2>5. y \in Machines
    BY <2>1, <2>3, <2>4 DEF Machines
  <2>6. sp \in Bases \cup {BadSP}
    BY <1>2, <2>1, LeftBehindFields DEF Bases
  <2>7. Good(x) /\ ContextsOf(x) = <<>>
    BY <2>2, <2>5, <2>6, FreshIsGood
  <2>8. QED
    BY <2>1, <2>7, StepsWithoutLocals DEF Abandoned
<1>3. QED
  BY <1>1, <1>2 DEF RTE

\* A return to the frame that the frame pointer keeps.
LEMMA UNLKSteps ==
  ASSUME Good(core), UNLK
  PROVE  Good(core') /\ Steps(core, core')
<1>1. PICK m : m = Fetched
  OBVIOUS
<1>2. PICK n \in 1 .. Len(core.layout) :
        /\ core.layout[n].kind = "link" /\ core.layout[n].at = core.a6
        /\ \A k \in 1 .. n - 1 : core.layout[k].kind = "arg"
        /\ Executing
        /\ core' = Forget([m EXCEPT !.a6 = core.ram[core.a6].word, !.a7 = core.a6 + 4,
                                    !.layout = SubSeq(@, n + 1, Len(@))])
  BY <1>1 DEF UNLK, Executes
<1> DEFINE y == [m EXCEPT !.a6 = core.ram[core.a6].word, !.a7 = core.a6 + 4,
                          !.layout = SubSeq(@, n + 1, Len(@))]
<1>3. /\ m \in Machines /\ m.sr = core.sr /\ m.pc = NextWord /\ m.ram = core.ram
      /\ m.layout = core.layout
  BY <1>1, <1>2, FetchedFields
<1>4. PICK e : e = core.layout[n]
  OBVIOUS
<1>5. core \in Machines /\ Dense(core) /\ Contents(core)
  BY DEF Good
<1>6. /\ core.a6 \in Int /\ Len(core.layout) \in Nat /\ core.layout \in Seq(Entries)
      /\ n \in Nat /\ n \in 0 .. Len(core.layout)
  BY <1>5, LayoutTypes, Numbers DEF Machines
<1>7. e.kind = "link" /\ e.at = core.a6 /\ End(e) = core.a6 + 4
      /\ core.ram[core.a6].word \in FramePointers
  BY <1>2, <1>4, <1>5 DEF End, Size, Contents, Holds
<1>8. PICK at, rest, link :
        /\ at = core.a6 + 4 /\ link = core.ram[core.a6].word
        /\ rest = SubSeq(core.layout, n + 1, Len(core.layout))
  OBVIOUS
<1>9. rest \in Seq(Entries)
  BY <1>6, <1>8, PopProperties
<1>10. y = [m EXCEPT !.a6 = link, !.a7 = at, !.layout = rest]
  <2>1. /\ SubSeq(m.layout, n + 1, Len(m.layout)) = rest
        /\ core.a6 + 4 = at /\ core.ram[core.a6].word = link
    BY <1>3, <1>8
  <2>2. QED
    BY <2>1
<1>11. core' = Forget(y)
  BY <1>2
<1> HIDE DEF y
<1>12. /\ y \in Machines /\ y.pc = m.pc /\ y.a7 = at /\ y.a6 = link /\ y.sr = core.sr
       /\ y.ram = core.ram /\ y.layout = rest
  <2>1. m \in Machines /\ link \in FramePointers /\ at \in Int /\ rest \in Seq(Entries)
    BY <1>3, <1>6, <1>7, <1>8, <1>9
  <2>2. /\ y \in Machines /\ y.pc = m.pc /\ y.a7 = at /\ y.a6 = link /\ y.sr = m.sr
        /\ y.ram = m.ram /\ y.layout = rest
    BY <1>10, <2>1 DEF Machines
  <2>3. QED
    BY <1>3, <2>2
<1>13. PICK x : x = core'
  OBVIOUS
<1>14. /\ y.layout = SubSeq(core.layout, n + 1, Len(core.layout))
       /\ y.a7 = End(core.layout[n]) /\ y.ram = core.ram /\ x = Forget(y)
  BY <1>4, <1>7, <1>8, <1>11, <1>12, <1>13
<1>15. \A k \in n + 1 .. Len(core.layout) : core.layout[k].level <= y.sr.i
  BY <1>12, BehindTheTop
<1>16. /\ Good(x) /\ x.pc = y.pc /\ x.a6 = y.a6 /\ x.sr = y.sr
       /\ ContextsOf(x) = SubSeq(ContextsOf(core), n + 1, Len(ContextsOf(core)))
  BY <1>12, <1>14, <1>15, PoppedIsGood
<1>17. /\ Len(ContextsOf(core)) = Len(core.layout)
       /\ \A k \in 1 .. Len(core.layout) :
            ContextsOf(core)[k] = ContextOf(core.ram, core.layout[k])
  BY <1>5, ContextsType
<1>18. /\ \A k \in 1 .. n - 1 : ContextsOf(core)[k].kind = "arg"
       /\ ContextsOf(core)[n].kind = "link" /\ ContextsOf(core)[n].value = link
  <2>1. ASSUME NEW k \in 1 .. n - 1 PROVE ContextsOf(core)[k].kind = "arg"
    <3>1. k \in 1 .. Len(core.layout) /\ core.layout[k].kind = "arg"
      BY <1>2, <1>6
    <3>2. ContextsOf(core)[k] = ContextOf(core.ram, core.layout[k])
      BY <1>17, <3>1
    <3>3. QED
      BY <3>1, <3>2 DEF ContextOf
  <2>2. ContextsOf(core)[n] = ContextOf(core.ram, e)
    BY <1>4, <1>17
  <2>3. QED
    BY <1>7, <1>8, <2>1, <2>2 DEF ContextOf
<1>19. Steps(core, x)
  BY <1>12, <1>16, <1>17, <1>18 DEF Steps
<1>20. QED
  BY <1>13, <1>16, <1>19

\* Instructions that leave the stack and the mask alone.
LEMMA PlainSteps ==
  ASSUME Good(core), HALT \/ JMP \/ MOVEC \/ WriteSim
  PROVE  Good(core') /\ Steps(core, core')
<1>1. PICK m, x : m = Fetched /\ x = core'
  OBVIOUS
<1>2. Executing
  BY DEF HALT, JMP, MOVEC, WriteSim, Executes
<1>3. m \in Machines /\ Same(m, core)
  BY <1>1, <1>2, FetchedFields
<1>4. x = m \/ \E target \in Code \cup Wild : x = [m EXCEPT !.pc = target]
  BY <1>1 DEF HALT, JMP, MOVEC, WriteSim, Executes
<1>5. x \in Machines /\ x.layout = m.layout /\ x.a7 = m.a7 /\ x.sr = m.sr /\ x.ram = m.ram
  <2>1. CASE x = m
    BY <1>3, <2>1
  <2>2. CASE \E target \in Code \cup Wild : x = [m EXCEPT !.pc = target]
    <3>1. PICK target \in Code \cup Wild : x = [m EXCEPT !.pc = target]
      BY <2>2
    <3>2. target \in Pcs
      BY DEF Pcs
    <3>3. QED
      BY <1>3, <3>1, <3>2 DEF Machines
  <2>3. QED
    BY <1>4, <2>1, <2>2
<1>6. Same(x, core)
  BY <1>3, <1>5 DEF Same, Keeps
<1>7. Good(x) /\ Steps(core, x)
  BY <1>5, <1>6, KeptIsGood
<1>8. QED
  BY <1>1, <1>7

\* The instructions that are exceptions.
LEMMA TrapSteps ==
  ASSUME Good(core), BeginInv, TRAP \/ ILLEGAL
  PROVE  Good(core') /\ Steps(core, core')
<1>1. PICK m, x : m = Fetched /\ x = core'
  OBVIOUS
<1>2. PICK v \in {4, 32, 47} : Executes(exception_do_exception(m, v))
  BY <1>1 DEF TRAP, ILLEGAL
<1>3. Executed(m) /\ pc_instruction_begin \in Pcs /\ v \in Int /\ x \in exception_do_exception(m, v)
  BY <1>1, <1>2, ExecutesFetched
<1>4. Good(x) /\ Steps(core, x)
  BY <1>3, RaisedIsGood
<1>5. QED
  BY <1>1, <1>4

\* The condition codes of a core are not on the stack.
LEMMA FlagsAreNotOnTheStack ==
  ASSUME NEW m \in Machines, NEW c \in {0, 1}, NEW y, y = [m EXCEPT !.sr.c = c]
  PROVE  y \in Machines /\ Same(y, m) /\ y.a6 = m.a6
<1>1. PICK sr : sr = [m.sr EXCEPT !.c = c]
  OBVIOUS
<1>2. sr \in SRs /\ sr.i = m.sr.i
  BY <1>1 DEF Machines, SRs
<1>3. y = [m EXCEPT !.sr = sr]
  BY <1>1
<1>4. /\ y \in Machines /\ y.layout = m.layout /\ y.a7 = m.a7 /\ y.sr = sr
      /\ y.ram = m.ram /\ y.a6 = m.a6
  BY <1>2, <1>3 DEF Machines
<1>5. QED
  BY <1>2, <1>4 DEF Same, Keeps

\* The instructions that give the status register a value.
LEMMA StatusSteps ==
  ASSUME Good(core), BeginInv, STOP \/ MOVEXR
  PROVE  Good(core') /\ Steps(core, core')
<1>1. PICK m, x : m = Fetched /\ x = core'
  OBVIOUS
<1>2. /\ Executing
      /\ \/ \E sr \in GuestSR : x = SET_SR(m, sr)
         \/ Executes(exception_do_exception(m, 8))
         \/ \E c \in {0, 1} : x = [m EXCEPT !.sr.c = c]
  BY <1>1 DEF STOP, MOVEXR, Executes
<1>3. m \in Machines /\ Same(m, core) /\ Good(m) /\ ContextsOf(m) = ContextsOf(core)
  BY <1>1, <1>2, FetchedFields
<1>4. CASE \E sr \in GuestSR : x = SET_SR(m, sr)
  <2>1. PICK sr \in GuestSR : x = SET_SR(m, sr)
    BY <1>4
  <2>2. sr \in SRs
    BY ExceptionsAssumption DEF SRs
  <2>3. Good(x) /\ ContextsOf(x) = ContextsOf(m)
    BY <1>3, <2>1, <2>2, SET_SRIsGood
  <2>4. QED
    BY <1>1, <1>3, <2>3 DEF Steps
<1>5. CASE Executes(exception_do_exception(m, 8))
  <2>1. PICK v \in Int : Executed(m) /\ pc_instruction_begin \in Pcs /\ x \in exception_do_exception(m, v)
    BY <1>1, <1>5, ExecutesFetched
  <2>2. Good(x) /\ Steps(core, x)
    BY <2>1, RaisedIsGood
  <2>3. QED
    BY <1>1, <2>2
<1>6. CASE \E c \in {0, 1} : x = [m EXCEPT !.sr.c = c]
  <2>1. PICK c \in {0, 1} : x = [m EXCEPT !.sr.c = c]
    BY <1>6
  <2>2. x \in Machines /\ Same(x, m)
    BY <1>3, <2>1, FlagsAreNotOnTheStack
  <2>3. Same(x, core)
    BY <1>3, <2>2 DEF Same, Keeps
  <2>4. Good(x) /\ Steps(core, x)
    BY <2>2, <2>3, KeptIsGood
  <2>5. QED
    BY <1>1, <2>4
<1>7. QED
  BY <1>2, <1>4, <1>5, <1>6

\* Where there is memory, there is an address within reach of a fetch.
LEMMA AdvancedFields ==
  ASSUME NEW y, Good(y), NEW length \in {1, 2, 4}, NEW x, x = Advanced(y, length),
         y.pc \in Code \/ (length # 1 /\ y.pc - 1 \in Code) \/ (length = 2 /\ y.pc + 1 \in Code)
  PROVE  x \in Machines /\ Same(x, y) /\ x.a6 = y.a6 /\ x.pc = y.pc + length
<1>1. PICK target : target = y.pc + length
  OBVIOUS
<1>2. y.pc \in Int
  BY Numbers DEF Good, Machines
<1>3. target \in Pcs
  <2>1. CASE y.pc \in Code
    <3>1. length \in 1 .. 5
      OBVIOUS
    <3>2. QED
      BY <1>1, <2>1, <3>1 DEF Pcs
  <2>2. CASE length # 1 /\ y.pc - 1 \in Code
    <3>1. PICK n, k : n \in Code /\ n = y.pc - 1 /\ k = length + 1
      BY <2>2
    <3>2. target = n + k /\ n \in Code /\ k \in 1 .. 5
      BY <1>1, <1>2, <2>2, <3>1
    <3>3. QED
      BY <3>2 DEF Pcs
  <2>3. CASE length = 2 /\ y.pc + 1 \in Code
    <3>1. PICK n, k : n \in Code /\ n = y.pc + 1 /\ k = 1
      BY <2>3
    <3>2. target = n + k /\ n \in Code /\ k \in 1 .. 5
      BY <1>1, <1>2, <2>3, <3>1
    <3>3. QED
      BY <3>2 DEF Pcs
  <2>4. QED
    BY <2>1, <2>2, <2>3
<1>4. x = [y EXCEPT !.pc = target]
  BY <1>1 DEF Advanced
<1>5. QED
  BY <1>1, <1>3, <1>4, MovedFields

\* An instruction whose operand faults goes on after the exception.
LEMMA FaultSteps ==
  ASSUME Good(core), BeginInv, OperandFault
  PROVE  Good(core') /\ Steps(core, core')
<1>1. PICK m, x : m = Fetched /\ x = core'
  OBVIOUS
<1>2. PICK v \in Int : GoesOn(exception_do_exception(m, v))
  BY <1>1 DEF OperandFault
<1>3. Executed(m) /\ pc_instruction_begin \in Pcs /\ x \in exception_do_exception(m, v)
  BY <1>1, <1>2, ExecutesFetched
<1>4. Good(x) /\ Steps(core, x)
  BY <1>3, RaisedIsGood
<1>5. QED
  BY <1>1, <1>4

\* A fetch through the pc skips a part of the handler when it faults.
LEMMA FetchSteps ==
  ASSUME Good(core), BeginInv, Memory_RetrFromPC
  PROVE  Good(core') /\ Steps(core, core')
<1>1. PICK m, x : m = Fetched /\ x = core'
  OBVIOUS
<1>2. PICK first, length, outcomes :
        /\ (first = 1 /\ length = 2) \/ (first = 0 /\ length \in {2, 4})
        /\ outcomes = IF InMemory(NextWord + first) THEN {Advanced(m, length)}
                      ELSE {Advanced(y, length - first) : y \in exception_do_exception(m, 2)}
        /\ GoesOn(outcomes)
  <2>1. PICK first, length :
          /\ (first = 1 /\ length = 2) \/ (first = 0 /\ length \in {2, 4})
          /\ Fetches(first, length)
    BY DEF Memory_RetrFromPC
  <2>2. QED
    BY <1>1, <2>1 DEF Fetches
<1>3. /\ Executed(m) /\ Executing
      /\ pc_instruction_begin \in Code /\ pc_instruction_begin \in Pcs
      /\ x \in IF InMemory(NextWord + first) THEN {Advanced(m, length)}
               ELSE {Advanced(y, length - first) : y \in exception_do_exception(m, 2)}
  BY <1>1, <1>2, ExecutesFetched
<1>4. CASE InMemory(NextWord + first)
  <2>1. x = Advanced(m, length) /\ length \in {1, 2, 4} /\ length # 1
    BY <1>2, <1>3, <1>4
  <2>2. Good(m) /\ ContextsOf(m) = ContextsOf(core) /\ m.pc = NextWord /\ m.pc \in Int
    <3>1. NextWord \in Int
      BY <1>3, NextWordType, Numbers
    <3>2. QED
      BY <1>1, <1>3, <3>1, FetchedFields
  <2>3. m.pc \in Code \/ m.pc - 1 \in Code \/ (length = 2 /\ m.pc + 1 \in Code)
    <3>1. CASE first = 1
      <4>1. length = 2 /\ (m.pc + 1 \in Code \/ m.pc + 1 - 1 \in Code)
        BY <1>2, <1>4, <2>2, <3>1 DEF InMemory
      <4>2. m.pc + 1 - 1 = m.pc
        BY <2>2
      <4>3. QED
        BY <4>1, <4>2
    <3>2. CASE first = 0
      <4>1. NextWord + first = m.pc
        BY <1>2, <2>2, <3>2
      <4>2. QED
        BY <1>4, <4>1 DEF InMemory
    <3>3. QED
      BY <1>2, <3>1, <3>2
  <2>4. x \in Machines /\ Same(x, m)
    BY <2>1, <2>2, <2>3, AdvancedFields
  <2>5. Good(x) /\ ContextsOf(x) = ContextsOf(core)
    BY <2>2, <2>4, SameStack
  <2>6. QED
    BY <1>1, <2>5, StepsWithoutLocals
<1>5. CASE ~ InMemory(NextWord + first)
  <2>1. PICK y \in exception_do_exception(m, 2), past \in {1, 2, 4} : x = Advanced(y, past)
    <3>1. length - first \in {1, 2, 4}
      BY <1>2
    <3>2. QED
      BY <1>3, <1>5, <3>1
  <2>2. y \in Machines /\ y.pc \in Code
    BY <1>3, <2>1, RaisedInCode
  <2>3. PICK v \in Int : v = 2
    OBVIOUS
  <2>4. y \in exception_do_exception(m, v) /\ v = 2
    BY <2>1, <2>3
  <2>5. Good(y)
    BY <1>3, <2>4, RaisedIsGood
  <2>6. x \in Machines /\ Same(x, y) /\ x.a6 = y.a6 /\ x.pc = y.pc + past
    BY <2>1, <2>2, <2>5, AdvancedFields
  <2>7. x.pc \in {y.pc + k : k \in Skips}
    BY <2>6 DEF Skips
  <2>8. Good(x) /\ Steps(core, x)
    BY <1>3, <2>4, <2>6, <2>7, RaisedIsGood
  <2>9. QED
    BY <1>1, <2>8
<1>6. QED
  BY <1>4, <1>5

\* A new stack pointer.
LEMMA MOVE_A7Steps ==
  ASSUME Good(core), MOVE_A7
  PROVE  Good(core') /\ Steps(core, core')
<1>1. PICK m, x : m = Fetched /\ x = core'
  OBVIOUS
<1>2. Executing /\ \E sp \in {InitialSP, BadSP} : x = SetStackPointer(m, sp)
  BY <1>1 DEF MOVE_A7, Executes
<1>3. m \in Machines
  BY <1>1, <1>2, FetchedFields
<1>4. Good(x) /\ ContextsOf(x) = <<>>
  BY <1>2, <1>3, FreshIsGood DEF Bases
<1>5. QED
  BY <1>1, <1>4, StepsWithoutLocals DEF Abandoned

\* Every instruction keeps the stack good and does to the contexts what Contexts allows.
LEMMA InstructionSteps ==
  ASSUME Good(core), BeginInv, Instruction
  PROVE  Good(core') /\ Steps(core, core')
BY PlainSteps, PushingSteps, RTSSteps, UNLKSteps, RTESteps, TrapSteps, StatusSteps, MOVE_A7Steps,
   FaultSteps, FetchSteps DEF Instruction

-----------------------------------------------------------------------------
(* The loop. *)

\* The exceptions of the loop: a pc or a word without an instruction, a trace, a stop.
LEMMA LoopExceptionSteps ==
  ASSUME Good(core), BeginInv, BadPc \/ BadWord \/ Trace \/ Stop
  PROVE  Good(core') /\ Steps(core, core')
<1>1. PICK m, x : m = core /\ x = core' /\ Executed(m)
  BY DEF Executed, BeginInv
<1>2. \E v \in {2, 3, 4, 9, 31} : x \in exception_do_exception(m, v)
  BY <1>1 DEF BadPc, BadWord, Continues, Trace, Stop
<1>3. PICK v \in Int : x \in exception_do_exception(m, v)
  BY <1>2
<1>4. pc_instruction_begin \in Pcs
  BY DEF BadPc, BadWord, Continues, Trace, Stop, BeginInv
<1>5. Good(x) /\ Steps(core, x)
  BY <1>1, <1>3, <1>4, RaisedIsGood
<1>6. QED
  BY <1>1, <1>5

\* What an interrupt leaves: b is the stack before, or the repaired one, and the input n is
\* the one that is acknowledged.
Delivers(x, b, n, vector) ==
  /\ Good(b) /\ Fits(b) /\ b.a6 = core.a6 /\ b.sr.i = core.sr.i
  /\ IF Fits(core) THEN b = core ELSE ContextsOf(b) = <<>>
  /\ ContextsOf(b) = <<>> => Abandoned(ContextsOf(x))
  /\ n \in IPR /\ core.sr.i < ICR[n] /\ \A k \in IPR : ICR[k] <= ICR[n]
  /\ vector = IF n \in Autovectored THEN 24 + ICR[n] ELSE Device[n]
  /\ Raised(x, b, PcToPush(core, vector))
  /\ IF vector \in DOMAIN Handler
     THEN Entered(x, b, vector, PcToPush(core, vector), ICR[n], ICR[n])
     ELSE Returned(x, b, PcToPush(core, vector))

\* The level that the loop picks is the highest one, and an input of that level is the one
\* whose vector is read.
LEMMA InterruptDelivers ==
  ASSUME IInv, exception_check_and_handle, Deliverable # {}
  PROVE  \E b, n, vector : Delivers(core', b, n, vector)
<1>1. SimTypes /\ posted = {ICR[n] : n \in IPR} /\ Good(core)
      /\ \A n \in IPR : interrupt_acknowledge[n] = Device[n]
  BY DEF IInv, SimInv, Posted5307, LoopInv
<1>2. PICK l : l = CHOOSE j \in Deliverable : \A k \in Deliverable : k <= j
  OBVIOUS
<1>3. l \in Deliverable /\ \A k \in Deliverable : k <= l
  <2>1. \A k \in Deliverable : k \in Levels
    BY <1>1 DEF Deliverable, SimTypes
  <2>2. \E k \in Deliverable : \A j \in Deliverable : j <= k
    BY <2>1, HighestLevel
  <2>3. QED
    BY <1>2, <2>2
<1>4. l \in posted /\ l > core.sr.i
  BY <1>3 DEF Deliverable
<1>5. l \in Levels /\ PendingAt(l) # {}
  BY <1>1, <1>4 DEF SimTypes, PendingAt
<1>6. PICK n \in PendingAt(l) :
        sim_iack_func(l) = IF n \in Autovectored THEN 24 + l ELSE interrupt_acknowledge[n]
  BY <1>1, <1>5, AcknowledgesPending
<1>7. n \in IPR /\ ICR[n] = l
  BY DEF PendingAt
<1>8. /\ core.sr.i \in Nat /\ core \in Machines /\ core.pc \in Pcs /\ l \in Nat
      /\ pc_instruction_begin \in Pcs
  <2>1. core.sr.i \in Nat /\ core \in Machines /\ core.pc \in Pcs /\ l \in Nat
    BY <1>1, <1>5, Numbers DEF Good, Machines, SRs
  <2>2. pc_instruction_begin \in Pcs
    BY <1>7 DEF IInv, BeginInv
  <2>3. QED
    BY <2>1, <2>2
<1>9. \A k \in IPR : ICR[k] <= ICR[n]
  <2>1. ASSUME NEW k \in IPR PROVE ICR[k] <= l
    <3>1. ICR[k] \in posted /\ ICR[k] \in Nat
      BY <1>1, Numbers DEF SimTypes
    <3>2. CASE ICR[k] > core.sr.i
      BY <1>3, <3>1, <3>2 DEF Deliverable
    <3>3. CASE ~ ICR[k] > core.sr.i
      BY <1>4, <1>8, <3>1, <3>3
    <3>4. QED
      BY <3>2, <3>3
  <2>2. QED
    BY <1>7, <2>1
<1>10. PICK vector : vector = sim_iack_func(l)
  OBVIOUS
<1>11. vector \in Int /\ vector = IF n \in Autovectored THEN 24 + ICR[n] ELSE Device[n]
  BY <1>1, <1>5, <1>6, <1>7, <1>10, AcknowledgeType
<1>12. PICK x, m : x = core' /\ m = core
  OBVIOUS
<1>13. PICK p \in exception_push_stack_frame(m, vector, l) :
         x \in exception_do_raw_exception([p EXCEPT !.sr.i = l], vector)
  BY <1>2, <1>10, <1>12 DEF exception_check_and_handle, Interrupted
<1>14. m \in Machines /\ (Fits(m) => Good(m))
  BY <1>1, <1>8, <1>12
<1>15. PICK b : /\ p = Framed(b, vector, PcToPush(m, vector), l)
                /\ Good(b) /\ Fits(b) /\ b.a6 = m.a6 /\ b.sr.i = m.sr.i
                /\ IF Fits(m) THEN b = m ELSE b.layout = <<>> /\ ContextsOf(b) = <<>>
  BY <1>14, PushFrame
<1>16. PICK saved : saved = PcToPush(m, vector)
  OBVIOUS
<1>17. saved \in Pcs /\ p = Framed(b, vector, saved, l)
  BY <1>8, <1>12, <1>15, <1>16 DEF PcToPush
<1>18. PICK q : q = [p EXCEPT !.sr.i = l]
  OBVIOUS
<1>19. q.sr.i = l
  <2>1. b \in Machines
    BY <1>15 DEF Good
  <2>2. p \in Machines
    BY <1>5, <1>11, <1>15, <1>17, <2>1, FramedFields
  <2>3. PICK sr : sr = [p.sr EXCEPT !.i = l]
    OBVIOUS
  <2>4. sr.i = l
    BY <2>2, <2>3 DEF Machines, SRs
  <2>5. QED
    BY <1>18, <2>2, <2>3, <2>4 DEF Machines
<1>20. b.sr.i < l
  BY <1>4, <1>8, <1>12, <1>15
<1>21. /\ Raised(x, b, saved) /\ (ContextsOf(b) = <<>> => Abandoned(ContextsOf(x)))
       /\ IF vector \in DOMAIN Handler THEN Entered(x, b, vector, saved, l, q.sr.i)
                                       ELSE Returned(x, b, saved)
  BY <1>5, <1>11, <1>13, <1>15, <1>17, <1>18, <1>20, RaisedOn
<1>22. Delivers(x, b, n, vector)
  BY <1>4, <1>7, <1>9, <1>11, <1>12, <1>15, <1>16, <1>19, <1>21 DEF Delivers
<1>23. QED
  BY <1>12, <1>22

\* An interrupt, or none.
LEMMA CheckSteps ==
  ASSUME IInv, exception_check_and_handle
  PROVE  Good(core') /\ Steps(core, core')
<1>1. CASE Deliverable = {}
  BY <1>1 DEF exception_check_and_handle, IInv, Steps
<1>2. CASE Deliverable # {}
  <2>1. PICK x : x = core'
    OBVIOUS
  <2>2. PICK b, n, vector : Delivers(x, b, n, vector)
    BY <1>2, <2>1, InterruptDelivers
  <2>3. Good(x) /\ x.a6 = core.a6
    BY <2>2 DEF Delivers, Raised
  <2>4. CASE Fits(core)
    <3>1. PICK saved : saved = PcToPush(core, vector)
      OBVIOUS
    <3>2. Raised(x, core, saved) /\ saved \in Savable
      BY <2>2, <2>4, <3>1 DEF Delivers, PcToPush, Savable, NextWord, exception_check_and_handle
    <3>3. QED
      BY <2>1, <2>3, <3>2, StepsWithoutLocals DEF Raised
  <2>5. CASE ~ Fits(core)
    <3>1. Abandoned(ContextsOf(x))
      BY <2>2, <2>5 DEF Delivers
    <3>2. QED
      BY <2>1, <2>3, <3>1, StepsWithoutLocals
  <2>6. QED
    BY <2>4, <2>5
<1>3. QED
  BY <1>1, <1>2

\* Every step of the loop.
LEMMA NextSteps ==
  ASSUME IInv, Next
  PROVE  Good(core') /\ Steps(core, core')
<1>1. Good(core) /\ BeginInv
  BY DEF IInv
<1>2. CASE Setup \/ memory_update \/ sigint
  BY <1>1, <1>2 DEF Setup, memory_update, sigint, Steps
<1>3. CASE exception_check_and_handle
  BY <1>3, CheckSteps
<1>4. CASE Instruction
  BY <1>1, <1>4, InstructionSteps
<1>5. CASE BadPc \/ BadWord \/ Trace \/ Stop
  BY <1>1, <1>5, LoopExceptionSteps
<1>6. QED
  BY <1>2, <1>3, <1>4, <1>5 DEF Next

\* The count of events stays within its bound.
LEMMA EventsAreBounded ==
  ASSUME LoopInv, events' = events \/ Counted
  PROVE  events' \in 0 .. MaxEvents
<1>1. PICK m, n, max : m = events /\ n = events' /\ max = MaxEvents
  OBVIOUS
<1>2. m \in Nat /\ max \in Nat /\ m <= max /\ (n = m \/ (m < max /\ n = m + 1))
  BY <1>1, ExceptionsAssumption DEF LoopInv, Counted
<1>3. n \in 0 .. max
  BY <1>2
<1>4. QED
  BY <1>1, <1>3

\* The instructions leave the interrupt controller alone, but for its writes.
LEMMA InstructionFrame ==
  ASSUME Instruction, LoopInv
  PROVE  /\ sim_write \/ UNCHANGED simVars
         /\ phase' \in {"operands", "trace", "stop", "update"} /\ stop_now' = stop_now
         /\ events' \in 0 .. MaxEvents
         /\ pc_instruction_begin' = pc_instruction_begin
         /\ phase \in {"execute", "operands"}
         /\ phase' = "operands" => phase = "operands" \/ core.pc \in Code
<1>1. events' = events \/ Counted
  BY DEF Instruction, HALT, JMP, JSR, PEA, LINK, RTS, UNLK, RTE, TRAP, ILLEGAL, STOP, MOVEXR,
         MOVEC, MOVE_A7, OperandFault, Memory_RetrFromPC, WriteSim
<1>2. /\ sim_write \/ UNCHANGED simVars
      /\ phase' \in {"operands", "trace", "stop", "update"} /\ stop_now' = stop_now
      /\ pc_instruction_begin' = pc_instruction_begin
      /\ phase \in {"execute", "operands"}
      /\ phase' = "operands" => phase = "operands" \/ core.pc \in Code
  <2>1. CASE WriteSim
    BY <2>1 DEF WriteSim, Executing, Ends, AfterTrace
  <2>3. CASE OperandFault \/ Memory_RetrFromPC
    <3>1. PICK outcomes : GoesOn(outcomes)
      BY <2>3 DEF OperandFault, Memory_RetrFromPC, Fetches
    <3>2. QED
      BY <3>1 DEF GoesOn, Executing
  <2>4. CASE ~ WriteSim /\ ~ OperandFault /\ ~ Memory_RetrFromPC
    <3>1. PICK outcomes : Executes(outcomes)
      BY <2>4 DEF Instruction, HALT, JMP, JSR, PEA, LINK, RTS, UNLK, RTE, TRAP, ILLEGAL, STOP,
                  MOVEXR, MOVEC, MOVE_A7
    <3>2. QED
      BY <3>1 DEF Executes, Executing, Ends, AfterTrace
  <2>5. QED
    BY <2>1, <2>3, <2>4
<1>3. events' \in 0 .. MaxEvents
  BY <1>1, EventsAreBounded
<1>4. QED
  BY <1>2, <1>3

\* The controller and the loop keep what is said of them.
LEMMA NextKeepsTheRest ==
  ASSUME SimInv, LoopInv, Next
  PROVE  SimInv' /\ LoopInv'
<1>1. CASE UNCHANGED simVars
  <2>1. SimInv'
    BY <1>1 DEF simVars, SimInv, SimTypes, Counted5307, Posted5307, PendingIsUnmasked, PendingAt
  <2>2. /\ phase' \in {"check", "execute", "operands", "trace", "stop", "update"} \/ phase' = phase
        /\ stop_now' \in BOOLEAN /\ events' \in 0 .. MaxEvents
    <3>1. CASE Instruction
      BY <3>1, InstructionFrame DEF LoopInv
    <3>2. CASE ~ Instruction
      <4>1. /\ phase' \in {"check", "execute", "operands", "trace", "stop", "update"} \/ phase' = phase
            /\ stop_now' \in BOOLEAN /\ (events' = events \/ Counted)
        BY <3>2 DEF Next, LoopInv, Setup, exception_check_and_handle, BadPc, BadWord, Continues, Trace,
                    Stop, memory_update, sigint, AfterTrace
      <4>2. QED
        BY <4>1, EventsAreBounded
    <3>3. QED
      BY <3>1, <3>2
  <2>3. QED
    BY <1>1, <2>1, <2>2 DEF LoopInv, simVars
<1>2. CASE sim_write /\ Instruction
  <2>1. SimInv'
    BY <1>2, WriteKeepsSimInv
  <2>2. QED
    BY <1>2, <2>1, InstructionFrame DEF LoopInv, sim_write
<1>3. CASE Setup
  <2>1. IPR = {} /\ \E levels \in [Inputs -> Levels] : sim_setup(levels)
    BY <1>3, ExceptionsAssumption DEF Setup, LoopInv
  <2>2. SimInv'
    BY <2>1, WriteKeepsSimInv
  <2>3. QED
    BY <1>3, <2>1, <2>2 DEF Setup, LoopInv, sim_setup
<1>4. CASE memory_update
  <2>1. /\ phase' \in {"check", "update"} /\ stop_now' \in BOOLEAN /\ events' \in 0 .. MaxEvents
    BY <1>4, EventsAreBounded DEF memory_update, LoopInv
  <2>2. ASSUME NEW n \in Inputs, sim_interrupt_assert(n, Device[n])
        PROVE  SimInv' /\ \A k \in IPR' : interrupt_acknowledge'[k] = Device[k]
    <3>1. Device[n] \in 0 .. 255
      BY ExceptionsAssumption, Sim5307Assumption
    <3>2. SimInv'
      BY <2>2, <3>1, AssertKeepsSimInv
    <3>3. interrupt_acknowledge \in [Inputs -> 0 .. 255] /\ IPR \subseteq Inputs
      BY DEF SimInv, SimTypes
    <3>4. QED
      BY <2>2, <3>2, <3>3 DEF LoopInv, sim_interrupt_assert, simVars
  <2>3. ASSUME NEW n \in Inputs, sim_interrupt_withdraw(n)
        PROVE  SimInv' /\ \A k \in IPR' : interrupt_acknowledge'[k] = Device[k]
    <3>1. SimInv'
      BY <2>3, WithdrawKeepsSimInv
    <3>2. interrupt_acknowledge \in [Inputs -> 0 .. 255] /\ IPR \subseteq Inputs
      BY DEF SimInv, SimTypes
    <3>3. QED
      BY <2>3, <3>1, <3>2 DEF LoopInv, sim_interrupt_withdraw, simVars
  <2>4. CASE ~ UNCHANGED simVars
    BY <1>4, <2>1, <2>2, <2>3, <2>4 DEF memory_update, LoopInv
  <2>5. QED
    BY <1>1, <2>4
<1>5. CASE ~ UNCHANGED simVars /\ ~ Setup /\ ~ memory_update
  <2>1. Instruction
    BY <1>5 DEF Next, exception_check_and_handle, BadPc, BadWord, Continues, Trace, Stop, sigint
  <2>2. QED
    BY <1>2, <1>5, <2>1, InstructionFrame
<1>6. QED
  BY <1>1, <1>3, <1>4, <1>5

\* The address of the instruction stays known, from its fetch until the next one.
LEMMA NextKeepsBegin ==
  ASSUME LoopInv, BeginInv, Next, Good(core')
  PROVE  BeginInv'
<1>1. CASE exception_check_and_handle
  <2>1. core'.pc \in Pcs
    BY DEF Good, Machines
  <2>2. QED
    BY <1>1, <2>1 DEF exception_check_and_handle, BeginInv
<1>2. CASE Instruction
  BY <1>2, InstructionFrame DEF BeginInv
<1>3. CASE Setup
  BY <1>3 DEF Setup, sim_setup, LoopInv, BeginInv
<1>4. CASE memory_update
  BY <1>4 DEF memory_update, BeginInv
<1>5. CASE BadPc \/ BadWord \/ Trace \/ Stop
  BY <1>5 DEF BadPc, BadWord, Continues, Trace, Stop, AfterTrace, BeginInv
<1>6. CASE sigint
  BY <1>6 DEF sigint, simVars, BeginInv
<1>7. QED
  BY <1>1, <1>2, <1>3, <1>4, <1>5, <1>6 DEF Next

\* An instruction begins where the one before, or an interrupt, has put the pc.
LEMMA BeginRefines ==
  ASSUME Next, LoopInv
  PROVE  pc_instruction_begin' \in {pc_instruction_begin, core'.pc}
<1>1. CASE Instruction
  BY <1>1, InstructionFrame
<1>2. CASE ~ Instruction
  BY <1>2 DEF Next, Setup, exception_check_and_handle, BadPc, BadWord, Continues, Trace, Stop,
              memory_update, sigint
<1>3. QED
  BY <1>1, <1>2

-----------------------------------------------------------------------------
(* The theorems. *)

\* The first state is the reset.
LEMMA InitInv == Init => IInv
<1> SUFFICES ASSUME Init PROVE IInv
  OBVIOUS
<1>1. SimInv /\ IPR = {}
  BY SimInitInv DEF Init, SimInit
<1>2. LoopInv
  <2>1. 0 \in 0 .. MaxEvents
    BY ExceptionsAssumption
  <2>2. QED
    BY <1>1, <2>1 DEF Init, LoopInv
<1>3. PICK pc, ram :
        /\ pc \in Code /\ ram = [a \in Stack |-> Long(0)]
        /\ core = [pc |-> pc, a7 |-> InitialSP, a6 |-> 0, sr |-> Cleared, ram |-> ram,
                   layout |-> <<>>, trace |-> 0]
  BY DEF Init
<1>4. /\ pc \in Pcs /\ InitialSP \in Int /\ 0 \in FramePointers /\ Cleared \in SRs
      /\ <<>> \in Seq(Entries) /\ 0 \in -1 .. MaxTrace
  BY <1>3, Numbers, ExceptionsAssumption DEF Pcs, FramePointers, Cleared, SRs
<1>5. ram \in [Stack -> Longwords]
  BY <1>3, <1>4 DEF Long, Longwords
<1>6. core \in Machines /\ core.layout = <<>> /\ core.a7 = InitialSP
  BY <1>3, <1>4, <1>5 DEF Machines
<1>7. Good(core)
  BY <1>6, EmptyIsGood DEF Bases
<1>8. BeginInv
  BY <1>1 DEF Init, BeginInv
<1>9. QED
  BY <1>1, <1>2, <1>7, <1>8 DEF IInv

\* The invariant is kept by every step.
LEMMA NextInv == IInv /\ [Next]_vars => IInv'
<1> SUFFICES ASSUME IInv, [Next]_vars PROVE IInv'
  OBVIOUS
<1>1. CASE Next
  BY <1>1, NextSteps, NextKeepsTheRest, NextKeepsBegin DEF IInv
<1>2. CASE UNCHANGED vars
  <2>1. SimInv' /\ LoopInv' /\ BeginInv'
    BY <1>2 DEF IInv, vars, simVars, SimInv, SimTypes, Counted5307, Posted5307,
                PendingIsUnmasked, PendingAt, LoopInv, BeginInv
  <2>2. core' = core /\ Good(core)
    BY <1>2 DEF vars, IInv
  <2>3. QED
    BY <2>1, <2>2 DEF IInv
<1>3. QED
  BY <1>1, <1>2

\* The inductive invariant holds in every reachable state.
THEOREM InvariantHolds == Spec => []IInv
  BY InitInv, NextInv, PTL DEF Spec

\* The types that the model gives to the core, the loop and the controller.
THEOREM TypeCorrect == Spec => []TypeOK
<1>1. IInv => TypeOK
  <2> SUFFICES ASSUME IInv PROVE TypeOK
    OBVIOUS
  <2>1. /\ SimTypes /\ posted = {ICR[n] : n \in IPR} /\ LoopInv /\ BeginInv
        /\ Good(core) /\ core \in Machines /\ Dense(core)
    BY DEF IInv, SimInv, Posted5307, Good
  <2>2. posted \subseteq Levels /\ IPR \subseteq Inputs /\ IMR \subseteq Inputs
    BY <2>1 DEF SimTypes
  <2>3. core.a7 \in Stack \cup {InitialSP, BadSP}
    BY <2>1, StackPointers
  <2>4. StackIsDense
    <3>1. ASSUME NEW k \in 1 .. Len(core.layout)
          PROVE  /\ core.layout[k].at =
                      IF k = 1 THEN core.a7
                      ELSE core.layout[k - 1].at + Size(core.layout[k - 1])
                 /\ core.layout[k].at \in Stack
                 /\ core.layout[k].at + Size(core.layout[k]) - 4 \in Stack
      <4>1. Len(core.layout) \in Nat /\ core.layout[k].at \in Stack
        BY <2>1, LayoutTypes
      <4>2. core.layout # <<>>
        BY <4>1
      <4>3. k = 1 => core.layout[k].at = core.a7
        BY <2>1, <4>2 DEF Dense
      <4>4. ASSUME k # 1 PROVE core.layout[k].at = End(core.layout[k - 1])
        <5>1. PICK j : j = k - 1
          OBVIOUS
        <5>2. j \in 1 .. Len(core.layout) - 1 /\ j + 1 = k
          BY <4>1, <4>4, <5>1
        <5>3. core.layout[j + 1].at = End(core.layout[j])
          BY <2>1, <5>2 DEF Dense
        <5>4. QED
          BY <5>1, <5>2, <5>3
      <4>5. End(core.layout[k]) - 4 \in Stack
        BY <2>1 DEF Dense
      <4>6. core.layout[k].at + Size(core.layout[k]) - 4 \in Stack
        <5>1. core.layout[k].at \in Nat /\ Size(core.layout[k]) \in Int
          BY <2>1, LayoutTypes
        <5>2. QED
          BY <4>5, <5>1 DEF End
      <4>7. core.layout[k].at =
              IF k = 1 THEN core.a7
              ELSE core.layout[k - 1].at + Size(core.layout[k - 1])
        BY <4>3, <4>4 DEF End
      <4>8. QED
        BY <4>1, <4>6, <4>7
    <3>2. QED
      BY <3>1 DEF StackIsDense, Size
  <2>5. /\ core.pc \in Pcs /\ core.sr \in SRs /\ core.trace \in -1 .. MaxTrace
        /\ core.a6 \in Stack \cup {0, InitialSP} /\ \A a \in Stack : core.ram[a].sr \in SRs
    BY <2>1 DEF Machines, Longwords, FramePointers
  <2>6. QED
    BY <2>1, <2>2, <2>3, <2>4, <2>5 DEF TypeOK, LoopInv, BeginInv
<1>2. QED
  BY <1>1, InvariantHolds, PTL

\* Handlers interrupt each other upwards only, however many devices, levels and handlers
\* there are and whatever the guest does between two interrupts.
THEOREM NestingIsUpwards == Spec => []InterruptsNestUpwards
<1>1. IInv => InterruptsNestUpwards
  <2> SUFFICES ASSUME IInv PROVE InterruptsNestUpwards
    OBVIOUS
  <2>1. core \in Machines /\ Nested(core)
    BY DEF IInv, Good
  <2>2. DOMAIN core.layout = 1 .. Len(core.layout)
    BY <2>1, LayoutTypes, LenProperties
  <2>3. QED
    BY <2>1, <2>2 DEF InterruptsNestUpwards, Nested
<1>2. QED
  BY <1>1, InvariantHolds, PTL

\* What is posted to the core are the levels with a pending input, and each is counted.
THEOREM PostedArePending == Spec => []PostedAreTheLevelsPending
<1>1. IInv => PostedAreTheLevelsPending
  BY DEF IInv, SimInv, Counted5307, Posted5307, PendingAt, PostedAreTheLevelsPending
<1>2. QED
  BY <1>1, InvariantHolds, PTL

\* The stack in memory implements the stack of contexts: a return, from a call, a frame or
\* an exception, brings back what was saved, for every memory and every program; also
\* when an instruction faults several times, displaces the stack pointer after a fault,
\* or is followed by an interrupt that saves where it began.
THEOREM StackKeepsContexts == Spec => ImplementsContexts
<1>1. SavedContexts = ContextsOf(core)
  BY DEF SavedContexts, ContextsOf, ContextOf
<1>2. Init => C!Init
  <2> SUFFICES ASSUME Init PROVE C!Init
    OBVIOUS
  <2>1. IInv /\ core.layout = <<>> /\ core.a7 = InitialSP
    BY InitInv DEF Init
  <2>2. ContextsOf(core) = <<>>
    BY <2>1, EmptyIsGood DEF IInv, Good, Bases
  <2>3. QED
    BY <1>1, <2>2 DEF C!Init
<1>3. IInv /\ [Next]_vars => [C!Next]_C!vars
  <2> SUFFICES ASSUME IInv, [Next]_vars PROVE [C!Next]_C!vars
    OBVIOUS
  <2>1. CASE Next
    <3>1. C!Step
      BY <2>1, NextSteps, StepsRefine
    <3>2. pc_instruction_begin' \in {pc_instruction_begin, core'.pc}
      BY <2>1, BeginRefines DEF IInv
    <3>3. NextWord' \in {core'.pc, core'.pc + 2}
      BY DEF NextWord
    <3>4. QED
      BY <3>1, <3>2, <3>3 DEF C!Next
  <2>2. CASE UNCHANGED vars
    BY <2>2 DEF vars, C!vars, SavedContexts, NextWord
  <2>3. QED
    BY <2>1, <2>2
<1>4. QED
  BY <1>2, <1>3, InvariantHolds, PTL DEF Spec, C!Spec, ImplementsContexts

\* At the top of the loop the highest pending input above the mask is delivered, with its
\* vector, and nothing is when there is none: for every set of inputs, levels and handlers.
THEOREM PendingAreDelivered == Spec => DeliversPendingInputs
<1> DEFINE Delivery ==
      phase = "check" =>
        IF \A n \in IPR : ICR[n] <= core.sr.i THEN UNCHANGED core
        ELSE \E n \in IPR \ IMR :
               LET vector == IF n \in Autovectored THEN 24 + ICR[n] ELSE Device[n]
               IN /\ \A m \in IPR : ICR[m] <= ICR[n]
                  /\ core'.sr.i = IF vector \in DOMAIN Handler THEN ICR[n] ELSE core.sr.i
                  /\ vector \in DOMAIN Handler =>
                       core'.pc = Handler[vector] /\ core'.ram[core'.a7].word = vector
<1>1. ASSUME IInv, exception_check_and_handle PROVE Delivery
  <2>1. /\ \A n \in IPR : ICR[n] \in posted /\ ICR[n] \in Nat
        /\ \A l \in posted : \E n \in IPR : l = ICR[n]
        /\ core.sr.i \in Nat /\ IPR \cap IMR = {}
    <3>1. posted = {ICR[n] : n \in IPR} /\ SimTypes /\ IPR \cap IMR = {} /\ core \in Machines
      BY <1>1 DEF IInv, SimInv, Posted5307, PendingIsUnmasked, Good
    <3>2. core.sr.i \in Levels
      BY <3>1 DEF Machines, SRs
    <3>3. \A n \in IPR : ICR[n] \in Levels
      BY <3>1 DEF SimTypes
    <3>4. QED
      BY <3>1, <3>2, <3>3, Numbers
  <2>2. CASE Deliverable = {}
    <3>1. UNCHANGED core
      BY <1>1, <2>2 DEF exception_check_and_handle
    <3>2. \A n \in IPR : ICR[n] <= core.sr.i
      BY <2>1, <2>2 DEF Deliverable
    <3>3. QED
      BY <3>1, <3>2
  <2>3. CASE Deliverable # {}
    <3>1. PICK x : x = core'
      OBVIOUS
    <3>2. PICK b, n, vector : Delivers(x, b, n, vector)
      BY <1>1, <2>3, <3>1, InterruptDelivers
    <3>3. /\ n \in IPR \ IMR /\ ~ ICR[n] <= core.sr.i /\ \A m \in IPR : ICR[m] <= ICR[n]
          /\ vector = IF n \in Autovectored THEN 24 + ICR[n] ELSE Device[n]
      BY <2>1, <3>2 DEF Delivers
    <3>4. /\ x.sr.i = IF vector \in DOMAIN Handler THEN ICR[n] ELSE core.sr.i
          /\ vector \in DOMAIN Handler => x.pc = Handler[vector] /\ x.ram[x.a7].word = vector
      <4>1. CASE vector \in DOMAIN Handler
        <5>1. Entered(x, b, vector, PcToPush(core, vector), ICR[n], ICR[n])
          BY <3>2, <4>1 DEF Delivers
        <5>2. QED
          BY <4>1, <5>1 DEF Entered
      <4>2. CASE vector \notin DOMAIN Handler
        <5>1. x.sr.i = b.sr.i /\ b.sr.i = core.sr.i
          BY <3>2, <4>2 DEF Delivers, Returned, Same
        <5>2. QED
          BY <4>2, <5>1
      <4>3. QED
        BY <4>1, <4>2
    <3>5. QED
      BY <3>1, <3>3, <3>4
  <2>4. QED
    BY <2>2, <2>3
<1>2. IInv /\ [Next]_vars => [Delivery]_<<core, phase>>
  <2> SUFFICES ASSUME IInv, [Next]_vars, phase = "check", ~ UNCHANGED <<core, phase>>
               PROVE  Delivery
    OBVIOUS
  <2>1. exception_check_and_handle
    BY DEF vars, Next, Setup, Instruction, HALT, JMP, JSR, PEA, LINK, RTS, UNLK, RTE, TRAP,
           ILLEGAL, STOP, MOVEXR, MOVEC, MOVE_A7, OperandFault, Memory_RetrFromPC, WriteSim,
           Fetches, Executes, GoesOn, Executing, BadPc, BadWord, Continues, Trace, Stop, memory_update,
           sigint
  <2>2. QED
    BY <1>1, <2>1
<1>3. QED
  BY <1>2, InvariantHolds, PTL DEF Spec, DeliversPendingInputs
=============================================================================
