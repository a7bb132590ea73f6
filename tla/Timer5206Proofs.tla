-------------------------- MODULE Timer5206Proofs --------------------------
(***************************************************************************)
(* Proofs about Timer5206: before the cycle counter wraps, its timing is   *)
(* right for every rate, every cost of an instruction and every size of    *)
(* the counters.                                                           *)
(***************************************************************************)
EXTENDS Timer5206, TLAPS

USE TimerAssumption DEF TimerAssumption

\* Below its modulus a number is its own remainder.
LEMMA ModSmall == \A x, w \in Nat : x < w => x % w = x
  OBVIOUS

\* A remainder is below the modulus.
LEMMA ModRange == \A x \in Nat, w \in Nat \ {0} : x % w \in 0 .. w - 1
  OBVIOUS

\* The inductive invariant: a running timer has a clock, and no tick is scheduled
\* beyond the range of the cycle counter.
InRange ==
  /\ enable => cycles_per_tick # 0
  /\ cycle_count + cycles_per_tick < CycleWrap

\* The inductive invariant.
IInv == TypeOK /\ InRange /\ TickIsNear

-----------------------------------------------------------------------------

\* It holds initially,
LEMMA InitIInv == Init => IInv
<1> SUFFICES ASSUME Init PROVE IInv
  OBVIOUS
<1>1. TRR \in 0 .. CounterWrap - 1 /\ TCN \in 0 .. CounterWrap - 1
  BY DEF Init
<1>2. cycles_per_tick \in 0 .. CycleWrap - 1
  BY DEF Init
<1>3. next_tick \in 0 .. CycleWrap - 1 /\ cycle_count \in 0 .. CycleWrap - 1
  BY DEF Init
<1>4. InRange /\ TickIsNear
  BY DEF Init, InRange, TickIsNear
<1>5. QED
  BY <1>1, <1>2, <1>3, <1>4 DEF Init, IInv, TypeOK

\* What an instruction leaves alone, and what it makes of the cycle counter.
LEMMA ExecuteCycles ==
  ASSUME IInv, NEW n \in Costs, NEW rate \in 0 .. CycleWrap - 1,
         Execute(n), BeforeWrap(n), cycles_per_tick' = rate
  PROVE  /\ cycle_count' = cycle_count + n
         /\ cycle_count' \in 0 .. CycleWrap - 1
         /\ cycle_count' + rate < CycleWrap
         /\ cpu = "execute" /\ cpu' = "update"
         /\ use_timer_hack' = use_timer_hack /\ asserted' = asserted
<1>1. n \in Nat /\ CycleWrap \in Nat /\ cycle_count \in 0 .. CycleWrap - 1
  BY DEF IInv, TypeOK
<1>2. cycle_count + n + rate < CycleWrap
  BY DEF BeforeWrap
<1>3. cycle_count + n \in Nat /\ cycle_count + n < CycleWrap
  BY <1>1, <1>2
<1>4. cycle_count' = cycle_count + n
  BY <1>1, <1>3, ModSmall DEF Execute, cycle
<1>5. cycle_count' \in 0 .. CycleWrap - 1
  BY <1>1, <1>3, <1>4
<1>6. QED
  BY <1>2, <1>4, <1>5 DEF Execute

\* A tick that falls due is scheduled anew exactly one tick later.
LEMMA TickLater ==
  ASSUME IInv, enable, TickIsDue
  PROVE  \/ use_timer_hack /\ next_tick' = next_tick
         \/ /\ ~use_timer_hack
            /\ cycle_count >= next_tick
            /\ next_tick' = next_tick + cycles_per_tick
            /\ next_tick' \in 0 .. CycleWrap - 1
<1>1. CASE use_timer_hack
  BY <1>1 DEF TickIsDue
<1>2. CASE ~use_timer_hack
  <2>1. cycle_count >= next_tick
    BY <1>2 DEF TickIsDue
  <2>2. /\ next_tick \in Nat /\ cycles_per_tick \in Nat /\ CycleWrap \in Nat
        /\ next_tick + cycles_per_tick < CycleWrap
    BY <2>1 DEF IInv, TypeOK, InRange
  <2>3. next_tick' = next_tick + cycles_per_tick
    BY <1>2, <2>2, ModSmall DEF TickIsDue
  <2>4. QED
    BY <1>2, <2>1, <2>2, <2>3
<1>3. QED
  BY <1>1, <1>2

\* The counter stays in its range.
LEMMA TickCounts ==
  ASSUME IInv, Tick
  PROVE  /\ TCN' \in 0 .. CounterWrap - 1
         /\ TCN' \in {(TCN + 1) % CounterWrap, 1}
         /\ REF' \in BOOLEAN
<1>1. TCN + 1 \in Nat /\ CounterWrap \in Nat \ {0}
  BY DEF IInv, TypeOK
<1>2. (TCN + 1) % CounterWrap \in 0 .. CounterWrap - 1
  BY <1>1, ModRange
<1>3. QED
  BY <1>2 DEF Tick

-----------------------------------------------------------------------------
(* The invariant is inductive. *)

LEMMA InstructionIInv ==
  ASSUME IInv, NEW n \in Costs, Instruction(n), BeforeWrap(n)
  PROVE  IInv'
<1> USE DEF IInv, TypeOK, InRange, TickIsNear
<1>1. CASE OtherInstruction(n)
  <2>1. UNCHANGED <<mode, count, clock>> /\ Execute(n)
    BY <1>1 DEF OtherInstruction
  <2>2. QED
    BY <2>1, ExecuteCycles DEF mode, count, clock
<1>2. ASSUME NEW rate \in Rates, NEW ori \in BOOLEAN, NEW frr \in BOOLEAN,
             NEW rst \in BOOLEAN, WriteTMR(rate, ori, frr, rst, n)
      PROVE  IInv'
  <2>1. Execute(n) /\ cycles_per_tick' = rate /\ rate \in 0 .. CycleWrap - 1
    BY <1>2 DEF WriteTMR
  <2>2. /\ cycle_count' = cycle_count + n
        /\ cycle_count' \in 0 .. CycleWrap - 1
        /\ cycle_count' + rate < CycleWrap
        /\ cpu' = "update" /\ use_timer_hack' = use_timer_hack /\ asserted' = asserted
    BY <2>1, ExecuteCycles
  <2>3. cycle_count + rate < CycleWrap /\ cycle_count + rate \in Nat
    BY <2>1, <2>2
  <2>4. (cycle_count + rate) % CycleWrap = cycle_count + rate
    BY <2>3, ModSmall
  <2>5. /\ enable' = (rate # 0 /\ rst)
        /\ next_tick' \in 0 .. CycleWrap - 1
        /\ enable' => next_tick' = cycle_count + rate
    BY <1>2, <2>3, <2>4 DEF WriteTMR
  <2>6. TRR' \in 0 .. CounterWrap - 1 /\ TCN' \in 0 .. CounterWrap - 1
    BY <1>2 DEF WriteTMR, count
  <2>7. ORI' \in BOOLEAN /\ FRR' \in BOOLEAN /\ RST' \in BOOLEAN /\ REF' \in BOOLEAN
    BY <1>2 DEF WriteTMR, count
  <2>8. TypeOK'
    BY <2>1, <2>2, <2>5, <2>6, <2>7
  <2>9. InRange'
    BY <2>1, <2>2, <2>5
  <2>10. TickIsNear'
    <3>1. SUFFICES ASSUME enable' PROVE next_tick' <= cycle_count' + cycles_per_tick'
      OBVIOUS
    <3>2. next_tick' = cycle_count + rate /\ cycle_count' + cycles_per_tick' = cycle_count + n + rate
      BY <2>1, <2>2, <2>5, <3>1
    <3>3. n \in Nat /\ rate \in Nat /\ cycle_count \in Nat
      BY <2>1
    <3>4. QED
      BY <3>2, <3>3
  <2>11. QED
    BY <2>8, <2>9, <2>10
<1>3. ASSUME NEW v \in Values, WriteTRR(v, n) \/ WriteTCN(v, n)
      PROVE  IInv'
  <2>1. /\ Execute(n) /\ UNCHANGED <<mode, REF, clock>>
        /\ TRR' \in {v, TRR} /\ TCN' \in {v, TCN}
    BY <1>3 DEF WriteTRR, WriteTCN
  <2>2. QED
    BY <2>1, ExecuteCycles DEF mode, clock
<1>4. CASE WriteTER(n)
  <2>1. Execute(n) /\ REF' = FALSE /\ UNCHANGED <<mode, TRR, TCN, clock>>
    BY <1>4 DEF WriteTER
  <2>2. /\ cycle_count' = cycle_count + n
        /\ cycle_count' \in 0 .. CycleWrap - 1
        /\ cycle_count' + cycles_per_tick < CycleWrap
        /\ cpu' = "update" /\ use_timer_hack' = use_timer_hack /\ asserted' = asserted
    BY <2>1, ExecuteCycles DEF clock
  <2>3. InRange' /\ TickIsNear'
    BY <2>1, <2>2 DEF clock
  <2>4. QED
    BY <2>1, <2>2, <2>3 DEF mode, clock
<1>5. QED
  BY <1>1, <1>2, <1>3, <1>4 DEF Instruction

\* after an update, whether the counter ticks or not,
LEMMA UpdateIInv ==
  ASSUME IInv, timer_update
  PROVE  IInv'
<1> USE DEF IInv, TypeOK, InRange, TickIsNear
<1>0. /\ UNCHANGED <<mode, enable, cycles_per_tick, cycle_count, use_timer_hack>>
      /\ cpu' = "execute"
  BY DEF timer_update
<1>1. CASE ~enable
  BY <1>0, <1>1 DEF timer_update, mode, count
<1>2. CASE enable /\ Tick
  <2>1. asserted' \in BOOLEAN /\ TRR' = TRR
    BY <1>2 DEF timer_update, Tick
  <2>2. \/ use_timer_hack /\ next_tick' = next_tick
        \/ /\ ~use_timer_hack /\ cycle_count >= next_tick
           /\ next_tick' = next_tick + cycles_per_tick
           /\ next_tick' \in 0 .. CycleWrap - 1
    BY <1>2, TickLater DEF Tick
  <2>3. TCN' \in 0 .. CounterWrap - 1 /\ REF' \in BOOLEAN
    BY <1>2, TickCounts
  <2>4. QED
    BY <1>0, <2>1, <2>2, <2>3 DEF mode
<1>3. CASE enable /\ NoTick /\ asserted' = (REF' /\ ORI)
  BY <1>0, <1>3 DEF NoTick, mode, count
<1>4. QED
  BY <1>1, <1>2, <1>3 DEF timer_update

\* after a reset of the board,
LEMMA ResetIInv ==
  ASSUME IInv, board_reset
  PROVE  IInv'
<1>1. TRR' \in 0 .. CounterWrap - 1 /\ TCN' \in 0 .. CounterWrap - 1
  BY DEF board_reset
<1>2. cycles_per_tick' \in 0 .. CycleWrap - 1
  BY DEF board_reset
<1>3. next_tick' \in 0 .. CycleWrap - 1 /\ cycle_count' \in 0 .. CycleWrap - 1
  BY DEF board_reset
<1>4. InRange' /\ TickIsNear'
  BY DEF board_reset, InRange, TickIsNear
<1>5. QED
  BY <1>1, <1>2, <1>3, <1>4 DEF board_reset, IInv, TypeOK

\* after every step,
LEMMA NextIInv == IInv /\ [Next]_vars => IInv'
<1> SUFFICES ASSUME IInv, [Next]_vars PROVE IInv'
  OBVIOUS
<1>1. CASE UNCHANGED vars
  BY <1>1 DEF vars, mode, count, clock, IInv, TypeOK, InRange, TickIsNear
<1>2. CASE Next
  BY <1>2, InstructionIInv, UpdateIInv, ResetIInv DEF Next
<1>3. QED
  BY <1>1, <1>2

\* and so in every state.
LEMMA IInvHolds == Spec => []IInv
  BY InitIInv, NextIInv, PTL DEF Spec

\* The types are right (TypeOK): in particular the counter never leaves its 16
\* bits, and a scheduled tick never leaves the range of the cycle counter.
THEOREM TypesHold == Spec => []TypeOK
<1>1. IInv => TypeOK
  BY DEF IInv
<1>2. QED
  BY <1>1, IInvHolds, PTL

\* A running timer is never scheduled to tick later than one tick from now.
THEOREM TickAlwaysNear == Spec => []TickIsNear
<1>1. IInv => TickIsNear
  BY DEF IInv
<1>2. QED
  BY <1>1, IInvHolds, PTL

-----------------------------------------------------------------------------
(* The timer implements the metronome. *)

LEMMA InitClock == Init => Clock!Init
  BY DEF Init, Clock!Init

\* An instruction is a step of the metronome's owner.
LEMMA InstructionClock ==
  ASSUME IInv, NEW n \in Costs, Instruction(n), BeforeWrap(n)
  PROVE  Clock!Owner
<1> USE DEF IInv, TypeOK, InRange, TickIsNear
<1>1. ASSUME Execute(n), UNCHANGED clock
      PROVE  /\ cpu = "execute" /\ cpu' = "update"
             /\ Clock!Elapse(n)
             /\ UNCHANGED <<enable, cycles_per_tick, use_timer_hack>>
  <2>1. /\ cycle_count' = cycle_count + n
        /\ cpu = "execute" /\ cpu' = "update" /\ use_timer_hack' = use_timer_hack
    BY <1>1, ExecuteCycles DEF clock
  <2>2. n \in Nat /\ UNCHANGED <<enable, cycles_per_tick, next_tick>>
    BY <1>1 DEF clock
  <2>3. Clock!Elapse(n)
    BY <2>1, <2>2 DEF Clock!Elapse
  <2>4. QED
    BY <2>1, <2>2, <2>3
<1>2. ASSUME Execute(n), UNCHANGED clock, UNCHANGED TCN
      PROVE  Clock!Owner
  BY <1>1, <1>2 DEF Clock!Owner, Clock!Idle
<1>3. CASE OtherInstruction(n)
  BY <1>2, <1>3 DEF OtherInstruction, count
<1>4. ASSUME NEW rate \in Rates, NEW ori \in BOOLEAN, NEW frr \in BOOLEAN,
             NEW rst \in BOOLEAN, WriteTMR(rate, ori, frr, rst, n)
      PROVE  Clock!Owner
  <2>1. Execute(n) /\ cycles_per_tick' = rate /\ rate \in 0 .. CycleWrap - 1
    BY <1>4 DEF WriteTMR
  <2>2. /\ cycle_count' = cycle_count + n
        /\ cycle_count' + rate < CycleWrap
        /\ cpu = "execute" /\ cpu' = "update" /\ use_timer_hack' = use_timer_hack
    BY <2>1, ExecuteCycles
  <2>3. n \in Nat /\ cycle_count + rate < CycleWrap /\ cycle_count + rate \in Nat
    BY <2>1, <2>2
  <2>4. (cycle_count + rate) % CycleWrap = cycle_count + rate
    BY <2>3, ModSmall
  <2>5. TCN' \in {TCN, 0}
    BY <1>4 DEF WriteTMR, count
  <2>6. CASE enable'
    <3>1. next_tick' = cycle_count + rate /\ rate # 0
      BY <1>4, <2>4, <2>6 DEF WriteTMR
    <3>2. Clock!Start(n)
      BY <2>1, <2>2, <2>3, <2>5, <2>6, <3>1 DEF Clock!Start
    <3>3. QED
      BY <2>2, <3>2 DEF Clock!Owner
  <2>7. CASE ~enable'
    <3>1. enable' = FALSE
      BY <1>4, <2>7 DEF WriteTMR
    <3>2. Clock!Stop
      BY <2>1, <2>2, <2>5, <3>1 DEF Clock!Stop
    <3>3. QED
      BY <2>2, <3>2 DEF Clock!Owner
  <2>8. QED
    BY <2>6, <2>7
<1>5. ASSUME NEW v \in Values, WriteTRR(v, n)
      PROVE  Clock!Owner
  BY <1>2, <1>5 DEF WriteTRR
<1>6. ASSUME NEW v \in Values, WriteTCN(v, n)
      PROVE  Clock!Owner
  <2>1. Execute(n) /\ UNCHANGED clock /\ TCN' \in 0 .. CounterWrap - 1
    BY <1>6 DEF WriteTCN
  <2>2. Clock!Load(n)
    BY <1>1, <2>1 DEF Clock!Load
  <2>3. QED
    BY <1>1, <2>1, <2>2 DEF Clock!Owner
<1>7. CASE WriteTER(n)
  BY <1>2, <1>7 DEF WriteTER
<1>8. QED
  BY <1>3, <1>4, <1>5, <1>6, <1>7 DEF Instruction

\* An update takes the period that is owed, if one is.
LEMMA UpdateClock ==
  ASSUME IInv, timer_update
  PROVE  Clock!Update
<1> USE DEF IInv, TypeOK, InRange, TickIsNear
<1>0. /\ UNCHANGED <<enable, cycles_per_tick, cycle_count, use_timer_hack>>
      /\ cpu = "update" /\ cpu' = "execute"
  BY DEF timer_update
<1>1. CASE ~enable
  BY <1>0, <1>1 DEF timer_update, count, Clock!Update
<1>2. CASE enable /\ Tick
  <2>1. \/ use_timer_hack /\ next_tick' = next_tick
        \/ /\ ~use_timer_hack /\ cycle_count >= next_tick
           /\ next_tick' = next_tick + cycles_per_tick
    BY <1>2, TickLater DEF Tick
  <2>2. TCN' \in {(TCN + 1) % CounterWrap, 1}
    BY <1>2, TickCounts
  <2>3. CASE use_timer_hack
    BY <1>0, <1>2, <2>1, <2>2, <2>3 DEF Clock!Update
  <2>4. CASE ~use_timer_hack
    BY <1>0, <1>2, <2>1, <2>2, <2>4 DEF Clock!Update
  <2>5. QED
    BY <2>3, <2>4
<1>3. CASE enable /\ NoTick
  BY <1>0, <1>3 DEF NoTick, count, Clock!Update
<1>4. QED
  BY <1>1, <1>2, <1>3 DEF timer_update

\* A reset stops the abstract timer,
LEMMA ResetClock ==
  ASSUME IInv, board_reset
  PROVE  Clock!Reset
  BY DEF IInv, TypeOK, board_reset, Clock!Reset, Clock!Stop

\* and every step of the timer is one of the metronome, or leaves it alone.
LEMMA NextClock == IInv /\ [Next]_vars => [Clock!Next]_(Clock!vars)
<1> SUFFICES ASSUME IInv, [Next]_vars PROVE [Clock!Next]_(Clock!vars)
  OBVIOUS
<1>1. CASE UNCHANGED vars
  BY <1>1 DEF vars, count, clock, Clock!vars
<1>2. CASE Next
  BY <1>2, InstructionClock, UpdateClock, ResetClock DEF Next, Clock!Next
<1>3. QED
  BY <1>1, <1>2

\* The timer implements the metronome (KeepsTime): every cycle that elapses while
\* it runs counts towards a tick exactly once.
THEOREM TimerKeepsTime == Spec => KeepsTime
<1>1. Init => Clock!Init
  BY InitClock
<1>2. IInv /\ [Next]_vars => [Clock!Next]_(Clock!vars)
  BY NextClock
<1>3. QED
  BY <1>1, <1>2, IInvHolds, PTL DEF Spec, KeepsTime, Clock!Spec
=============================================================================
