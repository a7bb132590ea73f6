----------------------------- MODULE Timer5206 -----------------------------
(***************************************************************************)
(* One timer of the 5206 (peripherals/timer_5206.c), the cycle counter it  *)
(* is clocked by (cycle.c, board.c) and the monitor command that clears    *)
(* the cycle counter (monitor/time.c).  The run loop executes an           *)
(* instruction, which may write a timer register and costs some cycles,    *)
(* and then calls timer_update.                                            *)
(*                                                                         *)
(* CLK and the prescaler PS only matter through the cycles per tick they   *)
(* give, 0 when CLK selects no clock.  The capture register, CE and OM are *)
(* stored and not used by anything but a read, and are left out.           *)
(***************************************************************************)
EXTENDS Naturals

CONSTANTS
  CounterWrap,  \* 2^16: TCN and TRR are u16
  CycleWrap,    \* 2^32: cycle_count and next_tick are u32
  Rates,        \* cycles per tick that the guest selects, 0 for no clock
  Values,       \* what it writes to TCN and TRR
  Costs         \* the cycles of one instruction

ASSUME TimerAssumption ==
  /\ CounterWrap \in Nat \ {0, 1}
  /\ CycleWrap \in Nat \ {0, 1}
  /\ Rates \subseteq 0 .. CycleWrap - 1
  /\ Values \subseteq 0 .. CounterWrap - 1
  /\ Costs \subseteq Nat

VARIABLES
  ORI, FRR, RST,     \* mode register: interrupt, restart, not in reset
  TRR, TCN,          \* reference and counter
  REF,               \* event register: the reference was reached
  enable,
  cycles_per_tick,
  next_tick,         \* the cycle count at which the counter advances
  cycle_count,
  use_timer_hack,    \* command line: one tick for every instruction
  asserted,          \* the last call to the SIM was interrupt_assert
  cpu                \* the step that is next: "execute" or "update"

mode == <<ORI, FRR, RST>>
count == <<TRR, TCN, REF>>
clock == <<enable, cycles_per_tick, next_tick>>
vars == <<mode, count, clock, cycle_count, use_timer_hack, asserted, cpu>>

Init ==
  /\ ORI = FALSE /\ FRR = FALSE /\ RST = FALSE
  /\ TRR = CounterWrap - 1 /\ TCN = 0 /\ REF = FALSE
  /\ enable = FALSE /\ cycles_per_tick = 1 /\ next_tick = 0
  /\ cycle_count = 0
  /\ use_timer_hack \in BOOLEAN
  /\ asserted = FALSE
  /\ cpu = "execute"

-----------------------------------------------------------------------------
(* The instructions of the guest *)

\* The cycles of the instruction are added when its accesses are done.
cycle(n) == cycle_count' = (cycle_count + n) % CycleWrap

Execute(n) ==
  /\ cpu = "execute"
  /\ cpu' = "update"
  /\ cycle(n)
  /\ UNCHANGED <<use_timer_hack, asserted>>

OtherInstruction(n) ==
  /\ Execute(n)
  /\ UNCHANGED <<mode, count, clock>>

\* A mutant: a timer that is written is not reprogrammed to tick from now on.
WriteTMR_keep_tick(rate, ori, frr, rst, n) ==
  /\ Execute(n)
  /\ ORI' = ori /\ FRR' = frr /\ RST' = rst
  /\ IF RST /\ ~rst
     THEN TRR' = CounterWrap - 1 /\ TCN' = 0 /\ REF' = FALSE
     ELSE UNCHANGED count
  /\ cycles_per_tick' = rate
  /\ enable' = (rate # 0 /\ rst)
  /\ UNCHANGED next_tick

\* RST going from 1 to 0 resets the timer; the timer runs when it has a clock
\* and is out of reset.
WriteTMR(rate, ori, frr, rst, n) ==
  /\ Execute(n)
  /\ ORI' = ori /\ FRR' = frr /\ RST' = rst
  /\ IF RST /\ ~rst
     THEN TRR' = CounterWrap - 1 /\ TCN' = 0 /\ REF' = FALSE
     ELSE UNCHANGED count
  /\ cycles_per_tick' = rate
  /\ enable' = (rate # 0 /\ rst)
  /\ next_tick' = IF enable' THEN (cycle_count + rate) % CycleWrap
                  ELSE IF RST /\ ~rst THEN 0 ELSE next_tick

WriteTRR(v, n) == Execute(n) /\ TRR' = v /\ UNCHANGED <<mode, TCN, REF, clock>>

WriteTCN(v, n) == Execute(n) /\ TCN' = v /\ UNCHANGED <<mode, TRR, REF, clock>>

\* TER: the event is cleared.
WriteTER(n) == Execute(n) /\ REF' = FALSE /\ UNCHANGED <<mode, TRR, TCN, clock>>

Instruction(n) ==
  \/ OtherInstruction(n)
  \/ \E rate \in Rates, ori, frr, rst \in BOOLEAN : WriteTMR(rate, ori, frr, rst, n)
  \/ \E v \in Values : WriteTRR(v, n) \/ WriteTCN(v, n)
  \/ WriteTER(n)

-----------------------------------------------------------------------------
(* timer_update *)

\* A mutant: the next tick is reckoned from now and not from the last tick.
TickIsDue_from_now ==
  \/ use_timer_hack /\ UNCHANGED next_tick
  \/ /\ ~use_timer_hack
     /\ cycle_count >= next_tick
     /\ next_tick' = (cycle_count + cycles_per_tick) % CycleWrap

\* A tick of a running timer, and the one that follows.
TickIsDue ==
  \/ use_timer_hack /\ UNCHANGED next_tick
  \/ /\ ~use_timer_hack
     /\ cycle_count >= next_tick
     /\ next_tick' = (next_tick + cycles_per_tick) % CycleWrap

\* A mutant: the counter does not wrap.
Tick_wide ==
  /\ TickIsDue
  /\ REF' = (TCN = TRR)
  /\ TCN' = IF REF' /\ FRR THEN 1 ELSE TCN + 1
  /\ UNCHANGED TRR

\* The reference is compared before the counter advances, so that a restart
\* leaves it at 1.
Tick ==
  /\ TickIsDue
  /\ REF' = (TCN = TRR)
  /\ TCN' = IF REF' /\ FRR THEN 1 ELSE (TCN + 1) % CounterWrap
  /\ UNCHANGED TRR

NoTick ==
  /\ ~use_timer_hack
  /\ cycle_count < next_tick
  /\ UNCHANGED <<count, next_tick>>

timer_update ==
  /\ cpu = "update"
  /\ cpu' = "execute"
  /\ \/ ~enable /\ UNCHANGED <<count, next_tick, asserted>>
     \/ enable /\ (Tick \/ NoTick) /\ asserted' = (REF' /\ ORI)
  /\ UNCHANGED <<mode, enable, cycles_per_tick, cycle_count, use_timer_hack>>

-----------------------------------------------------------------------------
(* The monitor *)

\* board_reset, with the timer_reset it leads to.  The SIM is reset as well, and
\* what the timer had asserted is not taken back.
board_reset ==
  /\ cpu = "execute"
  /\ cycle_count' = 0
  /\ ORI' = FALSE /\ FRR' = FALSE /\ RST' = FALSE
  /\ TRR' = CounterWrap - 1 /\ TCN' = 0 /\ REF' = FALSE
  /\ enable' = FALSE /\ cycles_per_tick' = 1 /\ next_tick' = 0
  /\ UNCHANGED <<use_timer_hack, asserted, cpu>>

\* The command "time c" clears the cycle counter.
Monitor_TIME ==
  /\ cpu = "execute"
  /\ cycle_count' = 0
  /\ UNCHANGED <<mode, count, clock, use_timer_hack, asserted, cpu>>

-----------------------------------------------------------------------------

\* The cycle counter has not come to where a tick would be beyond its range.
BeforeWrap(n) == cycle_count + n + cycles_per_tick' < CycleWrap

Next ==
  \/ \E n \in Costs : Instruction(n) /\ BeforeWrap(n)
  \/ timer_update
  \/ board_reset

Spec == Init /\ [][Next]_vars

\* The cycle counter wraps, or is cleared by hand.
RawNext == timer_update \/ board_reset \/ Monitor_TIME \/ \E n \in Costs : Instruction(n)

RawSpec == Init /\ [][RawNext]_vars

-----------------------------------------------------------------------------
(* Properties *)

TypeOK ==
  /\ ORI \in BOOLEAN /\ FRR \in BOOLEAN /\ RST \in BOOLEAN /\ REF \in BOOLEAN
  /\ TRR \in 0 .. CounterWrap - 1
  /\ TCN \in 0 .. CounterWrap - 1
  /\ enable \in BOOLEAN
  /\ cycles_per_tick \in 0 .. CycleWrap - 1
  /\ next_tick \in 0 .. CycleWrap - 1
  /\ cycle_count \in 0 .. CycleWrap - 1
  /\ use_timer_hack \in BOOLEAN
  /\ asserted \in BOOLEAN
  /\ cpu \in {"execute", "update"}

\* The "proper timing for the timer": a running timer is never scheduled to tick
\* later than one tick from now.
TickIsNear ==
  enable /\ ~use_timer_hack => next_tick <= cycle_count + cycles_per_tick

Clock ==
  INSTANCE Metronome WITH
    Size <- CounterWrap,
    Periods <- 0 .. CycleWrap - 1,
    turn <- cpu,
    running <- enable,
    period <- IF use_timer_hack THEN 0 ELSE cycles_per_tick,
    owed <- IF enable /\ ~use_timer_hack
            THEN (cycle_count + cycles_per_tick) - next_tick ELSE 0,
    counter <- TCN

\* Every cycle that elapses while the timer runs counts towards a tick once,
\* whatever the costs of the instructions are.
KeepsTime == Clock!Spec
=============================================================================
