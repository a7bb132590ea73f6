# A verification project for the ColdFire emulator

The program in `src/` emulates a Motorola ColdFire 5206 or 5307 board: a core
that executes guest instructions one at a time, memory-mapped peripherals that
are called after every instruction, one thread per UART that waits for a telnet
connection, and a monitor the operator and the guest can trap into. This
directory models it in TLA+, checks the models with TLC on small instances and
proves the invariants that carry the design, for every value of the constants,
with TLAPS.

    tlc -config Sim5206.cfg MCSim5206        # each run: MC module and cfg below
    tlapm CpuProofs.tla                      # and every other *Proofs module

## 1. The system

### Components

| Component | State | Operations | What makes it correct |
|---|---|---|---|
| 5206 interrupt controller, `peripherals/sim_5206.c` | ICR, IMR, IPR, a vector per input, a counter per level | assert, withdraw, acknowledge, register writes, reset | counters agree with pending inputs; a level is posted exactly while one of its inputs is pending |
| Interrupt delivery, `exception.c` | `exception_pending`, `iack_func` per level, `sr.i` | post, withdraw, check and handle | highest level above the mask, with the vector of an input that is pending |
| Run loop, `run.c` | `Run_Exit`, `stop_now` | check, fetch, execute, trace, update | devices and interrupts are served once per instruction |
| 5206 UART, `peripherals/uart_5206.c` | registers, 3-character FIFO, connection | register reads and writes, `serial_update`, `serial_thread`, reset | order and number of characters, truthful status, progress, interrupt follows its condition |
| 5206 timer, `peripherals/timer_5206.c`, `cycle.c` | mode, counter, reference, event, `next_tick`; cycle counter | register writes, `timer_update`, reset | every cycle counts towards one tick |
| Telnet transport, `network.c` | descriptors | listen, accept | a descriptor is used only while it is open |
| 5307 interrupt controller, `peripherals/sim_5307.c` | as the 5206's, wider | same | same |
| Exception frames, `exception.c`, `isa_a/i_rte.c` | stack, `sr`, `vbr`, `pc` | push, restore, raw exception, RTE | a frame that is popped gives back what was pushed, also when the push itself faults |
| Monitor, `monitor/main.c`, `br.c`, `trace.c` | breakpoints with the words they replaced, trace count | enter, exit, commands | guest memory is never left or saved with a breakpoint in it |
| Memory and core registers, `memory.c`, `addressing.c` | segment list, registers | retrieve, store, fetch, push, pop, reset | the first matching segment answers; a failed access faults and changes nothing |
| Decoder, `i.c` | sorted registry, 64K cache | register, look up | the most specific pattern wins, cache or no cache |
| Instructions, `handlers.c`, `isa_a/`, `isa_b/` | registers and flags | one handler per instruction | flags agree with arithmetic |
| Loaders, diagnostics, configuration, `monitor/dl.c`, `tracer/`, `board.c` | — | text and file processing | — |

### Interactions

* The run loop is sequential: `exception_check_and_handle`, fetch, one
  instruction, `memory_update`. `memory_update` calls each segment's `update`,
  which is where a timer ticks, a UART sends, and both call
  `interrupt_assert` or `interrupt_withdraw` on the SIM. The SIM posts a *level*
  to the core together with a callback; the core calls that callback only when
  it accepts the level, later, to learn the vector.
* Guest instructions reach peripheral registers through memory accesses, within
  the instruction and so before the update of the same turn.
* Each UART has a serial thread that shares the UART's structure with the
  processor thread. A mutex guards some accesses only.
* The monitor runs inside an instruction or an exception and can reset the
  board, clear the cycle counter and write memory.

### What is hard in this code

* *Stale state*: the level of an input is looked up again when it is withdrawn;
  a reset reloads the ICRs under pending inputs; a UART without a connection
  and a timer that is off return before they withdraw; clearing the cycle
  counter leaves the timers' schedules behind.
* *Interleaving*: `fd` and UIPCR are shared without the mutex.
* *Boundaries*: a FIFO of three, a 16-bit counter that restarts or wraps, 32-bit
  cycle counts that are compared as if they had no bound.
* *Sequences*: exceptions nest in the monitor, and exception frames fault while
  they are pushed.
* *Progress*: the serial thread and the processor compete for a mutex.

`PROJECT.json` lists every hazard at its line with the properties that cover it.

## 2. The models

### `Sim5206` — interrupts, from the device to the vector

State: `ICR`, `IMR`, `IPR`, `interrupt_acknowledge`, `interrupts_at_level` are the
variables of `sim_5206.c` under their own names (bit masks are sets of inputs);
`exception_pending` and `iack_func` those of `exception.c`; `sr_i` is `sr.i`. `phase`
is the place in the run loop and `due` the devices `memory_update` has still to call.

Actions: `TakeInterrupt` / `NothingToTake` are the two outcomes of
`exception_check_and_handle`; `WriteICR`, `WriteIMR`, `WriteSR` are the instructions
that matter, ended by the call of `memory_update`; `FaultBeforeExecution` is the
`continue` of the run loop that skips the update; `UpdateDevice` is one device's
update, which may assert with any vector, withdraw, or do neither. `WriteSR` with the
present mask is any other instruction. A handler in ROM is run by the monitor within
the exception and its frame is popped at once, hence `inRom`: the mask stays, and the
next instruction runs with the interrupt still posted.

`Spec` is for firmware that writes an ICR only while its input is not pending, which is
what the controller as written can support. `RawSpec` adds every other ICR write and the
monitor's reset.

Abstract specification: `InterruptController` — inputs are requested or not, have a
level and a vector; an accepted interrupt is of a requested input of the highest level
and above the mask, and delivers that input's vector. `ImplementsController` is the
refinement; nothing of the counters or of the posted levels is left in it.

### `Uart5206` — registers, FIFO and two threads

State: the registers something depends on, the FIFO `URB` / `URB_count`, `fd` (whether
there is a descriptor), the mutex, whether the last call to the SIM was an
assertion, and a program counter for each thread (`cpu`, `thread`) with the byte in hand
(`c`), the result in hand (`result`) and the fetched COS bit (`changed`).

Actions: `Listen` … `Forget` are the lines of `serial_thread`, with `Accept`, `Read`,
`Escape`, `EndOfInput` for its returns from the network: those depend on the peer.
`WriteUMR` … `ClearCOS` are the cases of `serial_write` and `serial_read`; a case that the
mutex covers and that touches nothing the other thread uses without it is one step,
the read of URB, the read of UIPCR and the thread's store are two steps so that
a missing lock could be seen. `Update`, `Send`, `Interrupt` are `serial_update`.

Abstract specification: `UartFifo`, a bounded queue that drops what arrives when it is
full. The mapping gives the queue as the counted prefix of `URB`, one less while a read
has shifted the array and not yet counted. `RawSpec` adds `ReadDoNotAccess`, which
returns with the mutex held, and `serial_reset`, which does not take it.

### `Timer5206` — ticks and cycles

State: mode bits `ORI`, `FRR`, `RST`, `TRR`, `TCN`, `REF`, `enable`, `cycles_per_tick`,
`next_tick`, the board's `cycle_count` and `use_timer_hack`. The guest selects CLK and
PS; they act only through the cycles per tick, which is what the action takes.

Actions: one per register write, each of which also adds the cycles the instruction
cost; `timer_update` with its parts `Tick`, `NoTick`; `board_reset`; `Monitor_TIME`.
`Spec` stays below the wrap of the cycle counter (guard `BeforeWrap`); `RawSpec` lets it
wrap and lets the monitor clear it.

Abstract specification: `Metronome` — a running timer is *owed* the cycles that
elapse, and an update advances the counter exactly when a whole period is owed, which it
consumes. Nothing of `next_tick` or `cycle_count` is left in it.

### `Exceptions`, `Contexts`, `Sim5307` — the run loop, the stack and the monitor

State: `core` is `memory_core` as far as control flow needs it (`pc`, `a7`, `a6`, `sr`),
the longwords of the stack and the count of the command `trace`; `pc_instruction_begin` is the field
of that name; `phase` is the place in the loop of
`Run`, or `operands` inside an instruction; `stop_now` is the variable of `run.c`. `Sim5307` holds the variables of
`sim_5307.c` and the `posted` levels of `exception.c`, with an operator per function.
`core.layout` is history: what each longword of the stack was pushed as.

Actions: `exception_check_and_handle`, `BadPc`, `BadWord`, `Trace`, `Stop`, `memory_update` are the parts of
the loop in their order, with the `continue` that skips the rest of a turn; `sigint` may come
anywhere; `memory_update` takes one step per device that interrupts or withdraws, any number of them in a turn; one action per instruction that calls, returns, pushes, raises, or writes the
status register, the pc or A7. Any instruction may be at any address, with any extension words
and operands; what a program may not do here is to pop or overwrite what it has not pushed (section
6). Exceptions are functions that call each other within a step, and the
operator of the monitor decides some of what they do, so they are operators that return
the *set* of machines that can result: `exception_push_stack_frame` with the `Repaired` stack, in
which a second exception is pushed, handled and popped inside the first,
`exception_do_raw_exception` with handlers in RAM and in ROM, `Monitor_HandleException`
with `go`, `go address`, `trace n` and the count of traced instructions.

Faults keep the order of the code. Most handlers ignore what `EA_GetValue`, `EA_PutValue` and
`Memory_RetrFromPC` return, so `OperandFault` and `Memory_RetrFromPC` leave the instruction in the phase
`operands`, where it may fault again, any number of times (the read and the write of ADD, both
operands of MOVE, each register of MOVEM), and then does the rest of what it does: each fault pushes a
frame of its own. A fetch through the pc advances the pc although it points to the handler by then,
so the handler is entered at its second word, third word or, for a byte, at an odd address. JSR overwrites the
pc of the handler that its push has entered. LINK moves the stack pointer by its displacement
even then, off the frame of the fault: the handler's RTE then takes for a frame what lies below it
(`FrameLeftBehind`), and all that was saved is lost. The frame of a fault, and that
of a device which reports one of their vectors, holds `pc_instruction_begin` (`PcToPush`), which at the
top of the loop is still that of the instruction before.

Abstract specification: `Contexts` — a stack of contexts, with no addresses, frames or
stack pointer. A call saves where to go on, an exception saves that or where the last instruction
began, and a return brings back the one saved last. An exception enters one of the handlers at its first word
(`Save`); only one that also saves where the instruction began may skip 1, 2 or 4 bytes of it
(`SaveAndSkip`). Contexts are abandoned only with the stack pointer: when it gets a new value, or by an RTE
whose frame was left behind (`Abandon`). One longword may lie on the top for the locals of LINK.
`ImplementsContexts` is the
refinement; its contexts are read from the *memory* of the stack, so a frame that is
overwritten, popped twice or popped by halves is seen.

### `Cpu`, `Operands`, `ConditionCodes` — what instructions compute

`ConditionCodes` has the numbers (a byte takes `Byte` values; a long word is four bytes), the
rows of `SR_Set` and the two condition tables. `Operands` has `addressing.c` over registers and ram:
`EA_GetFromPC` forms an address once and steps the register or the pc, `EA_GetValue` sign
extends, `EA_PutValue` keeps what is not written. `Cpu` has one action per handler of `isa_a/` and
`isa_b/`; the handlers of a family share an operator (`Arithmetic`, `Logic`, `Compare`,
`Bitwise`, `Quick`), each names its operands, its order and what it refuses. The history
variables are for the properties: the last instruction with its operands (`done`), the numbers the flags compare
(`compared`), and the long number that a chain of ADDX, SUBX or NEGX has formed (`number`).

### `Decoder` — from a word to a handler

One action per call of `instruction_register_instructions`, then `instruction_build_cache`. Every
pattern is there with its code and mask. `Instruction_LookupInstruction` yields the set of
first matches: two patterns with equal masks may come in either order out of `qsort`.

### `Breakpoints` — the words under the breakpoints

`memory` is the code, `breakpoint` the table with its `save_word`s, and `monitors` the prompts that
are open, one inside the other when a command faults. The frame of such a fault holds
`pc_instruction_begin`, which no command changes.

## 3. What TLC checks

| Run | Expect | Shows |
|---|---|---|
| `Sim5206` | pass | over every order of assertions, withdrawals, masking, routing and mask changes: counters and posted levels agree with the pending inputs, no instruction runs with a deliverable interrupt waiting, and the whole implements `InterruptController` |
| `Sim5206Raw` | violation | `WithdrawnOnlyWhenNonePending` fails once an ICR changes under a pending input |
| `Uart5206` | pass | the FIFO loses, doubles and reorders nothing; the status bits never promise what is not there; characters leave the transmitter and received characters interrupt |
| `Uart5206Withdraw` | violation | an interrupt asserted when the peer disconnects stays asserted after its cause is gone |
| `Uart5206COS` | violation | a change of the connection is cleared by a read that did not return it |
| `Timer5206` | pass | below the wrap, every elapsed cycle counts towards exactly one tick and a running timer's next tick is at most one period away |
| `Timer5206Raw` | violation | clearing or wrapping the cycle counter strands a running timer |
| `Cpu` | pass | multi-word sums, differences and negations are exact with all their flags; a condition after a comparison says how the numbers are ordered; flags describe what was written; shifts, block moves and partial writes |
| `Exceptions` | pass | whatever nests, and however often one instruction faults, the stack gives back what was saved and a handler is entered where it begins, or by the size of a failed fetch behind; interrupts nest upwards; the levels posted are those pending; the top of the loop delivers the highest input above the mask, with its vector |
| `Decoder` | pass | on every processor a word has one handler, whatever `qsort` does with ties, and no more specific pattern is hidden |
| `DecoderFormats` | violation | MOVE from CCR, and on processors with a divider DIVS.W and DIVU.W, decode to other instructions |
| `Breakpoints` | violation | after a command that faults, a breakpoint keeps its own ILLEGAL as the program's word |

Each property of a passing run is broken by a plausible change of the code, listed
under `mutants` in `PROJECT.json` and written next to the definition it changes.

### Bounds

* *Sim5206*: a timer (input 9) and two UARTs (12, 13), so that one input can stay
  pending at a level while another leaves it and a third is at another level; levels 0
  to 2 (0 is posted but never delivered, 1 and 2 for "lower" and "higher"); one
  autovectored and two vectored ICR values; device vectors 0 and 64. No counter is
  bounded by a guard. Inputs are not symmetric: the acknowledge scan takes the
  lowest.
* *Uart5206*: two characters, enough to tell every order apart as the code never looks
  at them; the FIFO has its real size. Masks: nothing, the receiver (`FFULL`), the
  transmitter (`TxRDY`); both together only make the disjunction of the two. Commands:
  each alone, and one write that carries two.
* *Timer5206*: `CounterWrap` 4 for 2^16 and `CycleWrap` 10 for 2^32: the counter
  wraps, restarts and passes its reference, several periods fit below the wrap of the
  cycle counter; costs 0, 1 and 4 lie below and above the periods 1 and 3. The guard
  `BeforeWrap` bounds `Spec` and is lifted in `RawSpec`.

* *Cpu*: a byte of two bits, hence a long word of eight with the same structure of bytes,
  words, signs and sign extensions; registers start at every pair of the boundaries 0, 1,
  127, 128, 255 with X and Z either way, so every row of the sign tables is met; operands in
  every addressing mode over 16 bytes of ram. `MaxSteps` 2: any instruction, then the extended
  instruction of its kind or a user of its flags, which is where two instructions must
  agree; a third digit repeats the second, with one more weight.
* *Exceptions*: a stack of four longwords holds two frames, or a frame, a return address
  and a link, and overflows at the next; two instructions, an address without memory after them to jump to
  and those that fetches of words and bytes reach, odd ones among them; a bad stack
  pointer; one longword stands for the locals of LINK, enough to tell that the frame is left behind; what a
  stray RTE pops is any of the guest's status registers and any of those addresses; handlers of the guest for access errors, privilege violations, TRAP #0 and the
  interrupts, the rest in ROM; two inputs, an autovectored and a vectored one with a vector of the faults, 10, which start at levels 1 and 2 and
  which a write of the controller may bring to any of 0 to 2, so to the same. `MaxEvents` 3 bounds what pushes, jumps, interrupts or stops, plain instructions and
  returns being unbounded: an interrupt or a fault inside a call inside a handler fits, and so do two faults of one instruction and what it does after them. The bound
  leaves returns and `HALT` enabled, so nothing deadlocks, and deadlock is checked.
* *Decoder*: all patterns and processors; the words are those whose low three bits, an operand register
  nearly everywhere, are 0 or 3. `DecoderFormats` takes those with 0 in the low six.
  The registration ends, hence no check of deadlock.
* *Breakpoints*: two addresses, and one fault inside a command (`MaxNesting`).

### Fairness

Only `Uart5206` states fairness: weak fairness of `SerialThread` and of `Processor`.
The run loop has no wait of its own but the mutex, and the operating system schedules
both threads. Nothing is assumed of the peer (`Accept`, `Read`, `Escape`, `EndOfInput`
may never happen) or of the guest, which may execute any instruction for ever. A
pthread mutex is not fair: a peer that never pauses could have the serial thread take it
each time the processor wants it, so the progress properties are stated for peers that
sooner or later pause (`PeerPauses`). `Uart5206COS` is a safety property and needs no fairness;
deadlock is not checked in that run because a read of the "do not access" address
really stops both threads.

## 4. What is proved

Every safety property and every refinement that a run checks is also a theorem, for
arbitrary constants: any number of inputs and devices, any width of a byte, any stack, any
program, any `MaxSteps` and `MaxEvents`. Only the two progress properties of the UART are
not. The theorems are about `Spec`, hence under its restrictions where a run shows that they
are needed: no ICR is written under a pending input (`Sim5206Raw`), the cycle counter
does not wrap (`Timer5206Raw`), no access that leaves the mutex locked.

| Module | Proves | About |
|---|---|---|
| `Sim5206Proofs` | `TypeCorrect`, `CountsAlwaysMatch`, `PostedAlwaysMatch`, `NothingIsLeftWaiting`, `Refinement` | `Sim5206` |
| `ExceptionsProofs` | `TypeCorrect`, `NestingIsUpwards`, `PostedArePending`, `StackKeepsContexts`, `PendingAreDelivered` | `Exceptions`, `Sim5307` |
| `Uart5206Proofs` | `TypeCorrect`, `StatusAlwaysTruthful`, `ReceiverIsAFifo` | `Uart5206` |
| `Timer5206Proofs` | `TypesHold`, `TickAlwaysNear`, `TimerKeepsTime` | `Timer5206` |
| `DecoderProofs` | `EveryWordHasOneHandler`, `MostSpecificIsFound` | `Decoder` |
| `OperandsProofs` | lemmas, above all `NextDigit`, `ConditionsCompare`, `ReadBack` | `Operands`, `ConditionCodes` |
| `CpuProofs` | `TypeCorrect`, `MultiwordHolds`, `ConditionsHold`, `FlagsHold`, `ShiftsAreExact`, `BlockMovesAgree`, `DestinationOnly` | `Cpu` |
| `BreakpointsProofs` | `WordsAreSaved` | `Breakpoints` without faults |

### The arguments

* `Sim5206Proofs`. *Inductive invariant*: the types, the counters agree with the
  pending inputs (`CountsMatchPending`), the posted levels agree with them
  (`PostedMatchesPending`), and no deliverable level while an instruction executes. The
  counters are needed for the posted levels: an input's withdrawal takes the level from
  the core when the counter reaches 0, which is right only if the counter is the
  cardinality. The lemmas are about how the set pending at a level changes.
* `ExceptionsProofs`. *Inductive invariant*: the types; the controller of the 5307 with the
  argument of `Sim5206Proofs`, and that no pending input is masked, without which its
  device could not withdraw it; that the last instruction began in the program or where a fetch can lead, since
  frames hold that address (`BeginInv`); and three facts about the stack. `Dense`: what is on it
  lies without a gap from `a7` to where it began. `Contents`: the longwords that a return
  will read are an address in the program or a frame pointer. `Nested`: the mask, in the status register
  and in every frame, is at least the level of each handler it has interrupted. `layout`
  alone does not say that memory still holds what was pushed, and
  `InterruptsNestUpwards` alone does not survive an RTE, which takes the mask from memory. The
  refinement follows because each operation of the stack leaves the longwords of
  everything below it as they were, also when a push faults and the stack is repaired in the
  middle of it. Operations are operators from a core to the set of its outcomes; there is
  a lemma for each, and only the last ones are about steps of the loop.
* `Uart5206Proofs`. *Inductive invariant*: the types, and that a thread is inside its
  critical section exactly when it owns the mutex, with what it decided there still
  true when it acts on it (`CriticalSections`). From it the status bits, and that
  the counted prefix of the array is the queue of `UartFifo`.
* `Timer5206Proofs`. *Inductive invariant*: the types; a running timer
  has a clock; its next tick is at most one period ahead; and one period after the
  present cycle is still in range, which is what the guard `BeforeWrap` keeps and
  what makes `% CycleWrap` the identity. From it the refinement of `Metronome`.
* `DecoderProofs`. *Inductive invariant*: the table holds patterns of the processor only,
  all of every call that is done, and the cache is what the table yields. The code
  sorts by the masks as numbers; the lemmas about bits show that a mask with the bits of
  another one and more is the greater number, so the more specific pattern comes first, and
  that patterns of equal masks that both match a word are one pattern.
* `OperandsProofs` and `CpuProofs`. Every handler is shown to have an `Outcome`, which
  relates what its step remembers to the machine before and after it; the invariant then
  follows from the outcome, once for all handlers. *Inductive invariant*: the properties
  themselves with `NumberIsExact` and `FlagsOrder`, which say of the *present* flags what
  the next extended instruction or branch needs. The heart of it is `NextDigit`: exact flags
  of a number of any length, with the X and Z rules of ADDX, SUBX and NEGX, are exact one
  long word later. A shift in rounds keeps, for each number of rounds made, the quotient or
  product by that power of two and the last bit that left. MOVEM keeps, for each
  register passed, that those of the list are moved and that the others are not.
* `BreakpointsProofs`. The run `Breakpoints` shows how a word is lost, after a command
  faults; this theorem says that nothing else loses one. *Inductive invariant*: the
  breakpoints are at different addresses and hold the program's words; memory is the
  program at a prompt, and outside of it differs by the ILLEGAL instructions only.

### Assumptions

Each module declares what it assumes of its constants, and TLC evaluates that on the run of
the module.

* `SimAssumption`, `Sim5307Assumption`: finitely many inputs, numbered from 1 (8 to 14 on the
  5307); vectors are bytes; an ICR holds a level.
* `UartAssumption`: NUL and IAC are no characters; the guest writes modes, commands and
  masks that there are.
* `TimerAssumption`: the counters count to 2 at least, and what is written to a register fits it.
* `ExceptionsAssumption`: instructions are at even addresses; the stack is one segment
  of longwords with room for two; the bad stack pointer is outside of it; handlers
  are in the program; the guest does not set the trace bit.
* `DecoderAssumption`: words have 16 bits.
* `ByteAssumption`, `OperandsAssumption`: a byte has a power of two of values, at least two, and
  the addresses of the ram are long words.
* `CpuAssumption`: operands name registers that exist and data that fit a long word; immediates of
  the quick forms and shift counts in the instruction are 1 to 8 (0 stands for 8 in the code); the
  initial machines are machines.

### What is only model-checked, and why

* `TransmitterDrains` and `ReceiverInterrupts`: liveness under fairness is out of the prover's reach.
* The six counterexamples, which are TLC's behaviours.

Induction over data is out of reach of the prover as well, since the theorems of its library take
an operator. Where a proof needs it (powers of two, sums over a set of bits, the rounds of
a shift, the list of MOVEM), the definition is a function on a finite domain, and the
proof takes the least argument at which the claim would fail.

## 5. Disagreements between the code and its comments

1. `sim_5206.c:497`: a level is withdrawn from the core with another input pending at
   it, once an ICR was rewritten in between; `:491` says "only if there are no
   interrupts left pending at that level" (`Sim5206Raw`).
2. `uart_5206.c:356`: `serial_update` is "in charge of asserting, or withdrawing the serial
   interrupt", and returns first when there is no connection (`Uart5206Withdraw`).
3. `uart_5206.c:707`: the clearing of COS wipes out a change that was set, without the
   mutex, after COS had been fetched (`Uart5206COS`).
4. `timer_5206.c:151`: "Proper timing for the timer" compares wrapping 32-bit numbers, one
   of which the monitor clears (`Timer5206Raw`).

5. `i_movexr.c:31` and `i_div.c:13` draw formats that cannot decode: the masks are sorted as
   numbers, which puts CLR before MOVE from CCR, and the code registered for the word form of DIV
   has a bit outside its mask (`DecoderFormats`).
6. `br.c:91`: Monitor_BR_ExitException "saves the old word", which after a command that
   faulted is the ILLEGAL instruction of the breakpoint itself (`Breakpoints`).

7. `handlers.c:129` says of NEGX "C - Cleared if the result is zero, set otherwise". With X set and an
   operand of all ones the result is zero and the code sets C, which is the borrow; `MultiwordIsExact` and
   the theorem `MultiwordHolds` have C as the code does, since the next digit needs it. (The same words at
   `:115`, of NEG, are true.)
8. `i_and.c:83-84` and `i_andi.c:57-58` say "N - Set if source is -ve, cleared otherwise" and "Z - Set if
   source is zero, cleared otherwise"; the code sets both from the result, as `FlagsDescribeDestination`
   says. (The same words in `i_tst.c:56-57` are true.)
9. `i_bcc.c:66` and `isa_b/bcc.c:72` say of BHI "Branch if not carry, or not zero"; the code branches if
   neither is set, as `ConditionFollowsComparison` says. With "or", BHI would be taken when the
   numbers are equal, or the first is lower.

Items 7 to 9 are without a run of their own: there the code is right and the comment is not, and the
properties named, which hold, contradict the comment.

Seen while modelling, without a line of the repository that says otherwise:

* JSR, BSR, PEA and LINK whose push faults go on: JSR and BSR overwrite the pc of the handler, LINK
  moves the stack pointer off its frame. The models do the same.
* A device may report a vector below 16. The frame of such an interrupt gets the address of the
  instruction that has just been executed, which is then executed again: `exception_check_and_handle` comes
  before `pc_instruction_begin` is set (`run.c:102`, `:109`).
* The quotient of DIVS.L is never negated: the sign is kept in a `char` that its bit does not
  fit (`i_div.c:149`).
* A 16-bit displacement of -1 makes the ISA_B branch fetch a long displacement as well
  (`isa_b/bcc.c:53`), and SHI sets on C or not Z where BHI branches on neither
  (`i_scc.c:56`, on purpose).
* RTE and STOP do not check the supervisor state; HALT does not halt.
* An instruction that faults in its fetch is not followed by `memory_update`.
* `trace 0` traces until it is interrupted otherwise.
* LEA, JMP, JSR and PEA of a mode without an address use an uninitialised value.

## 6. What is not modelled

* `serial_getch` and `serial_putch`, which poll the UART from inside TRAP #15; the
  number of a descriptor (hence a descriptor reused by the other UART); the guest-only
  copies of status bits.
* Writes to IPR, which `sim_write` stores although the register is declared read-only;
  the other SIM registers, which nothing reads.
* A divisor of 0 and `Run_Exit`, which end the emulator; the word form of DIV, which never decodes;
  cycle counts of instructions, but as arbitrary costs in `Timer5206`.
* The search of the segment list, and accesses that begin inside a segment and end outside it:
  addresses have memory or have none. A vector table that moves, or is itself not in memory: the
  exception would read the vector of an exception without end.
* Programs that modify their own code, above all under a breakpoint.
* Guests that pop what they have not pushed, or write into the saved part of their stack: in `Exceptions` a pop
  matches its push, but for the RTE of a handler whose frame was left behind. LINK's locals lie in the stack
  segment; for a displacement that leaves it there is `MOVE_A7` with the bad stack pointer.
* Interrupt registers written under a pending input on the 5307, which goes wrong in the
  way `Sim5206Raw` shows for the 5206.
* Configuration and command-line parsing, file loading, disassembly, tracing and
  profiling: text, files and diagnostics without state the rest depends on.

## 7. Plan

Done: the modules above with their runs, and the theorems of section 4. Left, in order:

1. `Sim5206` and `Sim5307` against one another: the two controllers are the same
   algorithm over registers of other widths, and `InterruptController` is the
   specification of both.
2. `Machine`: the timer and the UART in place of the arbitrary devices of `Exceptions`.
