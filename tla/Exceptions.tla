----------------------------- MODULE Exceptions -----------------------------
(***************************************************************************)
(* The run loop (run.c), the exceptions it raises and delivers             *)
(* (exception.c), the monitor that handles those whose vector points into  *)
(* the ROM (monitor/main.c, go.c, trace.c), the instructions that change   *)
(* the flow of control or the stack, and the interrupt controller that     *)
(* posts to exception.c (Sim5307).                                         *)
(*                                                                         *)
(* The program is arbitrary: any instruction may be found at any address,  *)
(* with any number of words and of operands.  A pop is assumed to match    *)
(* its push, except that of a handler whose frame an instruction has left  *)
(* behind; the stack may overflow and the stack pointer may be set to      *)
(* nowhere.  The vector table does not change.  The status register has    *)
(* the fields s, t and i, and c for the condition codes.                   *)
(***************************************************************************)
EXTENDS Sim5307, Sequences

CONSTANTS
  Code,       \* the addresses that hold instructions
  Wild,       \* addresses that a program may jump to and that hold none
  Stack,      \* the addresses of the longwords of the stack
  InitialSP,  \* the first longword of the vector table
  BadSP,      \* a stack pointer with no memory around it
  Handler,    \* the guest's handlers, by vector; the other vectors are in ROM
  Device,     \* the vector that each device reports
  GuestSR,    \* the values that the guest gives to the status register, T being left to the monitor
  Routes,     \* the levels that the guest gives to its inputs at first
  MaxTrace,   \* bounds the instruction count given to the command trace
  MaxEvents   \* bounds what happens besides plain instructions and pops

ASSUME ExceptionsAssumption ==
  /\ Code \subseteq {n \in Nat : n % 2 = 0} /\ Wild \subseteq Nat \ Code
  /\ Stack \subseteq Nat /\ InitialSP \in Nat /\ BadSP \in Nat
  /\ \A a \in Stack : a % 4 = 0 /\ BadSP < a
  /\ \A a \in Stack : a - 8 \in Stack => a - 4 \in Stack  \* it is one segment
  /\ {InitialSP - 4, InitialSP - 8} \subseteq Stack
  /\ DOMAIN Handler \subseteq 0 .. 255
  /\ \A v \in DOMAIN Handler : {Handler[v], Handler[v] + 2} \subseteq Code
  /\ Device \in [Inputs -> DeviceVectors]
  /\ GuestSR \subseteq [s : BOOLEAN, t : {FALSE}, i : Levels, c : {0, 1}]
  /\ Routes \subseteq [Inputs -> Levels]
  /\ MaxTrace \in Nat /\ MaxEvents \in Nat

VARIABLES
  core,      \* memory_core, the stack in memory, and Trace_InstructionCount
  pc_instruction_begin,
  phase,     \* the next part of the loop of Run, or "operands" inside an instruction
  stop_now,
  events

vars == <<core, pc_instruction_begin, phase, stop_now, events, simVars>>

Cleared == [s |-> FALSE, t |-> FALSE, i |-> 0, c |-> 0]

\* A longword of the stack, as a number and as a status register.
Long(n) == [word |-> n, sr |-> Cleared]

\* History: what the stack holds, the last first.  The level is that of an
\* interrupt whose handler has not lowered the mask again.
Saved(kind, at, level) == [kind |-> kind, at |-> at, level |-> level]

\* What nothing on the stack will read again is forgotten.
Forget(m) ==
  LET held == {m.layout[k] : k \in 1 .. Len(m.layout)}
      live == {e.at : e \in held} \cup {e.at + 4 : e \in {f \in held : f.kind = "frame"}}
  IN [m EXCEPT !.ram = [a \in Stack |-> IF a \in live THEN @[a] ELSE Long(0)]]

\* What the guest leaves behind when the stack pointer is given a new value.
SetStackPointer(m, sp) == Forget([m EXCEPT !.a7 = sp, !.layout = <<>>])

\* A mutant: the status register is not restored.
exception_restore_from_stack_frame_pc(m) ==
  Forget([m EXCEPT !.pc = m.ram[m.a7 + 4].word, !.a7 = @ + 8, !.layout = Tail(@)])

\* A mutant: the two pops take one longword.
exception_restore_from_stack_frame_word(m) ==
  Forget([m EXCEPT !.sr = m.ram[m.a7].sr, !.pc = m.ram[m.a7 + 4].word,
                   !.a7 = @ + 4, !.layout = Tail(@)])

exception_restore_from_stack_frame(m) ==
  Forget([m EXCEPT !.sr = m.ram[m.a7].sr,
                   !.pc = m.ram[m.a7 + 4].word,
                   !.a7 = @ + 8,
                   !.layout = Tail(@)])

------------------------------------------------------------------------------
(* The monitor. *)

\* The command go, with an address that replaces the saved pc.
Monitor_GO(m) ==
  {m} \cup {[m EXCEPT !.pc = target, !.ram[m.a7 + 4].word = target] : target \in Code}

\* The command trace sets T in the frame that will be restored.
Monitor_TRACE(m) ==
  {[m EXCEPT !.trace = n, !.ram[m.a7].sr.t = TRUE, !.sr.t = TRUE] : n \in 0 .. MaxTrace}

Monitor_Entry(m) == Monitor_GO(m) \cup Monitor_TRACE(m)

\* The monitor is entered when the count gets to zero; a count that is zero
\* already goes below and never gets there.
Monitor_TRACE_Entry(m) ==
  IF m.trace = 1
  THEN Monitor_Entry([m EXCEPT !.trace = 0, !.ram[m.a7].sr.t = FALSE, !.sr.t = FALSE])
  ELSE {[m EXCEPT !.trace = IF @ > 0 THEN @ - 1 ELSE -1]}

\* TRAP #15 asks for a function of the monitor, which may be the prompt.
Monitor_HandleException(m, vector) ==
  CASE vector = 9 -> Monitor_TRACE_Entry(m)
    [] vector = 47 -> {m} \cup Monitor_Entry(m)
    [] OTHER -> Monitor_Entry(m)

------------------------------------------------------------------------------
(* Exceptions.  What the operator of the monitor does is not determined, and *)
(* the operators below are sets of outcomes.                                 *)

\* exception_pc_location: the vectors that save the address of the fault.
FaultVectors == {2, 3, 4, 8, 10, 11, 14}

\* A device may report such a vector too: its frame gets the address of the last
\* instruction, because the next one has not begun.
PcToPush(m, vector) == IF vector \in FaultVectors THEN pc_instruction_begin ELSE m.pc

Framed(m, vector, saved, level) ==
  [m EXCEPT !.ram = [@ EXCEPT ![m.a7 - 4] = Long(saved),
                              ![m.a7 - 8] = [word |-> vector, sr |-> m.sr]],
            !.a7 = @ - 8,
            !.layout = <<Saved("frame", m.a7 - 8, level)>> \o @]

\* The push does not fit: the stack pointer gets its initial value, and the
\* operator sees a forced interrupt 7 first.
Repaired(m) ==
  LET fresh == SetStackPointer(m, InitialSP)
  IN {exception_restore_from_stack_frame(h) :
        h \in Monitor_HandleException(Framed(fresh, 31, fresh.pc, 0), 31)}

\* The pc to push is chosen before the stack pointer is repaired.
exception_push_stack_frame(m, vector, level) ==
  {Framed(r, vector, PcToPush(m, vector), level) :
     r \in IF {m.a7 - 4, m.a7 - 8} \subseteq Stack THEN {m} ELSE Repaired(m)}

exception_do_raw_exception(m, vector) ==
  LET taken == [m EXCEPT !.sr.s = TRUE, !.sr.t = FALSE]
  IN IF vector \in DOMAIN Handler
     THEN {[taken EXCEPT !.pc = Handler[vector]]}
     ELSE {exception_restore_from_stack_frame(h) : h \in Monitor_HandleException(taken, vector)}

exception_do_exception(m, vector) ==
  UNION {exception_do_raw_exception(p, vector) : p \in exception_push_stack_frame(m, vector, 0)}

\* A mutant: the scan ends one level too early.
Deliverable_above == {l \in posted : l > core.sr.i + 1}

\* A mutant: the scan includes the level of the mask.
Deliverable_from == {l \in posted : l >= core.sr.i}

\* The levels that interrupt: those above the mask.
Deliverable == {l \in posted : l > core.sr.i}

\* The highest one is acknowledged, and its level is the new mask.
Interrupted(m, l) ==
  LET vector == sim_iack_func(l)
  IN UNION {exception_do_raw_exception([p EXCEPT !.sr.i = l], vector) :
              p \in exception_push_stack_frame(m, vector, l)}

------------------------------------------------------------------------------
(* The instructions. *)

\* The pc is past the instruction word when the instruction executes.
NextWord == IF phase = "execute" THEN core.pc + 2 ELSE core.pc

Fetched == [core EXCEPT !.pc = NextWord]

\* The cell is stored below the stack pointer, or the store faults.
Stack_Push(m, kind, value) ==
  LET lower == [m EXCEPT !.a7 = @ - 4]
  IN IF lower.a7 \in Stack
     THEN {[lower EXCEPT !.ram[lower.a7] = Long(value),
                         !.layout = <<Saved(kind, lower.a7, 0)>> \o @]}
     ELSE exception_do_exception(lower, 2)

\* The loop goes on with the tests of T and of stop_now, and with the devices.
AfterTrace == IF stop_now THEN "stop" ELSE "update"

Ends == phase' = IF core'.sr.t THEN "trace" ELSE AfterTrace

\* Before the first operand, or after some.
Executing == (phase = "execute" /\ core.pc \in Code) \/ phase = "operands"

Executes(outcomes) ==
  /\ Executing
  /\ core' \in outcomes
  /\ Ends
  /\ UNCHANGED <<pc_instruction_begin, stop_now, simVars>>

Counted == events < MaxEvents /\ events' = events + 1

\* The instructions without operands.
OneWord == phase = "execute"

\* HALT reports and goes on; the instructions that keep to their operands do
\* no more here either, but for the condition codes.
HALT == Executes({Fetched}) /\ UNCHANGED events

JMP == Counted /\ \E target \in Code \cup Wild : Executes({[Fetched EXCEPT !.pc = target]})

\* The pc is set after the push: a push that faults loses its handler.
JSR ==
  Counted /\ \E target \in Code \cup Wild :
    Executes({[m EXCEPT !.pc = target] : m \in Stack_Push(Fetched, "return", Fetched.pc)})

PEA == Counted /\ Executes(Stack_Push(Fetched, "arg", 0))

\* The displacement makes room for locals: none, or one longword of the stack.
Displaced(m) ==
  {m} \cup {[m EXCEPT !.a7 = at, !.layout = <<Saved("arg", at, 0)>> \o @] :
              at \in {m.a7 - 4} \cap Stack}

\* The frame pointer gets the stack pointer, which is then displaced, even when the
\* push has faulted: the stack pointer leaves the frame of the fault.
LINK ==
  Counted /\ Executes(UNION {Displaced([m EXCEPT !.a6 = m.a7]) :
                               m \in Stack_Push(Fetched, "link", Fetched.a6)})

RTS ==
  /\ OneWord /\ UNCHANGED events
  /\ core.layout # <<>> /\ Head(core.layout).kind = "return"
  /\ Executes({Forget([core EXCEPT !.pc = core.ram[core.a7].word, !.a7 = @ + 4,
                                   !.layout = Tail(@)])})

\* The arguments above the frame pointer go with it.
UNLK ==
  /\ OneWord /\ UNCHANGED events
  /\ \E n \in 1 .. Len(core.layout) :
       /\ core.layout[n].kind = "link" /\ core.layout[n].at = core.a6
       /\ \A k \in 1 .. n - 1 : core.layout[k].kind = "arg"
       /\ Executes({Forget([Fetched EXCEPT !.a6 = core.ram[core.a6].word, !.a7 = core.a6 + 4,
                                           !.layout = SubSeq(@, n + 1, Len(@))])})

\* The handler's frame is not where the stack pointer is: an instruction that went
\* on after its fault has put something below it.
FrameLeftBehind ==
  \E n \in 2 .. Len(core.layout) :
    /\ core.layout[n].kind = "frame"
    /\ \A k \in 1 .. n - 1 : core.layout[k].kind # "frame"

\* There is no check of the supervisor state, nor of the frame: what lies below it
\* is taken for a status register and a pc.
RTE ==
  /\ OneWord /\ UNCHANGED events
  /\ \/ /\ core.layout # <<>> /\ Head(core.layout).kind = "frame"
        /\ Executes({exception_restore_from_stack_frame(Fetched)})
     \/ /\ FrameLeftBehind
        /\ \E sr \in GuestSR, target \in Code \cup Wild :
             Executes({SetStackPointer([Fetched EXCEPT !.sr = sr, !.pc = target], core.a7 + 8)})

TRAP == OneWord /\ Counted /\ \E vector \in {32, 47} : Executes(exception_do_exception(Fetched, vector))

ILLEGAL == OneWord /\ Counted /\ Executes(exception_do_exception(Fetched, 4))

\* A guest that lowers the mask lets interrupts in that it has handlers of.
LetIn(e, i) == [e EXCEPT !.level = IF @ > i THEN 0 ELSE @]

SET_SR(m, sr) ==
  [m EXCEPT !.sr = sr, !.layout = [k \in DOMAIN @ |-> LetIn(@[k], sr.i)]]

\* The processor does not stop, and the supervisor state is not checked.
STOP == Counted /\ \E sr \in GuestSR : Executes({SET_SR(Fetched, sr)})

\* MOVE to SR is for the supervisor state, MOVE to CCR for both, and stands for the
\* instructions that set the condition codes.
MOVEXR ==
  /\ Counted
  /\ \/ core.sr.s /\ \E sr \in GuestSR : Executes({SET_SR(Fetched, sr)})
     \/ ~ core.sr.s /\ Executes(exception_do_exception(Fetched, 8))
     \/ \E c \in {0, 1} : Executes({[Fetched EXCEPT !.sr.c = c]})

\* MOVEC writes control registers, the pc among them, or does nothing.
MOVEC ==
  Counted /\ \E target \in Code :
    Executes({IF core.sr.s THEN [Fetched EXCEPT !.pc = target] ELSE Fetched})

\* MOVE to A7, with a stack pointer that is good for a push or is not.
MOVE_A7 ==
  Counted /\ \E sp \in {InitialSP, BadSP} : Executes({SetStackPointer(Fetched, sp)})

\* An instruction with an operand that is not in memory does not end there: most
\* ignore that EA_GetValue, EA_PutValue or Memory_RetrFromPC have failed, and go on
\* with their other operands, in the context of the handler.
GoesOn(outcomes) ==
  /\ Executing
  /\ core' \in outcomes
  /\ phase' = "operands"
  /\ UNCHANGED <<pc_instruction_begin, stop_now, simVars>>

\* The read, the write, both, or one of each register of MOVEM.
OperandFault == Counted /\ GoesOn(exception_do_exception(Fetched, 2))

Advanced(m, length) == [m EXCEPT !.pc = @ + length]

InMemory(a) == a \in Code \/ a - 1 \in Code

\* The pc is advanced past what is fetched, whether it is in memory or not, and when
\* the pc points to the handler already.
Fetches(first, length) ==
  GoesOn(IF InMemory(NextWord + first) THEN {Advanced(Fetched, length)}
         ELSE {Advanced(m, length - first) : m \in exception_do_exception(Fetched, 2)})

\* A byte, which is the second one of a word, a word and a long.
Memory_RetrFromPC == Counted /\ (Fetches(1, 2) \/ Fetches(0, 2) \/ Fetches(0, 4))

\* A write of the interrupt controller.
WriteSim ==
  /\ Executing
  /\ Counted /\ sim_write
  /\ core' = Fetched
  /\ Ends
  /\ UNCHANGED <<pc_instruction_begin, stop_now>>

Instruction ==
  \/ HALT \/ JMP \/ JSR \/ PEA \/ LINK \/ RTS \/ UNLK \/ RTE \/ TRAP \/ ILLEGAL \/ STOP
  \/ MOVEXR \/ MOVEC \/ MOVE_A7 \/ OperandFault \/ Memory_RetrFromPC \/ WriteSim

------------------------------------------------------------------------------
(* The run loop. *)

\* The next instruction begins after the interrupt has been taken.
exception_check_and_handle ==
  /\ phase = "check"
  /\ IF Deliverable = {} THEN UNCHANGED core
     ELSE core' \in Interrupted(core, CHOOSE l \in Deliverable : \A k \in Deliverable : k <= l)
  /\ pc_instruction_begin' = core'.pc
  /\ phase' = "execute"
  /\ UNCHANGED <<stop_now, events, simVars>>

\* The rest of the loop, and with it the devices, is left out.
Continues(vector) ==
  /\ phase = "execute"
  /\ core' \in exception_do_exception(core, vector)
  /\ phase' = "check"
  /\ UNCHANGED <<pc_instruction_begin, stop_now, simVars>>

\* A pc that is odd or that leads nowhere.
BadPc ==
  core.pc \notin Code /\ Continues(IF core.pc % 2 = 1 THEN 3 ELSE 2) /\ UNCHANGED events

\* A word that is no instruction.
BadWord == core.pc \in Code /\ Continues(4) /\ Counted

Trace ==
  /\ phase = "trace"
  /\ core' \in exception_do_exception(core, 9)
  /\ phase' = AfterTrace
  /\ UNCHANGED <<pc_instruction_begin, stop_now, events, simVars>>

Stop ==
  /\ phase = "stop"
  /\ core' \in exception_do_exception(core, 31)
  /\ stop_now' = FALSE
  /\ phase' = "update"
  /\ UNCHANGED <<pc_instruction_begin, events, simVars>>

\* The signal handler runs anywhere in the loop.
sigint == Counted /\ stop_now' = TRUE /\ UNCHANGED <<core, pc_instruction_begin, phase, simVars>>

\* Each device in turn interrupts, or has what it interrupted for.
memory_update ==
  /\ phase = "update"
  /\ \/ UNCHANGED simVars /\ UNCHANGED events /\ phase' = "check"
     \/ Counted /\ (\E n \in Inputs : sim_interrupt_assert(n, Device[n])) /\ UNCHANGED phase
     \/ UNCHANGED events /\ (\E n \in Inputs : sim_interrupt_withdraw(n)) /\ UNCHANGED phase
  /\ UNCHANGED <<core, pc_instruction_begin, stop_now>>

\* The first instructions of the guest.
Setup ==
  /\ phase = "setup"
  /\ \E levels \in Routes : sim_setup(levels)
  /\ phase' = "check"
  /\ UNCHANGED <<core, pc_instruction_begin, stop_now, events>>

Init ==
  /\ SimInit
  /\ core \in {[pc |-> pc, a7 |-> InitialSP, a6 |-> 0,
                sr |-> Cleared, ram |-> [a \in Stack |-> Long(0)],
                layout |-> <<>>, trace |-> 0] : pc \in Code}
  /\ pc_instruction_begin = 0
  /\ phase = "setup" /\ stop_now = FALSE /\ events = 0

Next ==
  \/ Setup \/ exception_check_and_handle \/ Instruction \/ BadPc \/ BadWord \/ Trace \/ Stop
  \/ memory_update \/ sigint

Spec == Init /\ [][Next]_vars

------------------------------------------------------------------------------
(* Properties. *)

SRs == [s : BOOLEAN, t : BOOLEAN, i : Levels, c : {0, 1}]

\* Where fetches of words and bytes can lead.
Pcs == Code \cup Wild \cup {n + k : n \in Code, k \in 1 .. 5}

\* The stack pointer points to what was pushed last, and what is on the stack
\* lies there without a gap (Stack_Push and Stack_Pop agree on the sizes).
StackIsDense ==
  LET size(e) == IF e.kind = "frame" THEN 8 ELSE 4
      held == core.layout
  IN \A k \in 1 .. Len(held) :
       /\ held[k].at = IF k = 1 THEN core.a7 ELSE held[k - 1].at + size(held[k - 1])
       /\ held[k].at \in Stack /\ held[k].at + size(held[k]) - 4 \in Stack

\* Every part of memory_core that the model keeps has its type, and the stack is
\* the one that the pushes and pops since the last new stack pointer have made.
TypeOK ==
  /\ core.pc \in Pcs
  /\ core.a7 \in Stack \cup {InitialSP, BadSP} /\ core.a6 \in Stack \cup {0, InitialSP}
  /\ core.sr \in SRs /\ core.trace \in -1 .. MaxTrace
  /\ \A a \in Stack : core.ram[a].sr \in SRs
  /\ StackIsDense
  /\ pc_instruction_begin \in Pcs \cup {0}
  /\ phase \in {"setup", "check", "execute", "operands", "trace", "stop", "update"}
  /\ stop_now \in BOOLEAN /\ events \in 0 .. MaxEvents
  /\ posted \subseteq Levels /\ IPR \subseteq Inputs /\ IMR \subseteq Inputs

\* What the memory of the stack holds, as the contexts of the abstract module.
SavedContexts ==
  [k \in 1 .. Len(core.layout) |->
     LET e == core.layout[k]
     IN IF e.kind = "frame"
        THEN [kind |-> "frame", value |-> core.ram[e.at + 4].word, sr |-> core.ram[e.at].sr]
        ELSE [kind |-> e.kind, value |-> core.ram[e.at].word, sr |-> Cleared]]

\* Where the handlers of the guest begin.
Handlers == {Handler[v] : v \in DOMAIN Handler}

C == INSTANCE Contexts WITH
       contexts <- SavedContexts, pc <- core.pc, sr <- core.sr, a6 <- core.a6,
       begin <- pc_instruction_begin, next <- NextWord

\* The stack, the frames of exception.c and the monitor's restore implement a
\* stack of contexts: whatever exceptions, calls, faults and commands come in
\* between, a return brings back the status and the pc that were saved; and an
\* exception enters its handler at the first word, but for a fetch through the pc of
\* what is not in memory, which skips its own size and no more.
ImplementsContexts == C!Spec

\* Interrupts nest upwards: of the handlers on the stack each has a higher level
\* than the one it interrupted, and none is above the mask, unless the guest has
\* lowered the mask itself (exception_check_and_handle raises it, the frame
\* brings it back, and no fault, trap or command changes it).
InterruptsNestUpwards ==
  \A k \in DOMAIN core.layout :
    LET l == core.layout[k].level
    IN l > 0 => /\ l <= core.sr.i
                /\ \A j \in k + 1 .. Len(core.layout) : core.layout[j].level < l

\* The controller counts the pending inputs of each level, and what it has posted
\* to the core are the levels with one (sim_interrupt_assert and _withdraw).
PostedAreTheLevelsPending ==
  /\ \A l \in Levels : interrupts_at_level[l] = Cardinality({n \in IPR : ICR[n] = l})
  /\ posted = {ICR[n] : n \in IPR}

\* At the top of the loop an input that is pending above the mask is delivered:
\* one that is unmasked and that no input of a higher level waits behind; its level
\* becomes the mask and the frame holds its vector, unless the vector is the
\* monitor's, which returns at once; and when none is above the mask nothing is
\* delivered (exception_check_and_handle asks exception.c and sim_iack_func, which
\* know of levels only).
DeliversPendingInputs ==
  [][phase = "check" =>
       IF \A n \in IPR : ICR[n] <= core.sr.i THEN UNCHANGED core
       ELSE \E n \in IPR \ IMR :
              LET vector == IF n \in Autovectored THEN 24 + ICR[n] ELSE Device[n]
              IN /\ \A m \in IPR : ICR[m] <= ICR[n]
                 /\ core'.sr.i = IF vector \in DOMAIN Handler THEN ICR[n] ELSE core.sr.i
                 /\ vector \in DOMAIN Handler =>
                      core'.pc = Handler[vector] /\ core'.ram[core'.a7].word = vector
    ]_<<core, phase>>
=============================================================================
