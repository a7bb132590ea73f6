---------------------------- MODULE Breakpoints ----------------------------
(***************************************************************************)
(* The breakpoints of the monitor (monitor/br.c).  A breakpoint is an      *)
(* ILLEGAL instruction over a word of the program.  Each time the monitor  *)
(* handles an exception it puts the program's words back, and when it is   *)
(* left it writes the ILLEGAL instructions again, except at the address    *)
(* where the program goes on (monitor/main.c).                             *)
(*                                                                         *)
(* A command that reads memory may fault, and the monitor handles that     *)
(* exception inside the command: it is entered again and left again before *)
(* the first prompt is back.  The program does not write its own code.     *)
(***************************************************************************)
EXTENDS Integers, Sequences

CONSTANTS
  Addresses,        \* the code, by address
  Program,          \* the word that the program has at each address
  ILLEGAL,          \* 0x4AFC, which the program does not contain
  MAX_BREAKPOINTS,  \* 16
  MaxNesting        \* bounds the faults of commands inside commands

VARIABLES
  memory,
  breakpoint,  \* those that are set: [address, save_word]
  pc,
  pc_instruction_begin,
  monitors     \* the pc in the frame of each exception that is at a prompt, the last first

vars == <<memory, breakpoint, pc, pc_instruction_begin, monitors>>

Init ==
  /\ memory = Program /\ breakpoint = <<>>
  /\ pc \in Addresses /\ pc_instruction_begin \in Addresses /\ monitors = <<>>

Set == {breakpoint[x].address : x \in DOMAIN breakpoint}

SaveWord(a) == breakpoint[CHOOSE x \in DOMAIN breakpoint : breakpoint[x].address = a].save_word

\* The save words go over the ILLEGAL instructions.
Monitor_BR_EnterException == [a \in Addresses |-> IF a \in Set THEN SaveWord(a) ELSE memory[a]]

\* Every breakpoint but one at the current pc saves the word that is there, and
\* writes an ILLEGAL instruction.
Monitor_BR_ExitException(current_PC) ==
  /\ breakpoint' = [x \in DOMAIN breakpoint |->
       LET a == breakpoint[x].address
       IN IF a = current_PC THEN breakpoint[x] ELSE [breakpoint[x] EXCEPT !.save_word = memory[a]]]
  /\ memory' = [a \in Addresses |-> IF a \in Set \ {current_PC} THEN ILLEGAL ELSE memory[a]]

\* An exception that the monitor handles while the program runs: the signal or a
\* trap, after an instruction, or a breakpoint, which is one itself.
Monitor_HandleException ==
  /\ monitors = <<>>
  /\ monitors' = <<pc>>
  /\ pc_instruction_begin' \in {pc_instruction_begin, pc}
  /\ memory' = Monitor_BR_EnterException
  /\ UNCHANGED <<breakpoint, pc>>

\* The program goes on, as long as it does not meet a breakpoint.
Run ==
  /\ monitors = <<>> /\ memory[pc] # ILLEGAL
  /\ pc_instruction_begin' = pc /\ pc' \in Addresses
  /\ UNCHANGED <<memory, breakpoint, monitors>>

\* The command br: a new breakpoint gets a save word at once.
Monitor_BR ==
  /\ monitors # <<>>
  /\ Len(breakpoint) < MAX_BREAKPOINTS
  /\ \E a \in Addresses \ Set :
       breakpoint' = Append(breakpoint, [address |-> a, save_word |-> memory[a]])
  /\ UNCHANGED <<memory, pc, pc_instruction_begin, monitors>>

\* A command reads where there is no memory: exception 2, inside the command.
\* Its frame holds the address of the last instruction of the program, whatever pc
\* a command has set.
Fault ==
  /\ monitors # <<>> /\ Len(monitors) <= MaxNesting
  /\ monitors' = <<pc_instruction_begin>> \o monitors
  /\ memory' = Monitor_BR_EnterException
  /\ UNCHANGED <<breakpoint, pc, pc_instruction_begin>>

\* The command go leaves the monitor at the pc of the frame, or at another one.
\* What was interrupted is the program or, after a fault, a command.
Monitor_GO ==
  /\ monitors # <<>>
  /\ \E target \in {Head(monitors)} \cup Addresses :
       /\ Monitor_BR_ExitException(target)
       /\ pc' = target
  /\ monitors' = Tail(monitors) /\ UNCHANGED pc_instruction_begin

Next == Monitor_HandleException \/ Run \/ Monitor_BR \/ Fault \/ Monitor_GO

Spec == Init /\ [][Next]_vars

\* A breakpoint structure keeps the word that the program had at its address, as
\* the comment in Monitor_BR_ExitException says, so that the next exception can
\* put it back.
OldWordIsSaved == \A x \in DOMAIN breakpoint : breakpoint[x].save_word = Program[breakpoint[x].address]
=============================================================================
