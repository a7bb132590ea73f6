------------------------- MODULE BreakpointsProofs -------------------------
(***************************************************************************)
(* As long as no command of the monitor faults, the breakpoints keep the   *)
(* program's words: the monitor's prompt sees the program as it is, and    *)
(* when it is left the program differs from it by the ILLEGAL instructions *)
(* of the breakpoints only.  The run Breakpoints shows that a fault inside *)
(* a command is enough to lose a word.                                     *)
(***************************************************************************)
EXTENDS Breakpoints, TLAPS

\* A breakpoint is at an address and keeps a word of the program.
Entries == [address : Addresses, save_word : {Program[a] : a \in Addresses}]

\* No two breakpoints have one address, and each has a word saved.
Table ==
  /\ breakpoint \in Seq(Entries)
  /\ \A x, y \in DOMAIN breakpoint : breakpoint[x].address = breakpoint[y].address => x = y

\* While the program runs, only breakpoints are in memory besides the program.
Patched ==
  monitors = <<>> =>
    \A a \in Addresses : memory[a] = Program[a] \/ (a \in Set /\ memory[a] = ILLEGAL)

\* At a prompt there is one exception, and memory is the program.
Restored ==
  monitors # <<>> => Len(monitors) = 1 /\ \A a \in Addresses : memory[a] = Program[a]

\* The inductive invariant.
IInv ==
  /\ Table /\ Patched /\ Restored /\ OldWordIsSaved
  /\ pc \in Addresses /\ pc_instruction_begin \in Addresses /\ monitors \in Seq(Addresses)

\* The word that goes back over a breakpoint is the program's.
LEMMA SavedWords ==
  ASSUME Table, OldWordIsSaved, NEW a \in Set
  PROVE  SaveWord(a) = Program[a]
<1>1. PICK x \in DOMAIN breakpoint :
        /\ breakpoint[x].address = a
        /\ x = CHOOSE y \in DOMAIN breakpoint : breakpoint[y].address = a
  BY DEF Set
<1>2. QED
  BY <1>1 DEF SaveWord, OldWordIsSaved

\* So the monitor's prompt finds the program's words.
LEMMA Entering ==
  ASSUME IInv, memory' = Monitor_BR_EnterException
  PROVE  \A a \in Addresses : memory'[a] = Program[a]
<1>1. SUFFICES ASSUME NEW a \in Addresses PROVE Monitor_BR_EnterException[a] = Program[a]
  OBVIOUS
<1>2. CASE a \in Set
  BY <1>2, SavedWords DEF IInv, Monitor_BR_EnterException
<1>3. CASE a \notin Set
  BY <1>3 DEF IInv, Patched, Restored, Monitor_BR_EnterException
<1>4. QED
  BY <1>2, <1>3

\* A command that sets a breakpoint saves the word it finds.
LEMMA Added ==
  ASSUME IInv, Monitor_BR
  PROVE  IInv'
<1>1. PICK a \in Addresses \ Set :
        breakpoint' = Append(breakpoint, [address |-> a, save_word |-> memory[a]])
  BY DEF Monitor_BR
<1>2. memory[a] = Program[a] /\ monitors # <<>>
      /\ UNCHANGED <<memory, pc, pc_instruction_begin, monitors>>
  BY DEF Monitor_BR, IInv, Restored
<1>3. PICK b : b = [address |-> a, save_word |-> Program[a]]
  OBVIOUS
<1>4. breakpoint' = Append(breakpoint, b) /\ b.address = a /\ b.save_word = Program[a]
  BY <1>1, <1>2, <1>3
<1>5. b \in Entries
  BY <1>3 DEF Entries
<1>6. /\ Len(breakpoint) \in Nat /\ DOMAIN breakpoint = 1 .. Len(breakpoint)
      /\ DOMAIN breakpoint' = 1 .. Len(breakpoint) + 1
      /\ breakpoint'[Len(breakpoint) + 1] = b
      /\ \A x \in DOMAIN breakpoint : breakpoint'[x] = breakpoint[x]
  BY <1>4, <1>5 DEF IInv, Table
<1>7. breakpoint' \in Seq(Entries)
  BY <1>4, <1>5 DEF IInv, Table
<1>8. \A x \in DOMAIN breakpoint : breakpoint[x].address # a
  BY DEF Set
<1>9. Table'
  <2>1. \A x, y \in DOMAIN breakpoint' : breakpoint'[x].address = breakpoint'[y].address => x = y
    BY <1>4, <1>6, <1>8 DEF IInv, Table
  <2>2. QED
    BY <1>7, <2>1 DEF Table
<1>10. OldWordIsSaved'
  BY <1>4, <1>6 DEF IInv, OldWordIsSaved
<1>11. QED
  BY <1>2, <1>9, <1>10 DEF IInv, Patched, Restored

\* When the monitor is left, every breakpoint saves the word of the program again.
LEMMA Left ==
  ASSUME IInv, Monitor_GO
  PROVE  IInv'
<1>1. PICK target \in {Head(monitors)} \cup Addresses :
        Monitor_BR_ExitException(target) /\ pc' = target
  BY DEF Monitor_GO
<1>2. /\ monitors # <<>> /\ monitors' = Tail(monitors) /\ Len(monitors) = 1
      /\ UNCHANGED pc_instruction_begin
      /\ \A a \in Addresses : memory[a] = Program[a]
  BY DEF Monitor_GO, IInv, Restored
<1>3. monitors' = <<>> /\ Head(monitors) \in Addresses
  BY <1>2 DEF IInv
<1>4. \A x \in DOMAIN breakpoint : breakpoint[x].address \in Addresses
  <2>1. breakpoint \in Seq(Entries)
    BY DEF IInv, Table
  <2>2. \A x \in DOMAIN breakpoint :
          breakpoint[x] \in Entries
    BY <2>1
  <2>3. QED
    BY <2>2 DEF Entries
<1>5. /\ DOMAIN breakpoint' = DOMAIN breakpoint
      /\ \A x \in DOMAIN breakpoint :
           breakpoint'[x] = [address |-> breakpoint[x].address,
                             save_word |-> Program[breakpoint[x].address]]
  <2>1. \A x \in DOMAIN breakpoint : breakpoint[x].save_word = Program[breakpoint[x].address]
    BY DEF IInv, OldWordIsSaved
  <2>2. \A x \in DOMAIN breakpoint :
          breakpoint[x] \in Entries
    <3>1. breakpoint \in Seq(Entries)
      BY DEF IInv, Table
    <3>2. QED
      BY <3>1
  <2>3. breakpoint' = [x \in DOMAIN breakpoint |->
          IF breakpoint[x].address = target THEN breakpoint[x]
          ELSE [breakpoint[x] EXCEPT !.save_word = memory[breakpoint[x].address]]]
    BY <1>1 DEF Monitor_BR_ExitException
  <2>4. QED
    BY <1>2, <1>4, <2>1, <2>2, <2>3 DEF Entries
<1>6. \A x \in DOMAIN breakpoint :
        breakpoint'[x].address = breakpoint[x].address
        /\ breakpoint'[x].save_word = Program[breakpoint'[x].address]
  BY <1>5
<1>7. breakpoint' \in Seq(Entries)
  <2>1. DOMAIN breakpoint = 1 .. Len(breakpoint) /\ Len(breakpoint) \in Nat
    BY DEF IInv, Table
  <2>2. \A x \in 1 .. Len(breakpoint) :
          breakpoint'[x] \in Entries
    BY <1>4, <1>5, <2>1 DEF Entries
  <2>3. breakpoint' = [x \in 1 .. Len(breakpoint) |->
          LET a == breakpoint[x].address
          IN IF a = target THEN breakpoint[x] ELSE [breakpoint[x] EXCEPT !.save_word = memory[a]]]
    BY <1>1, <2>1 DEF Monitor_BR_ExitException
  <2>4. PICK n \in Nat : n = Len(breakpoint)
    BY <2>1
  <2>5. breakpoint' \in [1 .. n -> Entries]
    BY <2>2, <2>3, <2>4
  <2>6. QED
    BY <2>4, <2>5
<1>8. Table' /\ OldWordIsSaved'
  BY <1>5, <1>6, <1>7 DEF IInv, Table, OldWordIsSaved
<1>9. Set' = Set
  BY <1>5, <1>6 DEF Set
<1>10. Patched'
  <2>1. \A a \in Addresses : memory'[a] = IF a \in Set \ {target} THEN ILLEGAL ELSE memory[a]
    BY <1>1 DEF Monitor_BR_ExitException
  <2>2. \A a \in Addresses : memory'[a] = Program[a] \/ (a \in Set' /\ memory'[a] = ILLEGAL)
    <3>1. SUFFICES ASSUME NEW a \in Addresses
                   PROVE  memory'[a] = Program[a] \/ (a \in Set' /\ memory'[a] = ILLEGAL)
      OBVIOUS
    <3>2. CASE a \in Set /\ a # target
      <4>1. memory'[a] = ILLEGAL
        BY <2>1, <3>2
      <4>2. QED
        BY <1>9, <3>2, <4>1
    <3>3. CASE ~(a \in Set /\ a # target)
      <4>1. memory'[a] = memory[a]
        BY <2>1, <3>3
      <4>2. QED
        BY <1>2, <4>1
    <3>4. QED
      BY <3>2, <3>3
  <2>3. QED
    BY <2>2 DEF Patched
<1>11. QED
  BY <1>1, <1>2, <1>3, <1>8, <1>10 DEF IInv, Restored

\* Without a fault inside a command, every step preserves the invariant.
LEMMA NextPreserves == IInv /\ [Next]_vars /\ [~Fault]_vars => IInv'
<1>1. SUFFICES ASSUME IInv, [Next]_vars, [~Fault]_vars PROVE IInv'
  OBVIOUS
<1>2. CASE Monitor_HandleException
  <2>1. \A a \in Addresses : memory'[a] = Program[a]
    BY <1>1, <1>2, Entering DEF Monitor_HandleException
  <2>2. /\ monitors' = <<pc>> /\ UNCHANGED <<breakpoint, pc>>
        /\ pc_instruction_begin' \in {pc_instruction_begin, pc}
    BY <1>2 DEF Monitor_HandleException
  <2>3. QED
    BY <1>1, <2>1, <2>2 DEF IInv, Table, Patched, Restored, OldWordIsSaved
<1>3. CASE Run
  BY <1>1, <1>3 DEF Run, IInv, Table, Patched, Restored, OldWordIsSaved, Set
<1>4. CASE Monitor_BR
  BY <1>1, <1>4, Added
<1>5. CASE Monitor_GO
  BY <1>1, <1>5, Left
<1>6. CASE UNCHANGED vars
  BY <1>1, <1>6 DEF vars, IInv, Table, Patched, Restored, OldWordIsSaved, Set
<1>7. QED
  BY <1>1, <1>2, <1>3, <1>4, <1>5, <1>6 DEF Next

\* As long as no command faults, a breakpoint keeps the program's word, the program
\* differs from what was loaded by the breakpoints only, and a prompt sees the
\* program itself (br.c): for any program and any number of breakpoints.
THEOREM WordsAreSaved == Spec /\ [][~Fault]_vars => [](OldWordIsSaved /\ Patched /\ Restored)
<1>1. Init => IInv
  <2>1. SUFFICES ASSUME Init PROVE IInv
    OBVIOUS
  <2>2. breakpoint = <<>> /\ monitors = <<>> /\ memory = Program /\ pc \in Addresses
        /\ pc_instruction_begin \in Addresses
    BY <2>1 DEF Init
  <2>3. breakpoint \in Seq(Entries) /\ DOMAIN breakpoint = {} /\ monitors \in Seq(Addresses)
    BY <2>2
  <2>4. Table /\ OldWordIsSaved
    BY <2>3 DEF Table, OldWordIsSaved
  <2>5. Patched /\ Restored
    BY <2>2 DEF Patched, Restored
  <2>6. QED
    BY <2>2, <2>3, <2>4, <2>5 DEF IInv
<1>2. IInv => OldWordIsSaved /\ Patched /\ Restored
  BY DEF IInv
<1>3. QED
  BY <1>1, <1>2, NextPreserves, PTL DEF Spec
=============================================================================
