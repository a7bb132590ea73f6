-------------------------------- MODULE Cpu --------------------------------
(***************************************************************************)
(* The instructions of ISA_A and ISA_B that compute, compare, move and     *)
(* branch (isa_a, isa_b), one action each.  The handler takes the opcode   *)
(* through the pc, forms its operands, computes, sets the condition codes  *)
(* and writes the result.  Opcodes are chosen and not read from memory:    *)
(* which handler an opcode reaches is modelled in Decoder.  Calls, returns *)
(* and everything that touches the supervisor's state are in Exceptions.   *)
(*                                                                         *)
(* core is the machine.  The other variables remember what was executed,   *)
(* for the properties: done is the last instruction with its operands,     *)
(* compared the last two numbers the condition codes compare, number the   *)
(* sum or difference that a chain of instructions joined by X has formed.  *)
(***************************************************************************)
EXTENDS Operands, Sequences

CONSTANTS
  Operand,        \* the operands of the instructions
  Sizes,          \* subset of {1, 2, 4}: of CLR, MOVE and TST
  Immediates,     \* data in the instruction word: quick numbers, shift counts
  LongData,       \* data in two extension words
  Displacements,  \* of a branch: [byte, word, long]
  InitialCores,
  MaxSteps        \* bound: how many instructions are executed

ASSUME CpuAssumption ==
  /\ \A ea \in Operand : IsOperand(ea)
  /\ Sizes \subseteq {1, 2, 4} /\ Immediates \subseteq 1 .. 8 /\ LongData \subseteq Longs
  /\ Displacements \subseteq [byte : 0 .. Byte - 1, word : 0 .. Word - 1, long : Longs]
  /\ InitialCores \subseteq Machines /\ MaxSteps \in Nat

VARIABLES core, done, compared, number, steps

vars == <<core, done, compared, number, steps>>

None == [none |-> TRUE]

Registers == {0, 1}

Register(n, size) == [mode |-> "Dn", reg |-> n, size |-> size, address |-> 0, data |-> 0]
AddressRegister(n) == [mode |-> "An", reg |-> n, size |-> 4, address |-> 0, data |-> 0]

Init ==
  /\ core \in InitialCores
  /\ done = [instr |-> "none", as |-> "none"]
  /\ compared = None /\ number = None /\ steps = 0

-----------------------------------------------------------------------------
(* What handlers have in common *)

Opcode == Memory_RetrFromPC(core, 2)

\* The operands that lie in ram, with the machine as it is when they are formed.
Reachable(m, size) == {ea \in Operand : Inside(EA_GetFromPC(m, size, ea).at)}

\* <ea> op Dn -> Dn, or Dn op <ea> -> <ea>: the address is formed once and
\* serves the read and the write.
Pair(m, size, ea, n, toRegister) ==
  LET e == EA_GetFromPC(m, size, ea)
      v == EA_GetValue(e.core, e.at)
      r == SignExtend(e.core.d[n], size)
  IN IF toRegister
     THEN [core |-> e.core, s |-> v, d |-> r, at |-> Register(n, size)]
     ELSE [core |-> e.core, s |-> r, d |-> v, at |-> e.at]

\* One register, and a number from the instruction stream.
Immediate(n, data) ==
  Pair(Opcode, 4, [mode |-> "Immediate", reg |-> 4, data |-> data], n, TRUE)

\* Both operands in data registers.
Both(y, x) == Pair(Opcode, 4, [mode |-> "Dn", reg |-> y, data |-> 0], x, TRUE)

Did(instr, as, p, result) ==
  [instr |-> instr, as |-> as, at |-> p.at, s |-> p.s, d |-> p.d,
   r |-> result % Long, flags |-> core.ccr]

\* An instruction whose flags SR_Set makes, under the name it is told.
Arithmetic(instr, as, p, result) ==
  /\ core' = [EA_PutValue(p.core, p.at, result % Long) EXCEPT
                !.ccr = SR_Set(as, p.s, p.d, result % Long, @)]
  /\ done' = Did(instr, as, p, result)

\* A mutant: the sign is looked for in the truncated result.
Logic_truncated(instr, p, result) ==
  /\ core' = [EA_PutValue(p.core, p.at, result % Long) EXCEPT
                !.ccr = Logical(result % Values(p.at.size), @)]
  /\ done' = Did(instr, "logical", p, result)

\* An instruction that sets N and Z itself and clears V and C.
Logic(instr, p, result) ==
  /\ core' = [EA_PutValue(p.core, p.at, result % Long) EXCEPT
                !.ccr = Logical(result % Long, @)]
  /\ done' = Did(instr, "logical", p, result)

\* A comparison writes its flags and nothing else.
Compare(instr, p, result) ==
  /\ core' = [p.core EXCEPT !.ccr = SR_Set("CMP", p.s, p.d, result % Long, @)]
  /\ done' = Did(instr, "CMP", p, result)

\* A mutant: the sum is not reduced to 32 bits.
ToAddress_wide(instr, p, result) ==
  /\ core' = EA_PutValue(p.core, p.at, result)
  /\ done' = Did(instr, "address", p, result)

\* An address register is written whole and the flags stay.
ToAddress(instr, p, result) ==
  /\ core' = EA_PutValue(p.core, p.at, result % Long)
  /\ done' = Did(instr, "address", p, result)

\* The registers of MOVEM, from the low bit of the mask up.
Listed == <<Register(0, 4), Register(1, 4), AddressRegister(0), AddressRegister(7)>>

-----------------------------------------------------------------------------
(* Addition and subtraction *)

ADD ==
  \E ea \in Reachable(Opcode, 4), n \in Registers, toRegister \in BOOLEAN :
    /\ toRegister \/ ea.mode \notin {"Dn", "An"}
    /\ LET p == Pair(Opcode, 4, ea, n, toRegister) IN Arithmetic("ADD", "ADD", p, p.s + p.d)

ADDA ==
  \E ea \in Reachable(Opcode, 4) :
    LET e == EA_GetFromPC(Opcode, 4, ea)
        p == [core |-> e.core, s |-> EA_GetValue(e.core, e.at), d |-> e.core.a[0],
              at |-> AddressRegister(0)]
    IN ToAddress("ADDA", p, p.s + p.d)

ADDI ==
  \E n \in Registers, data \in LongData :
    LET p == Immediate(n, data) IN Arithmetic("ADDI", "ADD", p, p.s + p.d)

\* The quick number and its destination; a form that names no place is refused
\* when its address is formed and the pc is behind the extension words.
Quick(instr, as, Op(_, _)) ==
  \E ea \in Reachable(Opcode, 4), data \in Immediates :
    LET e == EA_GetFromPC(Opcode, 4, ea)
        d == EA_GetValue(e.core, e.at)
        p == [core |-> e.core, s |-> data, d |-> d, at |-> e.at]
    IN \/ /\ ea.mode \in Writable \ {"An"}
          /\ Arithmetic(instr, as, p, Op(d, data))
       \/ /\ ea.mode = "An"
          /\ ToAddress(instr, p, Op(d, data))
       \/ /\ ea.mode \notin Writable
          /\ core' = e.core
          /\ done' = Did("refused", "pc", p, 0)

ADDQ == Quick("ADDQ", "ADD", LAMBDA d, s : d + s)

ADDX ==
  \E y, x \in Registers :
    LET p == Both(y, x)
    IN Arithmetic("ADDX", "ADDX", p, p.s + p.d + (IF core.ccr.x THEN 1 ELSE 0))

SUB ==
  \E ea \in Reachable(Opcode, 4), n \in Registers, toRegister \in BOOLEAN :
    /\ toRegister \/ ea.mode \notin {"Dn", "An"}
    /\ LET p == Pair(Opcode, 4, ea, n, toRegister) IN Arithmetic("SUB", "SUB", p, p.d - p.s)

SUBA ==
  \E ea \in Reachable(Opcode, 4) :
    LET e == EA_GetFromPC(Opcode, 4, ea)
        p == [core |-> e.core, s |-> EA_GetValue(e.core, e.at), d |-> e.core.a[0],
              at |-> AddressRegister(0)]
    IN ToAddress("SUBA", p, p.d - p.s)

SUBI ==
  \E n \in Registers, data \in LongData :
    LET p == Immediate(n, data) IN Arithmetic("SUBI", "SUB", p, p.d - p.s)

SUBQ == Quick("SUBQ", "SUB", LAMBDA d, s : d - s)

SUBX ==
  \E y, x \in Registers :
    LET p == Both(y, x)
    IN Arithmetic("SUBX", "SUBX", p, p.d - p.s - (IF core.ccr.x THEN 1 ELSE 0))

\* The register is the destination and 0 the source of the flags.
Alone(n) == [core |-> Opcode, s |-> 0, d |-> core.d[n], at |-> Register(n, 4)]

NEG == \E n \in Registers : Arithmetic("NEG", "NEG", Alone(n), 0 - core.d[n])

NEGX ==
  \E n \in Registers :
    Arithmetic("NEGX", "NEGX", Alone(n), 0 - core.d[n] - (IF core.ccr.x THEN 1 ELSE 0))

-----------------------------------------------------------------------------
(* Comparison *)

CMP ==
  \E ea \in Reachable(Opcode, 4), n \in Registers :
    LET p == Pair(Opcode, 4, ea, n, TRUE) IN Compare("CMP", p, p.d - p.s)

CMPA ==
  \E ea \in Reachable(Opcode, 4) :
    LET e == EA_GetFromPC(Opcode, 4, ea)
        p == [core |-> e.core, s |-> EA_GetValue(e.core, e.at), d |-> e.core.a[0],
              at |-> AddressRegister(0)]
    IN Compare("CMPA", p, p.d - p.s)

CMPI ==
  \E n \in Registers, data \in LongData :
    LET p == Immediate(n, data) IN Compare("CMPI", p, p.d - p.s)

\* ISA_B: the difference is that of the unsigned bytes, the signs are those of
\* the sign extended operands.
CMP_B ==
  \E ea \in Reachable(Opcode, 1), n \in Registers :
    LET p == Pair(Opcode, 1, ea, n, TRUE)
    IN Compare("CMP", p, (p.d % Byte) - (p.s % Byte))

CMP_W ==
  \E ea \in Reachable(Opcode, 2), n \in Registers :
    LET p == Pair(Opcode, 2, ea, n, TRUE)
    IN Compare("CMP", p, (p.d % Word) - (p.s % Word))

TST ==
  \E size \in Sizes : \E ea \in Reachable(Opcode, size) :
    LET e == EA_GetFromPC(Opcode, size, ea)
        v == EA_GetValue(e.core, e.at)
        p == [core |-> e.core, s |-> v, d |-> v, at |-> e.at]
    IN /\ core' = [e.core EXCEPT !.ccr = Logical(v, @)]
       /\ done' = Did("TST", "logical", p, v)

-----------------------------------------------------------------------------
(* Logic *)

\* The two directions of AND, OR and EOR; refused is what a destination may
\* not be, and an address register is never an operand.
Bitwise(instr, refused, Op(_, _)) ==
  \E ea \in Reachable(Opcode, 4), n \in Registers, toRegister \in BOOLEAN :
    /\ ea.mode \notin IF toRegister THEN {"An"} ELSE refused
    /\ LET p == Pair(Opcode, 4, ea, n, toRegister) IN Logic(instr, p, Op(p.s, p.d))

AND == Bitwise("AND", {"Dn", "An", "Immediate"}, And)
OR == Bitwise("OR", {"Dn", "An", "Immediate"}, Or)

\* EOR takes a data register for its destination, and lets an address register
\* pass as one.
EOR == Bitwise("EOR", {"Immediate"}, Eor)

BitwiseImmediate(instr, Op(_, _)) ==
  \E n \in Registers, data \in LongData :
    LET p == Immediate(n, data) IN Logic(instr, p, Op(p.s, p.d))

ANDI == BitwiseImmediate("ANDI", And)
ORI == BitwiseImmediate("ORI", Or)
EORI == BitwiseImmediate("EORI", Eor)

NOT == \E n \in Registers : Logic("NOT", Alone(n), Not(core.d[n]))

\* The test reads the bit before it is changed, leaves every flag but Z, and
\* numbers the bits of a register or of a byte.
BTST ==
  \E op \in {"BTST", "BCHG", "BCLR", "BSET"}, dynamic \in BOOLEAN, n \in Registers :
    LET opcode == IF dynamic THEN Opcode ELSE Memory_RetrFromPC(Opcode, 1)
    IN \E ea \in {e \in Operand : Inside(EA_GetFromPC(opcode, IF e.mode = "Dn" THEN 4 ELSE 1, e).at)} :
         LET size == IF ea.mode = "Dn" THEN 4 ELSE 1
             e == EA_GetFromPC(opcode, size, ea)
             bit == (IF dynamic THEN core.d[n] ELSE SignExtend(n, 1))
                      % (size * ByteBits)
             value == EA_GetValue(e.core, e.at)
             bits == BitsOf(value)
             result == FromBits(CASE op = "BTST" -> bits
                                  [] op = "BCHG" -> (bits \cup {bit}) \ (bits \cap {bit})
                                  [] op = "BCLR" -> bits \ {bit}
                                  [] op = "BSET" -> bits \cup {bit})
         IN /\ core' = [(IF op = "BTST" THEN e.core ELSE EA_PutValue(e.core, e.at, result))
                          EXCEPT !.ccr.z = bit \notin bits]
            /\ done' = Did(op, "bit", [at |-> e.at, s |-> bit, d |-> value], result)

-----------------------------------------------------------------------------
(* Moves *)

\* The source is read before the address of the destination is formed.
MOVE ==
  \E size \in Sizes : \E from \in Reachable(Opcode, size) :
    LET e == EA_GetFromPC(Opcode, size, from)
        v == EA_GetValue(e.core, e.at)
    IN \E to \in {x \in Operand : Inside(EA_GetFromPC(e.core, size, x).at)} :
         LET f == EA_GetFromPC(e.core, size, to)
             p == [core |-> f.core, s |-> v, d |-> v, at |-> f.at]
         IN IF to.mode = "An" THEN ToAddress("MOVEA", p, v) ELSE Logic("MOVE", p, v)

MOVEQ ==
  \E n \in Registers, data \in 0 .. Byte - 1 :
    Logic("MOVEQ", Alone(n), SignExtend(data, 1))

CLR ==
  \E size \in Sizes : \E ea \in Reachable(Opcode, size) :
    LET e == EA_GetFromPC(Opcode, size, ea)
    IN Logic("CLR", [core |-> e.core, s |-> 0, d |-> 0, at |-> e.at], 0)

\* Byte to word, word to long word, byte to long word.
EXT ==
  \E n \in Registers, from \in {1, 2}, to \in {2, 4} :
    /\ from < to
    /\ Logic("EXT", [Alone(n) EXCEPT !.at = Register(n, to)], SignExtend(core.d[n], from))

SWAP ==
  \E n \in Registers :
    Logic("SWAP", Alone(n), (core.d[n] % Word) * Word + (core.d[n] \div Word))

\* Only a mode that names a place has an effective address.
LEA ==
  \E ea \in Reachable(Opcode, 4) :
    LET e == EA_GetFromPC(Opcode, 4, ea)
    IN /\ ea.mode \in Control
       /\ ToAddress("LEA", [core |-> e.core, s |-> 0, d |-> 0, at |-> AddressRegister(0)],
                    e.at.address)

\* How many registers of the mask are moved before the i-th of the list.
Before(mask, i) == Cardinality({j \in 1 .. i - 1 : Listed[j] \in mask})

\* A mutant: a load takes the registers from the far end.
MovemPlace_reversed(address, mask, i, load) ==
  address + 4 * (IF load THEN Cardinality(mask) - 1 - Before(mask, i) ELSE Before(mask, i))

MovemPlace(address, mask, i, load) == address + 4 * Before(mask, i)

\* The address is formed once, from the registers as they were: a load may
\* overwrite the register it was formed from.  The loop goes over all registers.
MOVEM ==
  \E mask \in SUBSET Range(Listed), load \in BOOLEAN, ea \in Operand :
    LET e == EA_GetFromPC(Memory_RetrFromPC(Opcode, 2), 4, ea)
        place(i) == MovemPlace(e.at.address, mask, i, load)
        moved[i \in 0 .. Len(Listed)] ==
          IF i = 0 THEN e.core
          ELSE LET m == moved[i - 1]
               IN IF Listed[i] \notin mask THEN m
                  ELSE IF load THEN EA_PutValue(m, Listed[i], Memory_Retr(m, 4, place(i)))
                  ELSE Memory_Stor(m, 4, place(i), EA_GetValue(m, Listed[i]))
    IN /\ ea.mode \in {"Indirect", "Displaced"}
       /\ e.at.address .. e.at.address + 4 * Cardinality(mask) - 1 \subseteq Addresses
       /\ core' = moved[Len(Listed)]
       /\ done' = [instr |-> "MOVEM", as |-> IF load THEN "load" ELSE "store",
                   mask |-> mask, address |-> e.at.address]

-----------------------------------------------------------------------------
(* Shifts, products and quotients *)

\* The count is in the instruction word, or in a register, modulo 64 for a long
\* word of 32 bits.
Counts == Immediates \cup {core.d[n] % (2 * LongBits) : n \in Registers}

Shifted(instr, n, count, result, flags) ==
  /\ core' = [EA_PutValue(Opcode, Register(n, 4), result) EXCEPT
                !.ccr = [flags EXCEPT !.n = Negative(result), !.z = (result = 0), !.v = FALSE]]
  /\ done' = Did(instr, "shift", [at |-> Register(n, 4), s |-> count, d |-> core.d[n]], result)

\* A mutant: the sign is not copied into the bit that becomes free.
ASR_logical(value, count, flags) ==
  LET step[i \in 0 .. count] ==
        IF i = 0 THEN [result |-> value, flags |-> flags]
        ELSE LET last == step[i - 1]
                 out == last.result % 2 = 1
             IN [result |-> last.result \div 2,
                 flags |-> [last.flags EXCEPT !.c = out, !.x = out]]
  IN step[count]

\* One bit in every round of the loop: C and X are the bit that leaves, and a
\* count of 0 leaves them alone.
ASR(value, count, flags) ==
  LET step[i \in 0 .. count] ==
        IF i = 0 THEN [result |-> value, flags |-> flags]
        ELSE LET last == step[i - 1]
                 half == last.result \div 2
                 out == last.result % 2 = 1
             IN [result |-> half + (IF 4 * half >= Long THEN Long \div 2 ELSE 0),
                 flags |-> [last.flags EXCEPT !.c = out, !.x = out]]
  IN step[count]

ASL(value, count, flags) ==
  LET step[i \in 0 .. count] ==
        IF i = 0 THEN [result |-> value, flags |-> flags]
        ELSE LET last == step[i - 1]
                 out == Negative(last.result)
             IN [result |-> (2 * last.result) % Long,
                 flags |-> [last.flags EXCEPT !.c = out, !.x = out]]
  IN step[count]

ASX ==
  \E n \in Registers, count \in Counts, right \in BOOLEAN :
    LET shift == IF right THEN ASR(core.d[n], count, core.ccr)
                          ELSE ASL(core.d[n], count, core.ccr)
    IN Shifted(IF right THEN "ASR" ELSE "ASL", n, count, shift.result, shift.flags)

\* In one go: the last bit that leaves is picked out of the operand.
LSX ==
  \E n \in Registers, count \in Counts, right \in BOOLEAN :
    LET value == core.d[n]
        result == IF count = 0 THEN value
                  ELSE IF count >= LongBits THEN 0
                  ELSE IF right THEN value \div Power[count] ELSE (value * Power[count]) % Long
        last == /\ count <= LongBits
                /\ (IF right THEN count - 1 ELSE LongBits - count) \in BitsOf(value)
    IN Shifted(IF right THEN "LSR" ELSE "LSL", n, count, result,
               IF count = 0 THEN [core.ccr EXCEPT !.c = FALSE]
                            ELSE [core.ccr EXCEPT !.c = last, !.x = last])

MUL_W ==
  \E ea \in Reachable(Opcode, 2), n \in Registers, signed \in BOOLEAN :
    LET e == EA_GetFromPC(Opcode, 2, ea)
        v == EA_GetValue(e.core, e.at)
        d == e.core.d[n]
        p == [core |-> e.core, s |-> v, d |-> d, at |-> Register(n, 4)]
    IN /\ ea.mode # "An"
       /\ Logic("MUL_W", p, IF signed
                            THEN Signed(v) * SignedAt(d % Word, Word)
                            ELSE (v % Word) * (d % Word))

\* The register is named by a second word.  Signed and unsigned products have
\* the same low half.
MULU_L ==
  \E ea \in Reachable(Memory_RetrFromPC(Opcode, 2), 4), n \in Registers :
    LET p == Pair(Memory_RetrFromPC(Opcode, 2), 4, ea, n, TRUE)
    IN /\ ea.mode \notin {"An", "PCDisplaced", "PCIndexed", "Immediate"} \cup Absolute
       /\ Logic("MULU_L", p, p.s * p.d)

Magnitude(v) == IF Negative(v) THEN Long - v ELSE v

\* The long form.  The sign that was meant for the quotient is masked out of a
\* bit that the char it is kept in does not have, and is never set.  A divisor
\* of 0 ends the emulator and is left out.
DIV ==
  \E ea \in Reachable(Memory_RetrFromPC(Opcode, 2), 4), x, w \in Registers, signed \in BOOLEAN :
    LET p == Pair(Memory_RetrFromPC(Opcode, 2), 4, ea, x, TRUE)
        s == IF signed THEN Magnitude(p.s) ELSE p.s
        d == IF signed THEN Magnitude(p.d) ELSE p.d
        result == IF x # w THEN d % s ELSE d \div s
        to == Register(IF x # w THEN w ELSE x, 4)
    IN /\ p.s # 0
       /\ core' = [EA_PutValue(p.core, to, result) EXCEPT
                     !.ccr = [@ EXCEPT !.n = FALSE, !.z = (result = 0), !.v = FALSE, !.c = FALSE]]
       /\ done' = Did("DIV", "divide", [p EXCEPT !.at = to], result)

-----------------------------------------------------------------------------
(* Conditions, branches and jumps *)

\* A byte of the register, all ones or zero.
SCC ==
  \E n \in Registers, condition \in Conditions \cup {"T", "F"} :
    LET set == CASE condition = "T" -> TRUE
                 [] condition = "F" -> FALSE
                 [] OTHER -> SetTaken(condition, core.ccr)
    IN /\ core' = EA_PutValue(Opcode, Register(n, 1), IF set THEN Byte - 1 ELSE 0)
       /\ done' = [instr |-> "SCC", as |-> "condition", at |-> Register(n, 1),
                   condition |-> condition, taken |-> set]

\* Where a branch of ISA_A goes, and the machine behind its extension word.
Target_a(x) ==
  IF x.byte # 0 THEN [core |-> Opcode, offset |-> SignExtend(x.byte, 1)]
  ELSE [core |-> Memory_RetrFromPC(Opcode, 2), offset |-> SignExtend(x.word, 2)]

\* ISA_B: a displacement of -1, from the byte or from the word, asks for a long word.
Target_b(x) ==
  LET short == Target_a(x)
  IN IF short.offset # Long - 1 THEN short
     ELSE [core |-> Memory_RetrFromPC(short.core, 4), offset |-> x.long]

\* The displacement counts from the word behind the opcode, and BSR pushes the
\* address behind the extension words.
Branch(target) ==
  \E condition \in Conditions \cup {"T", "SR"} :
    LET taken == condition \in {"T", "SR"} \/ BranchTaken(condition, core.ccr)
        pushed == IF condition = "SR" THEN Stack_Push(target.core, 4, target.core.pc)
                                      ELSE target.core
    IN /\ condition = "SR" => core.a[7] - 4 .. core.a[7] - 1 \subseteq Addresses
       /\ core' = IF taken THEN [pushed EXCEPT !.pc = (Opcode.pc + target.offset) % Long]
                           ELSE pushed
       /\ done' = [instr |-> "BCC", as |-> "condition", condition |-> condition, taken |-> taken]

BCC == \E x \in Displacements : Branch(Target_a(x))

BCC_isa_b == \E x \in Displacements : Branch(Target_b(x))

JMP ==
  \E ea \in Reachable(Opcode, 4) :
    LET e == EA_GetFromPC(Opcode, 4, ea)
    IN /\ ea.mode \in Control
       /\ core' = [e.core EXCEPT !.pc = e.at.address]
       /\ done' = [instr |-> "JMP", as |-> "pc"]

NOP == core' = Opcode /\ done' = [instr |-> "NOP", as |-> "pc"]

\* Two, four or no bytes to step over.
TRAPF ==
  \E size \in {0, 2, 4} :
    /\ core' = IF size = 0 THEN Opcode ELSE Memory_RetrFromPC(Opcode, size)
    /\ done' = [instr |-> "TRAPF", as |-> "pc"]

\* A form that the handler refuses before it forms an address: the pc is behind
\* the opcode, and for MULU.L and MOVEM behind their second word.
Refused ==
  \E m \in {Opcode, Memory_RetrFromPC(Opcode, 2)} :
    /\ core' = m
    /\ done' = [instr |-> "refused", as |-> "pc"]

-----------------------------------------------------------------------------
(* Programs: any instruction, and then those that use the flags it left *)

\* What an addition, subtraction or negation begins, and what ADDX, SUBX or
\* NEGX continues with a digit of the next weight.
Begun(x) ==
  [op |-> x.as, lhs |-> IF x.as = "NEG" THEN 0 ELSE x.d,
   rhs |-> IF x.as = "NEG" THEN x.d ELSE x.s, value |-> x.r, weight |-> Long]

Continued(n, x) ==
  LET digit == Begun([x EXCEPT !.as = n.op])
  IN [n EXCEPT !.lhs = @ + n.weight * digit.lhs, !.rhs = @ + n.weight * digit.rhs,
               !.value = @ + n.weight * digit.value, !.weight = @ * Long]

Continues == [ADDX |-> "ADD", SUBX |-> "SUB", NEGX |-> "NEG"]

Remember ==
  /\ steps' = steps + 1
  /\ number' = CASE done'.as \in {"ADD", "SUB", "NEG"} -> Begun(done')
                 [] done'.as \in Extended /\ number # None -> Continued(number, done')
                 [] OTHER -> None
  /\ compared' = CASE done'.as \in {"SUB", "CMP"} -> [d |-> done'.d, s |-> done'.s]
                   [] done'.as = "NEG" -> [d |-> 0, s |-> done'.d]
                   [] done'.as = "logical" -> [d |-> done'.r, s |-> 0]
                   [] done'.as \in {"address", "condition", "pc", "load", "store"} -> compared
                   [] OTHER -> None

Instruction ==
  \/ ADD \/ ADDA \/ ADDI \/ ADDQ \/ ADDX \/ SUB \/ SUBA \/ SUBI \/ SUBQ \/ SUBX
  \/ NEG \/ NEGX \/ CMP \/ CMPA \/ CMPI \/ CMP_B \/ CMP_W \/ TST
  \/ AND \/ OR \/ EOR \/ ANDI \/ ORI \/ EORI \/ NOT \/ BTST
  \/ MOVE \/ MOVEQ \/ CLR \/ EXT \/ SWAP \/ LEA \/ MOVEM
  \/ ASX \/ LSX \/ MUL_W \/ MULU_L \/ DIV
  \/ SCC \/ BCC \/ BCC_isa_b \/ JMP \/ NOP \/ TRAPF \/ Refused

\* The bound on programs: the first instruction is any of them, and what follows
\* it are the extended instruction of its kind and the users of a comparison.
Next ==
  /\ steps < MaxSteps
  /\ \/ steps = 0 /\ Instruction
     \/ steps > 0 /\ number # None /\ number.op = "ADD" /\ ADDX
     \/ steps > 0 /\ number # None /\ number.op = "SUB" /\ SUBX
     \/ steps > 0 /\ number # None /\ number.op = "NEG" /\ NEGX
     \/ steps > 0 /\ compared # None /\ SCC
     \/ steps > 0 /\ compared # None /\ BCC
  /\ Remember

Spec == Init /\ [][Next]_vars

-----------------------------------------------------------------------------
(* Properties *)

\* Registers, memory, pc and flags hold numbers of their widths, and so do the
\* numbers that are compared.
TypeOK ==
  /\ core \in Machines
  /\ steps \in 0 .. MaxSteps
  /\ compared = None \/ compared \in [d : Longs, s : Longs]

\* A sum, difference or negation that ADDX, SUBX or NEGX carries on through X is
\* the exact one: its digits, and at every point the carry, the overflow, the
\* sign and the zero flag, which an extended instruction only clears, are those
\* of the whole number so far (handlers.c SR_Set, i_addx.c, i_subx.c, i_negx.c).
\* C after NEGX is the borrow; the comment at handlers.c:129 has it cleared whenever
\* the result is zero, which differs for an operand of all ones with X set.
MultiwordIsExact ==
  number # None =>
    LET n == number
        sum == IF n.op = "ADD" THEN n.lhs + n.rhs ELSE n.lhs - n.rhs
        l == SignedAt(n.lhs, n.weight)
        r == SignedAt(n.rhs, n.weight)
        exact == IF n.op = "ADD" THEN l + r ELSE l - r
    IN /\ n.value = sum % n.weight
       /\ core.ccr = [x |-> sum \notin 0 .. n.weight - 1,
                      c |-> sum \notin 0 .. n.weight - 1,
                      n |-> 2 * n.value >= n.weight,
                      z |-> n.value = 0,
                      v |-> SignedAt(n.value, n.weight) # exact]

\* After a move, a logical operation, a product or an extension, N and Z say of
\* the destination, read back at its own size, whether it is negative or zero;
\* V and C are clear and X is as it was.  The comments of AND and ANDI say "set if
\* source is -ve" and "if source is zero" (i_and.c:83-84, i_andi.c:57-58): the code
\* has the result, as the property does.
FlagsDescribeDestination ==
  (done.as = "logical" /\ done.at.mode \in Writable) =>
    core.ccr = Logical(EA_GetValue(core, done.at), done.flags)

\* A condition that follows a comparison, a subtraction or a test says how the
\* two numbers are ordered, whatever their signs and their size; SHI alone is
\* another, as its comment says (i_scc.c:54).  BHI branches on neither carry nor
\* zero, where its comment says "not carry, or not zero" (i_bcc.c:66, bcc.c:72).
ConditionFollowsComparison ==
  (done.as = "condition" /\ compared # None /\ done.condition \in Relations
     /\ ~(done.instr = "SCC" /\ done.condition = "HI")) =>
    (done.taken <=> Relation(done.condition, compared.d, compared.s))

\* The loop of ASX and the closed form of LSX compute the quotient or the
\* product by a power of two, and C is the last bit that left; a count of 0
\* leaves X, and LSX clears C (comment at i_lsx.c:96-103).
ShiftIsExact ==
  done.as = "shift" =>
    LET value == IF done.instr = "ASR" THEN Signed(done.d) ELSE done.d
        count == done.s
        right == done.instr \in {"ASR", "LSR"}
        out == IF right THEN (value \div Power[count - 1]) % 2 = 1
                        ELSE ((value * Power[count]) \div Long) % 2 = 1
    IN /\ done.r = (IF right THEN value \div Power[count] ELSE value * Power[count]) % Long
       /\ core.d[done.at.reg] = done.r
       /\ core.ccr.x = IF count = 0 THEN done.flags.x ELSE out
       /\ count > 0 => core.ccr.c = out

\* A block move leaves memory and registers equal, register by register from the
\* low bit of the mask, also when it loads the register it is addressed by: what
\* is stored with a mask is what a load with that mask brings back (i_movem.c).
BlockMoveAgrees ==
  done.as \in {"load", "store"} =>
    \A i \in DOMAIN Listed :
      Listed[i] \in done.mask =>
        EA_GetValue(core, Listed[i]) = Memory_Retr(core, 4, done.address + 4 * Before(done.mask, i))

\* An instruction changes no data register, and no byte of memory, but those of
\* its destination, and of a data register only the bytes of its size; X is kept
\* by everything but arithmetic and shifts.
OnlyDestination ==
  done'.as \notin {"load", "store", "pc"} /\ done'.instr # "BCC" =>
    LET at == done'.at
    IN /\ \A n \in Registers : core'.d[n] # core.d[n] =>
            /\ at.mode = "Dn" /\ at.reg = n
            /\ core'.d[n] \div Values(at.size) = core.d[n] \div Values(at.size)
       /\ \A x \in Addresses : core'.ram[x] # core.ram[x] =>
            at.mode \in InMemory /\ x \in at.address .. at.address + at.size - 1
       /\ core'.ccr.x # core.ccr.x =>
            done'.as \in {"ADD", "SUB", "NEG", "shift"} \cup Extended

OnlyDestinationChanges == [][OnlyDestination]_vars
=============================================================================
