------------------------------ MODULE Operands ------------------------------
(***************************************************************************)
(* The operands of an instruction (addressing.c), on the registers and the *)
(* memory they live in (memory.c, peripherals/ram.c).                      *)
(*                                                                         *)
(* The operators work on a machine m: its registers d and a, its pc, its   *)
(* condition codes ccr and its ram.  An operand ea is what the instruction *)
(* word and the extension words that follow it say: the mode, the register *)
(* and the data, which is the displacement, the address or the number; for *)
(* the indexed modes also the bank and number of the index, and its scale.  An address *)
(* at is the _Address that EA_GetFromPC makes of it, which later reads and *)
(* writes share.  All accesses here are to ram: what an access outside the *)
(* segments does is modelled in Exceptions.                                *)
(***************************************************************************)
EXTENDS ConditionCodes, FiniteSets, Functions

CONSTANTS
  ByteBits,    \* the bits of a byte
  Addresses    \* the bytes of ram

LongBits == 4 * ByteBits

\* The powers of two, up to twice the bits of a long word.
Power[i \in 0 .. 2 * LongBits] == IF i = 0 THEN 1 ELSE 2 * Power[i - 1]

ASSUME OperandsAssumption ==
  /\ ByteBits \in Nat \ {0} /\ Byte = Power[ByteBits]
  /\ Addresses \subseteq Longs

Machines ==
  [d : [0 .. 1 -> Longs], a : [{0, 7} -> Longs], pc : Longs,
   ccr : Flags, ram : [Addresses -> 0 .. Byte - 1]]

-----------------------------------------------------------------------------
(* Memory, most significant byte first, and fetches through the pc *)

Memory_Retr(m, size, address) ==
  LET byte(i) == m.ram[address + i]
  IN CASE size = 1 -> byte(0)
       [] size = 2 -> byte(0) * Byte + byte(1)
       [] size = 4 -> (byte(0) * Byte + byte(1)) * Word + byte(2) * Byte + byte(3)

\* What the byte counts for that so many others follow.
Weight(following) ==
  CASE following = 0 -> 1
    [] following = 1 -> Byte
    [] following = 2 -> Word
    [] following = 3 -> Word * Byte

Memory_Stor(m, size, address, value) ==
  [m EXCEPT !.ram = [x \in Addresses |->
    IF x \in address .. address + size - 1
    THEN (value \div Weight(address + size - 1 - x)) % Byte ELSE @[x]]]

\* A byte takes a word of the instruction stream.
Memory_RetrFromPC(m, size) ==
  [m EXCEPT !.pc = (@ + (IF size = 1 THEN 2 ELSE size)) % Long]

-----------------------------------------------------------------------------
(* Effective addresses.  The modes are Dn, An, (An), (An)+, -(An),         *)
(* (d16,An), (d8,An,Xi), (xxx).W, (xxx).L, (d16,PC), (d8,PC,Xi) and #data. *)

PCRelative == {"PCDisplaced", "PCIndexed"}
Absolute == {"AbsoluteWord", "AbsoluteLong"}
Indexed == {"Indexed", "PCIndexed"}
InMemory == {"Indirect", "PostIncrement", "PreDecrement", "Displaced", "Indexed"} \cup Absolute \cup PCRelative
Writable == {"Dn", "An", "Indirect", "PostIncrement", "PreDecrement", "Displaced", "Indexed"} \cup Absolute

\* An operand as an instruction can name it: registers that there are, numbers of
\* their width, and an index that is scaled by a byte, a word or a long word.
IsOperand(ea) ==
  /\ ea.mode \in {"Dn", "An", "Immediate"} \cup InMemory
  /\ ea.mode = "Dn" => ea.reg \in 0 .. 1
  /\ ea.mode \notin {"Dn", "Immediate"} \cup Absolute \cup PCRelative => ea.reg \in {0, 7}
  /\ ea.data \in Longs
  /\ ea.mode \in Indexed =>
       /\ ea.scale \in {1, 2, 4}
       /\ ea.index \in IF ea.bank = "d" THEN 0 .. 1 ELSE {0, 7}

\* Displacements are signed words or bytes, and an absolute word is not.
Displacement(ea) == SignExtend(ea.data, IF ea.mode \in Indexed THEN 1 ELSE 2)

Index(m, ea) ==
  IF ea.mode \in Indexed
  THEN ea.scale * IF ea.bank = "d" THEN m.d[ea.index] ELSE m.a[ea.index]
  ELSE 0

\* The extension words that the mode takes.
Extension(ea, size) ==
  CASE ea.mode \in {"Displaced", "AbsoluteWord"} \cup PCRelative \cup Indexed -> 2
    [] ea.mode = "AbsoluteLong" -> 4
    [] ea.mode = "Immediate" -> size
    [] OTHER -> 0

EA_GetFromPC(m, size, ea) ==
  LET n == IF ea.mode = "Dn" THEN 0 ELSE ea.reg
      stepped == CASE ea.mode = "PostIncrement" -> [m EXCEPT !.a[n] = (@ + size) % Long]
                   [] ea.mode = "PreDecrement" -> [m EXCEPT !.a[n] = (@ - size) % Long]
                   [] Extension(ea, size) > 0 -> Memory_RetrFromPC(m, Extension(ea, size))
                   [] OTHER -> m
      address == CASE ea.mode \in {"Indirect", "PostIncrement"} -> m.a[n]
                   [] ea.mode = "PreDecrement" -> stepped.a[n]
                   [] ea.mode \in {"Displaced", "Indexed"} ->
                        (m.a[n] + Displacement(ea) + Index(m, ea)) % Long
                   [] ea.mode = "AbsoluteWord" -> ea.data % Word
                   [] ea.mode = "AbsoluteLong" -> ea.data
                   [] ea.mode \in PCRelative ->
                        (m.pc + Displacement(ea) + Index(m, ea)) % Long
                   [] OTHER -> 0
  IN [core |-> stepped,
      at |-> [mode |-> ea.mode, reg |-> ea.reg, size |-> size,
              address |-> address, data |-> ea.data % Values(size)]]

\* The value of an operand is sign extended to a long word.
EA_GetValue(m, at) ==
  LET value == CASE at.mode = "Dn" -> m.d[at.reg]
                 [] at.mode = "An" -> m.a[at.reg]
                 [] at.mode = "Immediate" -> at.data
                 [] OTHER -> Memory_Retr(m, at.size, at.address)
  IN SignExtend(value, at.size)

\* A mutant: a word or a byte written to a data register clears its upper part.
EA_PutValue_clearing(m, at, value) ==
  IF at.mode = "Dn" THEN [m EXCEPT !.d[at.reg] = value % Values(at.size)]
  ELSE IF at.mode = "An" THEN [m EXCEPT !.a[at.reg] = value]
  ELSE IF at.mode \in Writable THEN Memory_Stor(m, at.size, at.address, value) ELSE m

\* A long word whose low bytes are replaced by those of a value.
Over(old, value, size) == (old - (old % Values(size))) + (value % Values(size))

\* A data register keeps the bits that are not written, an address register
\* only those above a byte; nothing is written through the pc.
EA_PutValue(m, at, value) ==
  CASE at.mode = "Dn" -> [m EXCEPT !.d[at.reg] = Over(@, value, at.size)]
    [] at.mode = "An" -> [m EXCEPT !.a[at.reg] = IF at.size = 1 THEN Over(@, value, 1) ELSE value]
    [] at.mode \in Writable \ {"Dn", "An"} -> Memory_Stor(m, at.size, at.address, value)
    [] OTHER -> m

\* The modes that name a place in memory and do not step a register.
Control == InMemory \ {"PostIncrement", "PreDecrement"}

Stack_Push(m, size, value) ==
  LET to == EA_GetFromPC(m, size, [mode |-> "PreDecrement", reg |-> 7, data |-> 0])
  IN EA_PutValue(to.core, to.at, value)

Inside(at) ==
  at.mode \in InMemory => at.address .. at.address + at.size - 1 \subseteq Addresses

-----------------------------------------------------------------------------
(* Bits *)

BitsOf(value) == {i \in 0 .. LongBits - 1 : (value \div Power[i]) % 2 = 1}
FromBits(bits) == SumFunction([i \in bits |-> Power[i]])

And(v, w) == FromBits(BitsOf(v) \cap BitsOf(w))
Or(v, w) == FromBits(BitsOf(v) \cup BitsOf(w))
Eor(v, w) == FromBits((BitsOf(v) \cup BitsOf(w)) \ (BitsOf(v) \cap BitsOf(w)))
Not(v) == Long - 1 - v
=============================================================================
