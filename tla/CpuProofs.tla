----------------------------- MODULE CpuProofs -----------------------------
(***************************************************************************)
(* Cpu is correct for bytes of any width, operands of any kind the model   *)
(* knows and any shift counts and immediates: every instruction has an     *)
(* Outcome, which is what its step remembers in `done' and does to the     *)
(* flags and the destination; the inductive invariant IInv relates these   *)
(* to the registers and to the number whose digits have been worked on so  *)
(* far.                                                                    *)
(***************************************************************************)
EXTENDS Cpu, OperandsProofs

-----------------------------------------------------------------------------
(* What an instruction does to the machine and to the condition codes. *)

\* The sum or the difference that an instruction forms, with the carry it is given.
Result(as, s, d, c) ==
  CASE as = "ADD" -> s + d
    [] as = "ADDX" -> s + d + c
    [] as = "SUB" -> d - s
    [] as = "SUBX" -> d - s - c
    [] as = "NEG" -> 0 - d
    [] as = "NEGX" -> 0 - d - c

\* The instructions that set X and C together.
Sums == {"ADD", "SUB", "NEG"} \cup Extended

\* A result is the sum or the difference that its instruction stands for.
ResultOf(as, p, result) ==
  as \in Sums /\ result \in Int /\ result = Result(as, p.s, p.d, One(core.ccr.x))

\* A sum or a difference, with the flags that SR_Set makes of it.
Summed ==
  /\ done'.as \in Sums
  /\ done'.s \in Longs /\ done'.d \in Longs
  /\ done'.r = Result(done'.as, done'.s, done'.d, One(core.ccr.x)) % Long
  /\ core'.ccr = SR_Set(done'.as, done'.s, done'.d, done'.r, core.ccr)

\* Flags that compare the two numbers that are remembered.
Ordered ==
  /\ done'.as = "CMP"
  /\ done'.s \in Longs /\ done'.d \in Longs
  /\ Compares(core'.ccr, done'.d, done'.s)

\* Flags that describe a result, which the destination holds.
Described ==
  /\ done'.as = "logical" /\ done'.r \in Longs /\ done'.flags \in Flags
  /\ core'.ccr = Logical(done'.r, done'.flags)
  /\ done'.at.mode \in Writable => EA_GetValue(core', done'.at) = done'.r

\* Flags that stay, and a condition that is evaluated from them.
Kept ==
  /\ done'.as \in {"address", "condition", "pc"}
  /\ core'.ccr = core.ccr
  /\ done'.as = "condition" /\ done'.condition \in Conditions =>
       \/ done'.taken <=> BranchTaken(done'.condition, core.ccr)
       \/ done'.instr = "SCC" /\ (done'.taken <=> SetTaken(done'.condition, core.ccr))

\* Registers and memory that are equal after a block move.
Moved ==
  /\ done'.as \in {"load", "store"}
  /\ core'.ccr = core.ccr
  /\ BlockMoveAgrees'

\* A shift that is exact.
Turned == done'.as = "shift" /\ ShiftIsExact'

\* What an instruction leaves: the last two kinds say nothing of their flags.
Outcome ==
  /\ core' \in Machines
  /\ OnlyDestination
  /\ Summed \/ Ordered \/ Described \/ Kept \/ Moved \/ Turned \/ done'.as \in {"bit", "divide"}

\* Machines that differ from the core in pc and address registers only.
Begins(m) == m \in Machines /\ m.d = core.d /\ m.ccr = core.ccr /\ m.ram = core.ram

\* A destination, and two operands of it.
HasPlace(p) == Begins(p.core) /\ IsPlace(p.at) /\ Inside(p.at)

\* Such a destination, and two long words.
IsPair(p) == HasPlace(p) /\ p.s \in Longs /\ p.d \in Longs

\* The immediates of the short forms fit into a long word.
LEMMA SmallNumbers == \A i \in Nat : i < 16 => i \in Longs
<1>1. PICK b, w : b = Byte /\ w = Word /\ b \in Nat /\ b >= 2 /\ w = b * b /\ Long = w * w
  BY WordIsEven DEF Word, Long
<1>2. w \in Nat /\ w >= 4
  BY <1>1
<1>3. w * w >= 16
  BY <1>1, <1>2
<1>4. QED
  BY <1>1, <1>3, LongsAreNumbers

\* The opcode is fetched, and further words.
LEMMA OpcodeFetched ==
  ASSUME core \in Machines
  PROVE  /\ Begins(Opcode)
         /\ \A m, size : Begins(m) /\ size \in Nat => Begins(Memory_RetrFromPC(m, size))
<1>1. Begins(core)
  BY DEF Begins
<1>2. \A m, size : Begins(m) /\ size \in Nat => Begins(Memory_RetrFromPC(m, size))
  <2>1. SUFFICES ASSUME NEW m, NEW size, Begins(m), size \in Nat
                 PROVE  Begins(Memory_RetrFromPC(m, size))
    OBVIOUS
  <2> DEFINE o == Memory_RetrFromPC(m, size)
  <2>2. m \in Machines
    BY <2>1 DEF Begins
  <2>3. o \in Machines /\ o.d = m.d /\ o.a = m.a /\ o.ccr = m.ccr /\ o.ram = m.ram
    BY <2>1, <2>2, Fetched
  <2> HIDE DEF o
  <2>4. Begins(o)
    BY <2>1, <2>3 DEF Begins
  <2>5. QED
    BY <2>4 DEF o
<1>3. QED
  BY <1>1, <1>2 DEF Opcode

\* An operand is formed and read.
LEMMA OperandRead ==
  ASSUME NEW m, Begins(m), NEW size \in {1, 2, 4}, NEW ea, IsOperand(ea),
         NEW e, e = EA_GetFromPC(m, size, ea), Inside(e.at)
  PROVE  /\ Begins(e.core) /\ IsPlace(e.at)
         /\ e.at.mode = ea.mode /\ e.at.reg = ea.reg /\ e.at.size = size
         /\ EA_GetValue(e.core, e.at) \in Longs
         /\ \E x \in Int : EA_GetValue(e.core, e.at) = SignExtend(x, size)
<1>1. e.core \in Machines /\ e.core.d = m.d /\ e.core.ccr = m.ccr /\ e.core.ram = m.ram
  BY Formed DEF Begins
<1>2. IsPlace(e.at) /\ e.at.mode = ea.mode /\ e.at.reg = ea.reg /\ e.at.size = size
  BY Formed DEF Begins
<1>3. Begins(e.core)
  BY <1>1 DEF Begins
<1>4. PICK c, at : c = e.core /\ at = e.at
  OBVIOUS
<1>5. EA_GetValue(c, at) \in Longs /\ \E x \in Int : EA_GetValue(c, at) = SignExtend(x, at.size)
  BY <1>1, <1>2, <1>4, Read
<1>6. QED
  BY <1>2, <1>3, <1>4, <1>5

\* The registers as places.
LEMMA RegisterPlaces ==
  /\ \A n \in Registers, size \in {1, 2, 4} :
       /\ IsPlace(Register(n, size)) /\ Inside(Register(n, size)) /\ Register(n, size).mode = "Dn"
       /\ Register(n, size).reg = n /\ Register(n, size).size = size
  /\ \A n \in {0, 7} :
       /\ IsPlace(AddressRegister(n)) /\ Inside(AddressRegister(n)) /\ AddressRegister(n).mode = "An"
       /\ AddressRegister(n).reg = n /\ AddressRegister(n).size = 4
<1>1. 0 \in Longs
  BY SmallNumbers
<1>2. QED
  BY <1>1 DEF IsPlace, Inside, Register, AddressRegister, Registers, InMemory, Absolute, PCRelative

\* A number that was sign extended from a size.
IsExtended(v, size) == \E x \in Int : v = SignExtend(x, size)

\* The two directions of an operation.
LEMMA PairFormed ==
  ASSUME core \in Machines, NEW m, Begins(m), NEW size \in {1, 2, 4}, NEW ea, IsOperand(ea),
         Inside(EA_GetFromPC(m, size, ea).at),
         NEW n \in Registers, NEW toRegister \in BOOLEAN,
         NEW p, p = Pair(m, size, ea, n, toRegister)
  PROVE  IsPair(p) /\ p.at.size = size /\ IsExtended(p.s, size) /\ IsExtended(p.d, size)
<1>1. PICK e : e = EA_GetFromPC(m, size, ea)
  OBVIOUS
<1>2. /\ Begins(e.core) /\ IsPlace(e.at) /\ Inside(e.at) /\ e.at.size = size
      /\ EA_GetValue(e.core, e.at) \in Longs
      /\ \E x \in Int : EA_GetValue(e.core, e.at) = SignExtend(x, size)
  BY <1>1, OperandRead
<1>3. PICK v : v = EA_GetValue(e.core, e.at)
  OBVIOUS
<1>4. PICK k : k = e.core.d[n]
  OBVIOUS
<1>5. k \in Int
  BY <1>2, <1>4, Parts, LongsAreNumbers DEF Begins, Registers
<1>6. PICK r : r = SignExtend(k, size)
  OBVIOUS
<1>7. r \in Longs
  BY <1>5, <1>6, SignExtension
<1>8. PICK at : at = Register(n, size)
  OBVIOUS
<1>9. IsPlace(at) /\ Inside(at) /\ at.size = size
  BY <1>8, RegisterPlaces
<1>10. p = IF toRegister THEN [core |-> e.core, s |-> v, d |-> r, at |-> at]
                         ELSE [core |-> e.core, s |-> r, d |-> v, at |-> e.at]
  BY <1>1, <1>3, <1>4, <1>6, <1>8 DEF Pair
<1>11. /\ p.core = e.core
       /\ (p.at = at /\ p.s = v /\ p.d = r) \/ (p.at = e.at /\ p.s = r /\ p.d = v)
  BY <1>10
<1>12. IsPair(p) /\ p.at.size = size
  BY <1>2, <1>3, <1>7, <1>9, <1>11 DEF IsPair, HasPlace
<1>13. IsExtended(v, size) /\ IsExtended(r, size)
  BY <1>2, <1>3, <1>5, <1>6 DEF IsExtended
<1>14. QED
  BY <1>11, <1>12, <1>13

\* The flags of a logical operation, one by one.
LogicalFlags(r, f) ==
  LET g == Logical(r, f)
  IN /\ g \in Flags /\ g.x = f.x
     /\ g.n <=> Negative(r)
     /\ g.z <=> r = 0
     /\ ~g.v /\ ~g.c

\* SR_Set and Logical make flags.
LEMMA FlagsAreMade ==
  ASSUME NEW f \in Flags
  PROVE  /\ \A as, s, d, r : SR_Set(as, s, d, r, f) \in Flags
         /\ \A r : LogicalFlags(r, f)
<1>1. \A as, s, d, r : SR_Set(as, s, d, r, f) \in Flags
  <2>1. SUFFICES ASSUME NEW as, NEW s, NEW d, NEW r
                 PROVE  SR_Set(as, s, d, r, f) \in Flags
    OBVIOUS
  <2> DEFINE S == Negative(s)
             D == Negative(d)
             R == Negative(r)
  <2>2. Carry(as, S, D, R) \in BOOLEAN /\ Overflow(as, S, D, R) \in BOOLEAN /\ R \in BOOLEAN
    BY DEF Carry, Overflow, Negative
  <2>3. f.x \in BOOLEAN
    BY DEF Flags
  <2> HIDE DEF S, D, R
  <2>4. [x |-> IF as = "CMP" THEN f.x ELSE Carry(as, S, D, R), n |-> R,
         z |-> r = 0 /\ (as \in Extended => f.z), v |-> Overflow(as, S, D, R),
         c |-> Carry(as, S, D, R)] \in Flags
    BY <2>2, <2>3 DEF Flags
  <2>5. QED
    BY <2>4 DEF SR_Set, S, D, R
<1>2. \A r : LogicalFlags(r, f)
  <2>1. SUFFICES ASSUME NEW r
                 PROVE  LogicalFlags(r, f)
    OBVIOUS
  <2> DEFINE n == Negative(r)
             z == (r = 0)
  <2>2. n \in BOOLEAN
    BY DEF Negative
  <2>3. z \in BOOLEAN
    OBVIOUS
  <2> HIDE DEF n, z
  <2>4. PICK g : g = Logical(r, f)
    OBVIOUS
  <2>5. g = [f EXCEPT !.n = n, !.z = z, !.v = FALSE, !.c = FALSE]
    BY <2>4 DEF Logical, n, z
  <2>6. g = [x |-> f.x, n |-> n, z |-> z, v |-> FALSE, c |-> FALSE]
    BY <2>5 DEF Flags
  <2>7. g \in Flags /\ g.x = f.x /\ g.n = n /\ g.z = z /\ g.v = FALSE /\ g.c = FALSE
    BY <2>2, <2>3, <2>6 DEF Flags
  <2>8. QED
    BY <2>4, <2>7 DEF LogicalFlags, n, z
<1>3. QED
  BY <1>1, <1>2

\* What is written at a place, and nowhere else.
Touches(at) ==
  /\ \A n \in Registers : core'.d[n] # core.d[n] =>
       /\ at.mode = "Dn" /\ at.reg = n
       /\ core'.d[n] \div Values(at.size) = core.d[n] \div Values(at.size)
  /\ \A x \in Addresses : core'.ram[x] # core.ram[x] =>
       at.mode \in InMemory /\ x \in at.address .. at.address + at.size - 1

\* A result is written and the flags are set.
LEMMA ResultWritten ==
  ASSUME core \in Machines, NEW c, Begins(c), NEW at, IsPlace(at), NEW value \in Int,
         at.mode = "An" /\ at.size # 1 => value \in Longs,
         NEW f \in Flags,
         \/ core' = [EA_PutValue(c, at, value) EXCEPT !.ccr = f]
         \/ core' = EA_PutValue(c, at, value) /\ f = core.ccr
  PROVE  core' \in Machines /\ core'.ccr = f /\ Touches(at)
<1>1. PICK o : o = EA_PutValue(c, at, value)
  OBVIOUS
<1>2. c \in Machines /\ c.d = core.d /\ c.ram = core.ram /\ c.ccr = core.ccr
  BY DEF Begins
<1>3. /\ o \in Machines /\ o.pc = c.pc /\ o.ccr = c.ccr
      /\ \A n \in 0 .. 1 : o.d[n] # c.d[n] =>
           /\ at.mode = "Dn" /\ at.reg = n
           /\ o.d[n] \div Values(at.size) = c.d[n] \div Values(at.size)
      /\ \A x \in Addresses : o.ram[x] # c.ram[x] =>
           at.mode \in InMemory /\ x \in at.address .. at.address + at.size - 1
  BY <1>1, <1>2, Written
<1>4. core' \in Machines /\ core'.ccr = f /\ core'.d = o.d /\ core'.ram = o.ram
  <2>1. CASE core' = [o EXCEPT !.ccr = f]
    BY <1>3, <2>1, WithFlags
  <2>2. CASE core' = o /\ f = core.ccr
    BY <1>2, <1>3, <2>2
  <2>3. QED
    BY <1>1, <2>1, <2>2
<1>5. Touches(at)
  BY <1>2, <1>3, <1>4 DEF Touches, Registers
<1>6. QED
  BY <1>4, <1>5

\* What an instruction remembers of itself.
LEMMA Remembered ==
  ASSUME NEW instr, NEW as, NEW p, NEW result, done' = Did(instr, as, p, result)
  PROVE  /\ done'.instr = instr /\ done'.as = as /\ done'.at = p.at /\ done'.s = p.s
         /\ done'.d = p.d /\ done'.r = result % Long /\ done'.flags = core.ccr
BY DEF Did

\* What is written is what an instruction is allowed to change.
LEMMA AllowedChange ==
  ASSUME Touches(done'.at),
         core'.ccr.x = core.ccr.x \/ done'.as \in Sums \cup {"shift"}
  PROVE  OnlyDestination
BY DEF Touches, OnlyDestination, Sums

\* A step of the sums and differences has the outcome of an instruction: it writes
\* what SR_Set judged.
LEMMA ArithmeticOutcome ==
  ASSUME core \in Machines, NEW instr, NEW as, NEW p, IsPair(p), NEW result,
         ResultOf(as, p, result), Arithmetic(instr, as, p, result)
  PROVE  Outcome
<1>1. PICK r : r = result % Long
  OBVIOUS
<1>2. r \in Longs /\ r \in Int
  <2>1. result \in Int
    BY DEF ResultOf
  <2>2. result % Long \in Longs
    BY <2>1, Remainders
  <2>3. QED
    BY <1>1, <2>2, LongsAreNumbers
<1>3. PICK c, at : c = p.core /\ at = p.at
  OBVIOUS
<1>4. Begins(c) /\ IsPlace(at) /\ c \in Machines /\ c.ccr = core.ccr
  BY <1>3 DEF IsPair, HasPlace, Begins
<1>5. PICK o : o = EA_PutValue(c, at, r)
  OBVIOUS
<1>6. o.ccr = core.ccr
  BY <1>2, <1>4, <1>5, Written
<1>7. PICK f : f = SR_Set(as, p.s, p.d, r, core.ccr)
  OBVIOUS
<1>8. f \in Flags
  BY <1>7, FlagsAreMade, Parts
<1>9. core' = [o EXCEPT !.ccr = f]
  BY <1>1, <1>3, <1>5, <1>6, <1>7 DEF Arithmetic
<1>10. core' \in Machines /\ core'.ccr = f /\ Touches(at)
  BY <1>2, <1>4, <1>5, <1>8, <1>9, ResultWritten
<1>11. /\ done'.instr = instr /\ done'.as = as /\ done'.at = at /\ done'.s = p.s
       /\ done'.d = p.d /\ done'.r = r /\ done'.flags = core.ccr
  BY <1>1, <1>3, Remembered DEF Arithmetic
<1>12. OnlyDestination
  BY <1>10, <1>11, AllowedChange DEF ResultOf
<1>13. Summed
  BY <1>1, <1>7, <1>10, <1>11 DEF Summed, IsPair, ResultOf
<1>14. QED
  BY <1>10, <1>12, <1>13 DEF Outcome

\* So has a step that only looks at its result,
LEMMA LogicOutcome ==
  ASSUME core \in Machines, NEW instr, NEW p, HasPlace(p), NEW result \in Int,
         NEW r, r = result % Long, SignExtend(r, p.at.size) = r, Logic(instr, p, result)
  PROVE  Outcome
<1>1. r \in Longs /\ r \in Int
  BY Remainders, LongsAreNumbers
<1>2. PICK c, at : c = p.core /\ at = p.at
  OBVIOUS
<1>3. Begins(c) /\ IsPlace(at) /\ Inside(at) /\ c \in Machines /\ c.ccr = core.ccr
  BY <1>2 DEF HasPlace, Begins
<1>4. PICK o : o = EA_PutValue(c, at, r)
  OBVIOUS
<1>5. o \in Machines /\ o.ccr = core.ccr
  BY <1>1, <1>3, <1>4, Written
<1>6. PICK f : f = Logical(r, core.ccr)
  OBVIOUS
<1>7. f \in Flags /\ f.x = core.ccr.x
  BY <1>6, FlagsAreMade, Parts DEF LogicalFlags
<1>8. core' = [o EXCEPT !.ccr = f]
  BY <1>2, <1>4, <1>5, <1>6 DEF Logic
<1>9. core' \in Machines /\ core'.ccr = f /\ Touches(at)
  BY <1>1, <1>3, <1>4, <1>7, <1>8, ResultWritten
<1>10. /\ done'.instr = instr /\ done'.as = "logical" /\ done'.at = at /\ done'.s = p.s
       /\ done'.d = p.d /\ done'.r = r /\ done'.flags = core.ccr
  BY <1>2, Remembered DEF Logic
<1>11. OnlyDestination
  BY <1>7, <1>9, <1>10, AllowedChange
<1>12. at.mode \in Writable => EA_GetValue(core', at) = r
  <2>1. core'.d = o.d /\ core'.a = o.a /\ core'.ram = o.ram
    BY <1>5, <1>7, <1>8, WithFlags
  <2>2. SignExtend(r, at.size) = r
    BY <1>2
  <2>3. QED
    BY <1>1, <1>3, <1>4, <2>1, <2>2, ReadBack
<1>13. Described
  BY Parts, <1>1, <1>6, <1>9, <1>10, <1>12 DEF Described
<1>14. QED
  BY <1>9, <1>11, <1>13 DEF Outcome

\* a step that compares and writes nothing,
LEMMA CompareOutcome ==
  ASSUME core \in Machines, NEW instr, NEW p, IsPair(p), NEW result,
         Compares(SR_Set("CMP", p.s, p.d, result % Long, core.ccr), p.d, p.s),
         Compare(instr, p, result)
  PROVE  Outcome
<1>1. PICK c : c = p.core
  OBVIOUS
<1>2. c \in Machines /\ c.ccr = core.ccr /\ c.d = core.d /\ c.ram = core.ram
  BY <1>1 DEF IsPair, HasPlace, Begins
<1>3. PICK f : f = SR_Set("CMP", p.s, p.d, result % Long, core.ccr)
  OBVIOUS
<1>4. f \in Flags
  BY <1>3, FlagsAreMade, Parts
<1>5. f.x = core.ccr.x
  BY <1>3 DEF SR_Set
<1>6. core' = [c EXCEPT !.ccr = f]
  BY <1>1, <1>2, <1>3 DEF Compare
<1>7. core' \in Machines /\ core'.ccr = f /\ core'.d = core.d /\ core'.ram = core.ram
  BY <1>2, <1>4, <1>6, WithFlags
<1>8. done'.instr = instr /\ done'.as = "CMP" /\ done'.s = p.s /\ done'.d = p.d
  BY Remembered DEF Compare
<1>9. OnlyDestination
  BY <1>5, <1>7, AllowedChange DEF Touches
<1>10. Ordered
  BY <1>3, <1>7, <1>8 DEF Ordered, IsPair
<1>11. QED
  BY <1>7, <1>9, <1>10 DEF Outcome

\* and a step that writes to an address register and leaves the flags.
LEMMA ToAddressOutcome ==
  ASSUME core \in Machines, NEW instr, NEW p, HasPlace(p), NEW result \in Int,
         ToAddress(instr, p, result)
  PROVE  Outcome
<1>1. PICK r : r = result % Long
  OBVIOUS
<1>2. r \in Longs /\ r \in Int
  <2>1. result % Long \in Longs
    BY Remainders
  <2>2. QED
    BY <1>1, <2>1, LongsAreNumbers
<1>3. PICK c, at : c = p.core /\ at = p.at
  OBVIOUS
<1>4. Begins(c) /\ IsPlace(at) /\ core.ccr \in Flags
  BY <1>3, Parts DEF HasPlace
<1>5. core' = EA_PutValue(c, at, r)
  BY <1>1, <1>3 DEF ToAddress
<1>6. core' \in Machines /\ core'.ccr = core.ccr /\ Touches(at)
  BY <1>2, <1>4, <1>5, ResultWritten
<1>7. done'.instr = instr /\ done'.as = "address" /\ done'.at = at
  BY <1>3, Remembered DEF ToAddress
<1>8. OnlyDestination
  BY <1>6, <1>7, AllowedChange
<1>9. Kept
  BY <1>6, <1>7 DEF Kept
<1>10. QED
  BY <1>6, <1>8, <1>9 DEF Outcome

-----------------------------------------------------------------------------
(* Sums and differences. *)

\* The operands of two registers, of a register and a number, of a register alone.
LEMMA RegisterPairs ==
  ASSUME core \in Machines, NEW n \in Registers
  PROVE  /\ \A y \in Registers : IsPair(Both(y, n))
         /\ \A data \in Longs : IsPair(Immediate(n, data)) /\ Immediate(n, data).at.size = 4
         /\ IsPair(Alone(n)) /\ Alone(n).at.size = 4 /\ Alone(n).s = 0 /\ Alone(n).d = core.d[n]
<1>1. Begins(Opcode)
  BY OpcodeFetched
<1>2. 0 \in Longs
  BY SmallNumbers
<1>3. \A ea, p : IsOperand(ea) /\ ea.mode \in {"Dn", "Immediate"} /\ p = Pair(Opcode, 4, ea, n, TRUE)
                   => IsPair(p) /\ p.at.size = 4
  <2>1. SUFFICES ASSUME NEW ea, NEW p, IsOperand(ea), ea.mode \in {"Dn", "Immediate"},
                        p = Pair(Opcode, 4, ea, n, TRUE)
                 PROVE  IsPair(p) /\ p.at.size = 4
    OBVIOUS
  <2>2. PICK e : e = EA_GetFromPC(Opcode, 4, ea)
    OBVIOUS
  <2>3. e.at.mode = ea.mode
    BY <1>1, <2>1, <2>2, Formed DEF Begins
  <2>4. Inside(e.at)
    BY <2>1, <2>3 DEF Inside, InMemory, Absolute, PCRelative
  <2>5. QED
    BY <1>1, <2>1, <2>2, <2>4, PairFormed
<1>4. \A y \in Registers : IsPair(Both(y, n))
  <2>1. SUFFICES ASSUME NEW y \in Registers
                 PROVE  IsPair(Both(y, n))
    OBVIOUS
  <2>2. PICK ea : ea = [mode |-> "Dn", reg |-> y, data |-> 0]
    OBVIOUS
  <2>3. IsOperand(ea) /\ ea.mode = "Dn"
    BY <1>2, <2>2 DEF IsOperand, Registers, Absolute, PCRelative, Indexed
  <2>4. QED
    BY <1>3, <2>2, <2>3 DEF Both
<1>5. \A data \in Longs : IsPair(Immediate(n, data)) /\ Immediate(n, data).at.size = 4
  <2>1. SUFFICES ASSUME NEW data \in Longs
                 PROVE  IsPair(Immediate(n, data)) /\ Immediate(n, data).at.size = 4
    OBVIOUS
  <2>2. PICK ea : ea = [mode |-> "Immediate", reg |-> 4, data |-> data]
    OBVIOUS
  <2>3. IsOperand(ea) /\ ea.mode = "Immediate"
    BY <2>2 DEF IsOperand, Absolute, PCRelative, Indexed
  <2>4. QED
    BY <1>3, <2>2, <2>3 DEF Immediate
<1>6. IsPair(Alone(n)) /\ Alone(n).at.size = 4 /\ Alone(n).s = 0 /\ Alone(n).d = core.d[n]
  <2>1. PICK at : at = Register(n, 4)
    OBVIOUS
  <2>2. IsPlace(at) /\ Inside(at) /\ at.size = 4
    BY <2>1, RegisterPlaces
  <2>3. core.d[n] \in Longs
    BY Parts DEF Registers
  <2>4. Alone(n) = [core |-> Opcode, s |-> 0, d |-> core.d[n], at |-> at]
    BY <2>1 DEF Alone
  <2>5. QED
    BY <1>1, <1>2, <2>2, <2>3, <2>4 DEF IsPair, HasPlace
<1>7. QED
  BY <1>4, <1>5, <1>6

\* The operands of an instruction.
LEMMA OperandIsOne ==
  \A m, size : \A ea \in Reachable(m, size) :
    ea \in Operand /\ IsOperand(ea) /\ Inside(EA_GetFromPC(m, size, ea).at)
BY CpuAssumption DEF Reachable

\* The sum of a pair is the result of its instruction.
LEMMA ResultsAreNumbers ==
  ASSUME NEW p, p.s \in Longs, p.d \in Longs
  PROVE  /\ ResultOf("ADD", p, p.s + p.d)
         /\ ResultOf("ADD", p, p.d + p.s)
         /\ ResultOf("ADDX", p, p.s + p.d + (IF core.ccr.x THEN 1 ELSE 0))
         /\ ResultOf("SUB", p, p.d - p.s)
         /\ ResultOf("SUBX", p, p.d - p.s - (IF core.ccr.x THEN 1 ELSE 0))
         /\ ResultOf("NEG", p, 0 - p.d)
         /\ ResultOf("NEGX", p, 0 - p.d - (IF core.ccr.x THEN 1 ELSE 0))
<1>1. p.s \in Int /\ p.d \in Int
  BY LongsAreNumbers
<1>2. QED
  BY <1>1 DEF ResultOf, Result, Sums, Extended, One

\* The sums, the differences and the negations have the outcome of an instruction.
LEMMA SumOutcome ==
  ASSUME core \in Machines,
         \/ ADD \/ ADDI \/ ADDX \/ SUB \/ SUBI \/ SUBX \/ NEG \/ NEGX
  PROVE  Outcome
<1>1. Begins(Opcode)
  BY OpcodeFetched
<1>2. CASE ADD
  <2>1. PICK ea \in Reachable(Opcode, 4), n \in Registers, toRegister \in BOOLEAN :
          LET p == Pair(Opcode, 4, ea, n, toRegister) IN Arithmetic("ADD", "ADD", p, p.s + p.d)
    BY <1>2 DEF ADD
  <2>2. PICK p : p = Pair(Opcode, 4, ea, n, toRegister)
    OBVIOUS
  <2>3. IsPair(p)
    BY <1>1, <2>2, OperandIsOne, PairFormed
  <2>4. Arithmetic("ADD", "ADD", p, p.s + p.d)
    BY <2>1, <2>2
  <2>5. ResultOf("ADD", p, p.s + p.d)
    BY <2>3, ResultsAreNumbers DEF IsPair
  <2>6. QED
    BY <2>3, <2>4, <2>5, ArithmeticOutcome
<1>3. CASE SUB
  <2>1. PICK ea \in Reachable(Opcode, 4), n \in Registers, toRegister \in BOOLEAN :
          LET p == Pair(Opcode, 4, ea, n, toRegister) IN Arithmetic("SUB", "SUB", p, p.d - p.s)
    BY <1>3 DEF SUB
  <2>2. PICK p : p = Pair(Opcode, 4, ea, n, toRegister)
    OBVIOUS
  <2>3. IsPair(p)
    BY <1>1, <2>2, OperandIsOne, PairFormed
  <2>4. Arithmetic("SUB", "SUB", p, p.d - p.s)
    BY <2>1, <2>2
  <2>5. ResultOf("SUB", p, p.d - p.s)
    BY <2>3, ResultsAreNumbers DEF IsPair
  <2>6. QED
    BY <2>3, <2>4, <2>5, ArithmeticOutcome
<1>4. CASE ADDI
  <2>1. PICK n \in Registers, data \in LongData :
          LET p == Immediate(n, data) IN Arithmetic("ADDI", "ADD", p, p.s + p.d)
    BY <1>4 DEF ADDI
  <2>2. PICK p : p = Immediate(n, data)
    OBVIOUS
  <2>3. IsPair(p)
    BY <2>2, RegisterPairs, CpuAssumption
  <2>4. Arithmetic("ADDI", "ADD", p, p.s + p.d)
    BY <2>1, <2>2
  <2>5. ResultOf("ADD", p, p.s + p.d)
    BY <2>3, ResultsAreNumbers DEF IsPair
  <2>6. QED
    BY <2>3, <2>4, <2>5, ArithmeticOutcome
<1>5. CASE SUBI
  <2>1. PICK n \in Registers, data \in LongData :
          LET p == Immediate(n, data) IN Arithmetic("SUBI", "SUB", p, p.d - p.s)
    BY <1>5 DEF SUBI
  <2>2. PICK p : p = Immediate(n, data)
    OBVIOUS
  <2>3. IsPair(p)
    BY <2>2, RegisterPairs, CpuAssumption
  <2>4. Arithmetic("SUBI", "SUB", p, p.d - p.s)
    BY <2>1, <2>2
  <2>5. ResultOf("SUB", p, p.d - p.s)
    BY <2>3, ResultsAreNumbers DEF IsPair
  <2>6. QED
    BY <2>3, <2>4, <2>5, ArithmeticOutcome
<1>6. CASE ADDX
  <2>1. PICK y \in Registers, x \in Registers :
          LET p == Both(y, x)
          IN Arithmetic("ADDX", "ADDX", p, p.s + p.d + (IF core.ccr.x THEN 1 ELSE 0))
    BY <1>6 DEF ADDX
  <2>2. PICK p : p = Both(y, x)
    OBVIOUS
  <2>3. IsPair(p)
    BY <2>2, RegisterPairs
  <2>4. Arithmetic("ADDX", "ADDX", p, p.s + p.d + (IF core.ccr.x THEN 1 ELSE 0))
    BY <2>1, <2>2
  <2>5. ResultOf("ADDX", p, p.s + p.d + (IF core.ccr.x THEN 1 ELSE 0))
    BY <2>3, ResultsAreNumbers DEF IsPair
  <2>6. QED
    BY <2>3, <2>4, <2>5, ArithmeticOutcome
<1>7. CASE SUBX
  <2>1. PICK y \in Registers, x \in Registers :
          LET p == Both(y, x)
          IN Arithmetic("SUBX", "SUBX", p, p.d - p.s - (IF core.ccr.x THEN 1 ELSE 0))
    BY <1>7 DEF SUBX
  <2>2. PICK p : p = Both(y, x)
    OBVIOUS
  <2>3. IsPair(p)
    BY <2>2, RegisterPairs
  <2>4. Arithmetic("SUBX", "SUBX", p, p.d - p.s - (IF core.ccr.x THEN 1 ELSE 0))
    BY <2>1, <2>2
  <2>5. ResultOf("SUBX", p, p.d - p.s - (IF core.ccr.x THEN 1 ELSE 0))
    BY <2>3, ResultsAreNumbers DEF IsPair
  <2>6. QED
    BY <2>3, <2>4, <2>5, ArithmeticOutcome
<1>8. CASE NEG
  <2>1. PICK n \in Registers : Arithmetic("NEG", "NEG", Alone(n), 0 - core.d[n])
    BY <1>8 DEF NEG
  <2>2. PICK p : p = Alone(n)
    OBVIOUS
  <2>3. IsPair(p) /\ p.d = core.d[n]
    BY <2>2, RegisterPairs
  <2>4. Arithmetic("NEG", "NEG", p, 0 - p.d)
    BY <2>1, <2>2, <2>3
  <2>5. ResultOf("NEG", p, 0 - p.d)
    BY <2>3, ResultsAreNumbers DEF IsPair
  <2>6. QED
    BY <2>3, <2>4, <2>5, ArithmeticOutcome
<1>9. CASE NEGX
  <2>1. PICK n \in Registers :
          Arithmetic("NEGX", "NEGX", Alone(n), 0 - core.d[n] - (IF core.ccr.x THEN 1 ELSE 0))
    BY <1>9 DEF NEGX
  <2>2. PICK p : p = Alone(n)
    OBVIOUS
  <2>3. IsPair(p) /\ p.d = core.d[n]
    BY <2>2, RegisterPairs
  <2>4. Arithmetic("NEGX", "NEGX", p, 0 - p.d - (IF core.ccr.x THEN 1 ELSE 0))
    BY <2>1, <2>2, <2>3
  <2>5. ResultOf("NEGX", p, 0 - p.d - (IF core.ccr.x THEN 1 ELSE 0))
    BY <2>3, ResultsAreNumbers DEF IsPair
  <2>6. QED
    BY <2>3, <2>4, <2>5, ArithmeticOutcome
<1>10. QED
  BY <1>2, <1>3, <1>4, <1>5, <1>6, <1>7, <1>8, <1>9

\* An address register as the destination.
LEMMA AddressPair ==
  ASSUME core \in Machines, NEW ea \in Reachable(Opcode, 4),
         NEW e, e = EA_GetFromPC(Opcode, 4, ea),
         NEW p, p = [core |-> e.core, s |-> EA_GetValue(e.core, e.at), d |-> e.core.a[0],
                     at |-> AddressRegister(0)]
  PROVE  IsPair(p)
<1>1. Begins(e.core) /\ EA_GetValue(e.core, e.at) \in Longs
  BY OpcodeFetched, OperandIsOne, OperandRead
<1>2. PICK k, at : k = e.core.a[0] /\ at = AddressRegister(0)
  OBVIOUS
<1>3. k \in Longs
  BY <1>1, <1>2, Parts DEF Begins
<1>4. IsPlace(at) /\ Inside(at)
  BY <1>2, RegisterPlaces
<1>5. QED
  BY <1>1, <1>2, <1>3, <1>4 DEF IsPair, HasPlace

\* A quick number and an operand.
LEMMA QuickPair ==
  ASSUME core \in Machines, NEW ea \in Reachable(Opcode, 4), NEW data \in Immediates,
         NEW e, e = EA_GetFromPC(Opcode, 4, ea), NEW d, d = EA_GetValue(e.core, e.at),
         NEW p, p = [core |-> e.core, s |-> data, d |-> d, at |-> e.at]
  PROVE  IsPair(p) /\ p.s = data /\ p.d = d /\ p.core = e.core
<1>1. Begins(e.core) /\ IsPlace(e.at) /\ Inside(e.at) /\ d \in Longs
  BY OpcodeFetched, OperandIsOne, OperandRead
<1>2. data \in Longs
  BY CpuAssumption, SmallNumbers
<1>3. QED
  BY <1>1, <1>2 DEF IsPair, HasPlace

\* An instruction that ends with the pc, and changes nothing else that counts.
LEMMA StepsOver ==
  ASSUME core' \in Machines, core'.ccr = core.ccr, done'.as = "pc"
  PROVE  Outcome
<1>1. OnlyDestination
  BY DEF OnlyDestination
<1>2. Kept
  BY DEF Kept
<1>3. QED
  BY <1>1, <1>2 DEF Outcome

\* So have the instructions that write an address register, or may do so,
LEMMA AddressOutcome ==
  ASSUME core \in Machines, ADDA \/ SUBA \/ LEA \/ ADDQ \/ SUBQ
  PROVE  Outcome
<1>1. CASE ADDA
  <2>1. PICK ea \in Reachable(Opcode, 4) :
          LET e == EA_GetFromPC(Opcode, 4, ea)
              p == [core |-> e.core, s |-> EA_GetValue(e.core, e.at), d |-> e.core.a[0],
                    at |-> AddressRegister(0)]
          IN ToAddress("ADDA", p, p.s + p.d)
    BY <1>1 DEF ADDA
  <2>2. PICK e : e = EA_GetFromPC(Opcode, 4, ea)
    OBVIOUS
  <2>3. PICK p : p = [core |-> e.core, s |-> EA_GetValue(e.core, e.at), d |-> e.core.a[0],
                      at |-> AddressRegister(0)]
    OBVIOUS
  <2>4. IsPair(p)
    BY <2>2, <2>3, AddressPair
  <2>5. ToAddress("ADDA", p, p.s + p.d)
    BY <2>1, <2>2, <2>3
  <2>6. p.s + p.d \in Int
    BY <2>4, LongsAreNumbers DEF IsPair
  <2>7. QED
    BY <2>4, <2>5, <2>6, ToAddressOutcome DEF IsPair
<1>2. CASE SUBA
  <2>1. PICK ea \in Reachable(Opcode, 4) :
          LET e == EA_GetFromPC(Opcode, 4, ea)
              p == [core |-> e.core, s |-> EA_GetValue(e.core, e.at), d |-> e.core.a[0],
                    at |-> AddressRegister(0)]
          IN ToAddress("SUBA", p, p.d - p.s)
    BY <1>2 DEF SUBA
  <2>2. PICK e : e = EA_GetFromPC(Opcode, 4, ea)
    OBVIOUS
  <2>3. PICK p : p = [core |-> e.core, s |-> EA_GetValue(e.core, e.at), d |-> e.core.a[0],
                      at |-> AddressRegister(0)]
    OBVIOUS
  <2>4. IsPair(p)
    BY <2>2, <2>3, AddressPair
  <2>5. ToAddress("SUBA", p, p.d - p.s)
    BY <2>1, <2>2, <2>3
  <2>6. p.d - p.s \in Int
    BY <2>4, LongsAreNumbers DEF IsPair
  <2>7. QED
    BY <2>4, <2>5, <2>6, ToAddressOutcome DEF IsPair
<1>3. CASE ADDQ
  <2>1. PICK ea \in Reachable(Opcode, 4), data \in Immediates :
          LET e == EA_GetFromPC(Opcode, 4, ea)
              d == EA_GetValue(e.core, e.at)
              p == [core |-> e.core, s |-> data, d |-> d, at |-> e.at]
          IN \/ Arithmetic("ADDQ", "ADD", p, d + data)
             \/ ToAddress("ADDQ", p, d + data)
             \/ core' = e.core /\ done' = Did("refused", "pc", p, 0)
    BY <1>3, Zenon DEF ADDQ, Quick
  <2>2. PICK e : e = EA_GetFromPC(Opcode, 4, ea)
    OBVIOUS
  <2>3. PICK d : d = EA_GetValue(e.core, e.at)
    OBVIOUS
  <2>4. PICK p : p = [core |-> e.core, s |-> data, d |-> d, at |-> e.at]
    OBVIOUS
  <2>5. IsPair(p) /\ p.s = data /\ p.d = d /\ p.core = e.core
    BY <2>2, <2>3, <2>4, QuickPair
  <2>6. p.d + p.s \in Int /\ ResultOf("ADD", p, p.d + p.s)
    BY <2>5, ResultsAreNumbers DEF IsPair, ResultOf
  <2>7. CASE Arithmetic("ADDQ", "ADD", p, p.d + p.s)
    BY <2>5, <2>6, <2>7, ArithmeticOutcome
  <2>8. CASE ToAddress("ADDQ", p, p.d + p.s)
    BY <2>5, <2>6, <2>8, ToAddressOutcome DEF IsPair
  <2>9. CASE core' = p.core /\ done' = Did("refused", "pc", p, 0)
    <3>1. done'.as = "pc"
      BY <2>9, Remembered
    <3>2. core' \in Machines /\ core'.ccr = core.ccr
      BY <2>5, <2>9 DEF IsPair, HasPlace, Begins
    <3>3. QED
      BY <3>1, <3>2, StepsOver
  <2>10. \/ Arithmetic("ADDQ", "ADD", p, p.d + p.s)
         \/ ToAddress("ADDQ", p, p.d + p.s)
         \/ core' = p.core /\ done' = Did("refused", "pc", p, 0)
    BY <2>1, <2>2, <2>3, <2>4, <2>5
  <2>11. QED
    BY <2>7, <2>8, <2>9, <2>10
<1>4. CASE SUBQ
  <2>1. PICK ea \in Reachable(Opcode, 4), data \in Immediates :
          LET e == EA_GetFromPC(Opcode, 4, ea)
              d == EA_GetValue(e.core, e.at)
              p == [core |-> e.core, s |-> data, d |-> d, at |-> e.at]
          IN \/ Arithmetic("SUBQ", "SUB", p, d - data)
             \/ ToAddress("SUBQ", p, d - data)
             \/ core' = e.core /\ done' = Did("refused", "pc", p, 0)
    BY <1>4, Zenon DEF SUBQ, Quick
  <2>2. PICK e : e = EA_GetFromPC(Opcode, 4, ea)
    OBVIOUS
  <2>3. PICK d : d = EA_GetValue(e.core, e.at)
    OBVIOUS
  <2>4. PICK p : p = [core |-> e.core, s |-> data, d |-> d, at |-> e.at]
    OBVIOUS
  <2>5. IsPair(p) /\ p.s = data /\ p.d = d /\ p.core = e.core
    BY <2>2, <2>3, <2>4, QuickPair
  <2>6. p.d - p.s \in Int /\ ResultOf("SUB", p, p.d - p.s)
    BY <2>5, ResultsAreNumbers DEF IsPair, ResultOf
  <2>7. CASE Arithmetic("SUBQ", "SUB", p, p.d - p.s)
    BY <2>5, <2>6, <2>7, ArithmeticOutcome
  <2>8. CASE ToAddress("SUBQ", p, p.d - p.s)
    BY <2>5, <2>6, <2>8, ToAddressOutcome DEF IsPair
  <2>9. CASE core' = p.core /\ done' = Did("refused", "pc", p, 0)
    <3>1. done'.as = "pc"
      BY <2>9, Remembered
    <3>2. core' \in Machines /\ core'.ccr = core.ccr
      BY <2>5, <2>9 DEF IsPair, HasPlace, Begins
    <3>3. QED
      BY <3>1, <3>2, StepsOver
  <2>10. \/ Arithmetic("SUBQ", "SUB", p, p.d - p.s)
         \/ ToAddress("SUBQ", p, p.d - p.s)
         \/ core' = p.core /\ done' = Did("refused", "pc", p, 0)
    BY <2>1, <2>2, <2>3, <2>4, <2>5
  <2>11. QED
    BY <2>7, <2>8, <2>9, <2>10
<1>5. CASE LEA
  <2>1. PICK ea \in Reachable(Opcode, 4) :
          LET e == EA_GetFromPC(Opcode, 4, ea)
          IN ToAddress("LEA", [core |-> e.core, s |-> 0, d |-> 0, at |-> AddressRegister(0)],
                       e.at.address)
    BY <1>5 DEF LEA
  <2>2. PICK e : e = EA_GetFromPC(Opcode, 4, ea)
    OBVIOUS
  <2>3. Begins(e.core) /\ IsPlace(e.at)
    BY <2>2, OpcodeFetched, OperandIsOne, OperandRead
  <2>4. PICK at : at = AddressRegister(0)
    OBVIOUS
  <2>5. IsPlace(at) /\ Inside(at)
    BY <2>4, RegisterPlaces
  <2>6. PICK p : p = [core |-> e.core, s |-> 0, d |-> 0, at |-> at]
    OBVIOUS
  <2>7. HasPlace(p)
    BY <2>3, <2>5, <2>6 DEF HasPlace
  <2>8. e.at.address \in Int
    BY <2>3, LongsAreNumbers DEF IsPlace
  <2>9. ToAddress("LEA", p, e.at.address)
    BY <2>1, <2>2, <2>4, <2>6
  <2>10. QED
    BY <2>7, <2>8, <2>9, ToAddressOutcome
<1>6. QED
  BY <1>1, <1>2, <1>3, <1>4, <1>5

\* The flags of a comparison compare.
LEMMA FlagsCompare ==
  ASSUME NEW s, NEW d, NEW r, NEW f,
         r = 0 <=> d = s,
         SubBorrow(Negative(s), Negative(d), Negative(r)) <=> d < s,
         ~(SubOverflow(Negative(s), Negative(d), Negative(r)) <=> Negative(r)) <=> Signed(d) < Signed(s)
  PROVE  /\ Compares(SR_Set("CMP", s, d, r, f), d, s)
         /\ Compares(SR_Set("SUB", s, d, r, f), d, s)
<1> DEFINE S == Negative(s)
           D == Negative(d)
           R == Negative(r)
<1>1. \A as \in {"CMP", "SUB"} :
        /\ Carry(as, S, D, R) <=> SubBorrow(S, D, R)
        /\ Overflow(as, S, D, R) <=> SubOverflow(S, D, R)
  BY DEF Carry, Overflow, Adding, Subtracting, Negating
<1>2. /\ r = 0 <=> d = s
      /\ SubBorrow(S, D, R) <=> d < s
      /\ ~(SubOverflow(S, D, R) <=> R) <=> Signed(d) < Signed(s)
  OBVIOUS
<1>3. \A as \in {"CMP", "SUB"} :
        LET g == SR_Set(as, s, d, r, f)
        IN (g.n <=> R) /\ (g.z <=> r = 0) /\ (g.v <=> Overflow(as, S, D, R)) /\ (g.c <=> Carry(as, S, D, R))
  BY DEF SR_Set, Extended
<1> HIDE DEF S, D, R
<1>4. \A as \in {"CMP", "SUB"} : Compares(SR_Set(as, s, d, r, f), d, s)
  <2>1. SUFFICES ASSUME NEW as \in {"CMP", "SUB"}, NEW g, g = SR_Set(as, s, d, r, f)
                 PROVE  Compares(g, d, s)
    OBVIOUS
  <2>2. (g.n <=> R) /\ (g.z <=> r = 0) /\ (g.v <=> Overflow(as, S, D, R)) /\ (g.c <=> Carry(as, S, D, R))
    BY <1>3, <2>1
  <2>3. (Carry(as, S, D, R) <=> SubBorrow(S, D, R)) /\ (Overflow(as, S, D, R) <=> SubOverflow(S, D, R))
    BY <1>1, <2>1
  <2>4. (g.n <=> R) /\ (g.z <=> r = 0) /\ (g.v <=> SubOverflow(S, D, R)) /\ (g.c <=> SubBorrow(S, D, R))
    BY <2>2, <2>3, Zenon
  <2>5. QED
    BY <1>2, <2>4 DEF Compares
<1>5. QED
  BY <1>4

\* So do those of the difference of two sign extended bytes or words.
LEMMA ShortFlags ==
  ASSUME NEW size \in {1, 2}, NEW x \in Int, NEW y \in Int,
         NEW d, d = SignExtend(x, size), NEW s, s = SignExtend(y, size),
         NEW r, r = ((d % Values(size)) - (s % Values(size))) % Long, NEW f
  PROVE  Compares(SR_Set("CMP", s, d, r, f), d, s)
<1>1. /\ r = 0 <=> d = s
      /\ SubBorrow(Negative(s), Negative(d), Negative(r)) <=> d < s
      /\ ~(SubOverflow(Negative(s), Negative(d), Negative(r)) <=> Negative(r)) <=> Signed(d) < Signed(s)
  BY ShortDifference
<1>2. QED
  BY <1>1, FlagsCompare

\* A comparison of two sign extended bytes or words.
LEMMA ShortsCompared ==
  ASSUME core \in Machines, NEW instr, NEW size \in {1, 2}, NEW ea \in Reachable(Opcode, size),
         NEW n \in Registers, NEW p, p = Pair(Opcode, size, ea, n, TRUE),
         Compare(instr, p, (p.d % Values(size)) - (p.s % Values(size)))
  PROVE  Outcome
<1>1. Begins(Opcode)
  BY OpcodeFetched
<1>2. IsOperand(ea) /\ Inside(EA_GetFromPC(Opcode, size, ea).at)
  BY OperandIsOne
<1>3. IsPair(p) /\ IsExtended(p.s, size) /\ IsExtended(p.d, size)
  BY ZenonT(30), <1>1, <1>2, PairFormed
<1>4. PICK d, s : d = p.d /\ s = p.s
  OBVIOUS
<1>5. PICK x \in Int, y \in Int : d = SignExtend(x, size) /\ s = SignExtend(y, size)
  BY <1>3, <1>4 DEF IsExtended
<1>6. PICK r : r = ((d % Values(size)) - (s % Values(size))) % Long
  OBVIOUS
<1>7. Compares(SR_Set("CMP", s, d, r, core.ccr), d, s)
  BY <1>5, <1>6, ShortFlags
<1>8. QED
  BY <1>3, <1>4, <1>6, <1>7, CompareOutcome

\* A comparison of two long words.
LEMMA LongsCompared ==
  ASSUME core \in Machines, NEW instr, NEW p, IsPair(p), Compare(instr, p, p.d - p.s)
  PROVE  Outcome
<1>1. PICK r : r = (p.d - p.s) % Long
  OBVIOUS
<1>2. /\ r = 0 <=> p.d = p.s
      /\ SubBorrow(Negative(p.s), Negative(p.d), Negative(r)) <=> p.d < p.s
      /\ ~(SubOverflow(Negative(p.s), Negative(p.d), Negative(r)) <=> Negative(r)) <=> Signed(p.d) < Signed(p.s)
  BY <1>1, Difference DEF IsPair
<1>3. Compares(SR_Set("CMP", p.s, p.d, r, core.ccr), p.d, p.s)
  BY <1>2, FlagsCompare
<1>4. QED
  BY <1>1, <1>3, CompareOutcome

\* the comparisons,
LEMMA ComparisonOutcome ==
  ASSUME core \in Machines, CMP \/ CMPA \/ CMPI \/ CMP_B \/ CMP_W \/ TST
  PROVE  Outcome
<1>1. Begins(Opcode)
  BY OpcodeFetched
<1>2. CASE CMP
  <2>1. PICK ea \in Reachable(Opcode, 4), n \in Registers :
          LET p == Pair(Opcode, 4, ea, n, TRUE) IN Compare("CMP", p, p.d - p.s)
    BY <1>2 DEF CMP
  <2>2. PICK p : p = Pair(Opcode, 4, ea, n, TRUE)
    OBVIOUS
  <2>3. IsPair(p)
    BY <1>1, <2>2, OperandIsOne, PairFormed
  <2>4. QED
    BY <2>1, <2>2, <2>3, LongsCompared
<1>3. CASE CMPA
  <2>1. PICK ea \in Reachable(Opcode, 4) :
          LET e == EA_GetFromPC(Opcode, 4, ea)
              p == [core |-> e.core, s |-> EA_GetValue(e.core, e.at), d |-> e.core.a[0],
                    at |-> AddressRegister(0)]
          IN Compare("CMPA", p, p.d - p.s)
    BY <1>3 DEF CMPA
  <2>2. PICK e : e = EA_GetFromPC(Opcode, 4, ea)
    OBVIOUS
  <2>3. PICK p : p = [core |-> e.core, s |-> EA_GetValue(e.core, e.at), d |-> e.core.a[0],
                      at |-> AddressRegister(0)]
    OBVIOUS
  <2>4. IsPair(p)
    BY <2>2, <2>3, AddressPair
  <2>5. Compare("CMPA", p, p.d - p.s)
    BY <2>1, <2>2, <2>3
  <2>6. QED
    BY <2>4, <2>5, LongsCompared
<1>4. CASE CMPI
  <2>1. PICK n \in Registers, data \in LongData :
          LET p == Immediate(n, data) IN Compare("CMPI", p, p.d - p.s)
    BY <1>4 DEF CMPI
  <2>2. PICK p : p = Immediate(n, data)
    OBVIOUS
  <2>3. IsPair(p)
    BY <2>2, RegisterPairs, CpuAssumption
  <2>4. QED
    BY <2>1, <2>2, <2>3, LongsCompared
<1>5. CASE CMP_B
  <2>1. PICK ea \in Reachable(Opcode, 1), n \in Registers :
          LET p == Pair(Opcode, 1, ea, n, TRUE) IN Compare("CMP", p, (p.d % Byte) - (p.s % Byte))
    BY <1>5 DEF CMP_B
  <2>2. PICK p : p = Pair(Opcode, 1, ea, n, TRUE)
    OBVIOUS
  <2>3. Compare("CMP", p, (p.d % Byte) - (p.s % Byte))
    BY <2>1, <2>2
  <2>4. PICK size : size = 1
    OBVIOUS
  <2>5. size \in {1, 2} /\ Values(size) = Byte
    BY <2>4 DEF Values
  <2>6. ea \in Reachable(Opcode, size) /\ p = Pair(Opcode, size, ea, n, TRUE)
    BY <2>2, <2>4
  <2>7. QED
    BY <2>3, <2>5, <2>6, ShortsCompared
<1>6. CASE CMP_W
  <2>1. PICK ea \in Reachable(Opcode, 2), n \in Registers :
          LET p == Pair(Opcode, 2, ea, n, TRUE) IN Compare("CMP", p, (p.d % Word) - (p.s % Word))
    BY <1>6 DEF CMP_W
  <2>2. PICK p : p = Pair(Opcode, 2, ea, n, TRUE)
    OBVIOUS
  <2>3. Compare("CMP", p, (p.d % Word) - (p.s % Word))
    BY <2>1, <2>2
  <2>4. PICK size : size = 2
    OBVIOUS
  <2>5. size \in {1, 2} /\ Values(size) = Word
    BY <2>4 DEF Values
  <2>6. ea \in Reachable(Opcode, size) /\ p = Pair(Opcode, size, ea, n, TRUE)
    BY <2>2, <2>4
  <2>7. QED
    BY <2>3, <2>5, <2>6, ShortsCompared
<1>7. CASE TST
  <2>0. PICK size \in Sizes : \E ea \in Reachable(Opcode, size) :
          LET e == EA_GetFromPC(Opcode, size, ea)
              v == EA_GetValue(e.core, e.at)
              p == [core |-> e.core, s |-> v, d |-> v, at |-> e.at]
          IN /\ core' = [e.core EXCEPT !.ccr = Logical(v, @)]
             /\ done' = Did("TST", "logical", p, v)
    BY <1>7 DEF TST
  <2>1. PICK ea \in Reachable(Opcode, size) :
          LET e == EA_GetFromPC(Opcode, size, ea)
              v == EA_GetValue(e.core, e.at)
              p == [core |-> e.core, s |-> v, d |-> v, at |-> e.at]
          IN /\ core' = [e.core EXCEPT !.ccr = Logical(v, @)]
             /\ done' = Did("TST", "logical", p, v)
    BY <2>0
  <2>2. PICK e : e = EA_GetFromPC(Opcode, size, ea)
    OBVIOUS
  <2>3. PICK c, at : c = e.core /\ at = e.at
    OBVIOUS
  <2>4. PICK v : v = EA_GetValue(c, at)
    OBVIOUS
  <2>5. PICK p : p = [core |-> c, s |-> v, d |-> v, at |-> at]
    OBVIOUS
  <2>6. core' = [c EXCEPT !.ccr = Logical(v, @)] /\ done' = Did("TST", "logical", p, v)
    BY <2>1, <2>2, <2>3, <2>4, <2>5
  <2>7. size \in {1, 2, 4}
    BY CpuAssumption
  <2>8. Begins(c) /\ v \in Longs
    BY <1>1, <2>2, <2>3, <2>4, <2>7, OperandIsOne, OperandRead
  <2>9. c \in Machines /\ c.d = core.d /\ c.ccr = core.ccr /\ c.ram = core.ram
    BY <2>8 DEF Begins
  <2>10. PICK f : f = Logical(v, core.ccr)
    OBVIOUS
  <2>11. f \in Flags /\ f.x = core.ccr.x
    BY <2>10, FlagsAreMade, Parts DEF LogicalFlags
  <2>12. core' = [c EXCEPT !.ccr = f]
    BY <2>6, <2>9, <2>10
  <2>13. core' \in Machines /\ core'.ccr = f /\ core'.d = c.d /\ core'.a = c.a /\ core'.ram = c.ram
    BY <2>9, <2>11, <2>12, WithFlags
  <2>14. v % Long = v
    BY <2>8, SmallRemainder
  <2>15. done'.as = "logical" /\ done'.at = at /\ done'.r = v /\ done'.flags = core.ccr
    BY <2>5, <2>6, <2>14, Remembered
  <2>16. OnlyDestination
    BY <2>9, <2>11, <2>13, AllowedChange DEF Touches
  <2>17. EA_GetValue(core', at) = v
    BY <2>4, <2>13 DEF EA_GetValue, Memory_Retr
  <2>18. Described
    BY Parts, <2>8, <2>10, <2>13, <2>15, <2>17 DEF Described
  <2>19. QED
    BY <2>13, <2>16, <2>18 DEF Outcome
<1>8. QED
  BY <1>2, <1>3, <1>4, <1>5, <1>6, <1>7

-----------------------------------------------------------------------------
(* Logic and moves. *)

\* A logical operation on long words.
LEMMA WholeLogic ==
  ASSUME core \in Machines, NEW instr, NEW p, HasPlace(p), p.at.size = 4, NEW result \in Int,
         Logic(instr, p, result)
  PROVE  Outcome
<1>1. PICK r : r = result % Long
  OBVIOUS
<1>2. r \in Longs
  BY <1>1, Remainders
<1>3. SignExtend(r, p.at.size) = r
  BY <1>2, WholeExtension
<1>4. QED
  BY <1>1, <1>3, LogicOutcome

\* the bitwise operations,
LEMMA BitwiseOutcome ==
  ASSUME core \in Machines, AND \/ OR \/ EOR \/ ANDI \/ ORI \/ EORI \/ NOT
  PROVE  Outcome
<1>1. Begins(Opcode)
  BY OpcodeFetched
<1>2. CASE AND
  <2>1. PICK ea \in Reachable(Opcode, 4), n \in Registers, toRegister \in BOOLEAN :
          LET p == Pair(Opcode, 4, ea, n, toRegister) IN Logic("AND", p, And(p.s, p.d))
    BY <1>2, Zenon DEF AND, Bitwise
  <2>2. PICK p : p = Pair(Opcode, 4, ea, n, toRegister)
    OBVIOUS
  <2>3. IsPair(p) /\ p.at.size = 4
    BY <1>1, <2>2, OperandIsOne, PairFormed
  <2>4. Logic("AND", p, And(p.s, p.d))
    BY <2>1, <2>2
  <2>5. And(p.s, p.d) \in Int
    BY LogicIsNumber
  <2>6. QED
    BY <2>3, <2>4, <2>5, WholeLogic DEF IsPair
<1>3. CASE OR
  <2>1. PICK ea \in Reachable(Opcode, 4), n \in Registers, toRegister \in BOOLEAN :
          LET p == Pair(Opcode, 4, ea, n, toRegister) IN Logic("OR", p, Or(p.s, p.d))
    BY <1>3, Zenon DEF OR, Bitwise
  <2>2. PICK p : p = Pair(Opcode, 4, ea, n, toRegister)
    OBVIOUS
  <2>3. IsPair(p) /\ p.at.size = 4
    BY <1>1, <2>2, OperandIsOne, PairFormed
  <2>4. Logic("OR", p, Or(p.s, p.d))
    BY <2>1, <2>2
  <2>5. Or(p.s, p.d) \in Int
    BY LogicIsNumber
  <2>6. QED
    BY <2>3, <2>4, <2>5, WholeLogic DEF IsPair
<1>4. CASE EOR
  <2>1. PICK ea \in Reachable(Opcode, 4), n \in Registers, toRegister \in BOOLEAN :
          LET p == Pair(Opcode, 4, ea, n, toRegister) IN Logic("EOR", p, Eor(p.s, p.d))
    BY <1>4, Zenon DEF EOR, Bitwise
  <2>2. PICK p : p = Pair(Opcode, 4, ea, n, toRegister)
    OBVIOUS
  <2>3. IsPair(p) /\ p.at.size = 4
    BY <1>1, <2>2, OperandIsOne, PairFormed
  <2>4. Logic("EOR", p, Eor(p.s, p.d))
    BY <2>1, <2>2
  <2>5. Eor(p.s, p.d) \in Int
    BY LogicIsNumber
  <2>6. QED
    BY <2>3, <2>4, <2>5, WholeLogic DEF IsPair
<1>5. CASE ANDI
  <2>1. PICK n \in Registers, data \in LongData :
          LET p == Immediate(n, data) IN Logic("ANDI", p, And(p.s, p.d))
    BY <1>5, Zenon DEF ANDI, BitwiseImmediate
  <2>2. PICK p : p = Immediate(n, data)
    OBVIOUS
  <2>3. IsPair(p) /\ p.at.size = 4
    BY <2>2, RegisterPairs, CpuAssumption
  <2>4. Logic("ANDI", p, And(p.s, p.d))
    BY <2>1, <2>2
  <2>5. And(p.s, p.d) \in Int
    BY LogicIsNumber
  <2>6. QED
    BY <2>3, <2>4, <2>5, WholeLogic DEF IsPair
<1>6. CASE ORI
  <2>1. PICK n \in Registers, data \in LongData :
          LET p == Immediate(n, data) IN Logic("ORI", p, Or(p.s, p.d))
    BY <1>6, Zenon DEF ORI, BitwiseImmediate
  <2>2. PICK p : p = Immediate(n, data)
    OBVIOUS
  <2>3. IsPair(p) /\ p.at.size = 4
    BY <2>2, RegisterPairs, CpuAssumption
  <2>4. Logic("ORI", p, Or(p.s, p.d))
    BY <2>1, <2>2
  <2>5. Or(p.s, p.d) \in Int
    BY LogicIsNumber
  <2>6. QED
    BY <2>3, <2>4, <2>5, WholeLogic DEF IsPair
<1>7. CASE EORI
  <2>1. PICK n \in Registers, data \in LongData :
          LET p == Immediate(n, data) IN Logic("EORI", p, Eor(p.s, p.d))
    BY <1>7, Zenon DEF EORI, BitwiseImmediate
  <2>2. PICK p : p = Immediate(n, data)
    OBVIOUS
  <2>3. IsPair(p) /\ p.at.size = 4
    BY <2>2, RegisterPairs, CpuAssumption
  <2>4. Logic("EORI", p, Eor(p.s, p.d))
    BY <2>1, <2>2
  <2>5. Eor(p.s, p.d) \in Int
    BY LogicIsNumber
  <2>6. QED
    BY <2>3, <2>4, <2>5, WholeLogic DEF IsPair
<1>8. CASE NOT
  <2>1. PICK n \in Registers : Logic("NOT", Alone(n), Not(core.d[n]))
    BY <1>8 DEF NOT
  <2>2. PICK p : p = Alone(n)
    OBVIOUS
  <2>3. IsPair(p) /\ p.at.size = 4 /\ p.d = core.d[n]
    BY <2>2, RegisterPairs
  <2>4. Not(p.d) \in Int
    BY <2>3, LongsAreNumbers, WordIsEven DEF IsPair, Not
  <2>5. QED
    BY <2>1, <2>2, <2>3, <2>4, WholeLogic DEF IsPair
<1>9. QED
  BY <1>2, <1>3, <1>4, <1>5, <1>6, <1>7, <1>8

\* and the moves.
LEMMA MoveOutcome ==
  ASSUME core \in Machines, MOVE \/ MOVEQ \/ CLR \/ EXT \/ SWAP
  PROVE  Outcome
<1>1. Begins(Opcode)
  BY OpcodeFetched
<1>2. CASE MOVE
  <2>1. PICK size \in Sizes : \E from \in Reachable(Opcode, size) :
          LET e == EA_GetFromPC(Opcode, size, from)
              v == EA_GetValue(e.core, e.at)
          IN \E to \in {x \in Operand : Inside(EA_GetFromPC(e.core, size, x).at)} :
               LET f == EA_GetFromPC(e.core, size, to)
                   p == [core |-> f.core, s |-> v, d |-> v, at |-> f.at]
               IN ToAddress("MOVEA", p, v) \/ Logic("MOVE", p, v)
    BY <1>2 DEF MOVE
  <2>2. PICK from \in Reachable(Opcode, size) :
          LET e == EA_GetFromPC(Opcode, size, from)
              v == EA_GetValue(e.core, e.at)
          IN \E to \in {x \in Operand : Inside(EA_GetFromPC(e.core, size, x).at)} :
               LET f == EA_GetFromPC(e.core, size, to)
                   p == [core |-> f.core, s |-> v, d |-> v, at |-> f.at]
               IN ToAddress("MOVEA", p, v) \/ Logic("MOVE", p, v)
    BY <2>1
  <2>3. PICK e : e = EA_GetFromPC(Opcode, size, from)
    OBVIOUS
  <2>4. PICK v : v = EA_GetValue(e.core, e.at)
    OBVIOUS
  <2>5. size \in {1, 2, 4}
    BY CpuAssumption
  <2>6. Begins(e.core) /\ v \in Longs /\ IsExtended(v, size)
    BY <1>1, <2>3, <2>4, <2>5, OperandIsOne, OperandRead DEF IsExtended
  <2>7. PICK to \in {x \in Operand : Inside(EA_GetFromPC(e.core, size, x).at)} :
          LET f == EA_GetFromPC(e.core, size, to)
              p == [core |-> f.core, s |-> v, d |-> v, at |-> f.at]
          IN ToAddress("MOVEA", p, v) \/ Logic("MOVE", p, v)
    BY <2>2, <2>3, <2>4
  <2>8. PICK f : f = EA_GetFromPC(e.core, size, to)
    OBVIOUS
  <2>9. PICK p : p = [core |-> f.core, s |-> v, d |-> v, at |-> f.at]
    OBVIOUS
  <2>10. ToAddress("MOVEA", p, v) \/ Logic("MOVE", p, v)
    BY <2>7, <2>8, <2>9
  <2>11. IsOperand(to) /\ Inside(f.at)
    BY <2>8, CpuAssumption
  <2>12. PICK c : c = e.core
    OBVIOUS
  <2>13. Begins(f.core) /\ IsPlace(f.at) /\ f.at.size = size
    BY <2>5, <2>6, <2>8, <2>11, <2>12, OperandRead
  <2>14. HasPlace(p) /\ p.at.size = size
    BY <2>9, <2>11, <2>13 DEF HasPlace
  <2>15. v \in Int /\ v % Long = v
    BY <2>6, LongsAreNumbers, SmallRemainder
  <2>16. SignExtend(v, size) = v
    BY <2>5, <2>6, ExtensionStays DEF IsExtended
  <2>17. CASE ToAddress("MOVEA", p, v)
    BY <2>14, <2>15, <2>17, ToAddressOutcome
  <2>18. CASE Logic("MOVE", p, v)
    BY <2>14, <2>15, <2>16, <2>18, LogicOutcome
  <2>19. QED
    BY <2>10, <2>17, <2>18
<1>3. CASE MOVEQ
  <2>1. PICK n \in Registers, data \in 0 .. Byte - 1 : Logic("MOVEQ", Alone(n), SignExtend(data, 1))
    BY <1>3 DEF MOVEQ
  <2>2. SignExtend(data, 1) \in Int
    BY WordIsEven, SignExtension, LongsAreNumbers
  <2>3. PICK p : p = Alone(n)
    OBVIOUS
  <2>4. IsPair(p) /\ p.at.size = 4
    BY <2>3, RegisterPairs
  <2>5. QED
    BY <2>1, <2>2, <2>3, <2>4, WholeLogic DEF IsPair
<1>4. CASE CLR
  <2>1. PICK size \in Sizes : \E ea \in Reachable(Opcode, size) :
          LET e == EA_GetFromPC(Opcode, size, ea)
          IN Logic("CLR", [core |-> e.core, s |-> 0, d |-> 0, at |-> e.at], 0)
    BY <1>4 DEF CLR
  <2>2. PICK ea \in Reachable(Opcode, size) :
          LET e == EA_GetFromPC(Opcode, size, ea)
          IN Logic("CLR", [core |-> e.core, s |-> 0, d |-> 0, at |-> e.at], 0)
    BY <2>1
  <2>3. PICK e : e = EA_GetFromPC(Opcode, size, ea)
    OBVIOUS
  <2>4. PICK p : p = [core |-> e.core, s |-> 0, d |-> 0, at |-> e.at]
    OBVIOUS
  <2>5. Logic("CLR", p, 0)
    BY <2>2, <2>3, <2>4
  <2>6. size \in {1, 2, 4}
    BY CpuAssumption
  <2>7. Begins(e.core) /\ IsPlace(e.at) /\ e.at.size = size /\ Inside(e.at)
    BY <1>1, <2>3, <2>6, OperandIsOne, OperandRead
  <2>8. HasPlace(p) /\ p.at.size = size
    BY <2>4, <2>7 DEF HasPlace
  <2>9. 0 % Long = 0
    BY SmallNumbers, SmallRemainder
  <2>10. SignExtend(0, size) = 0
    BY <2>6, ZeroExtension
  <2>11. QED
    BY <2>5, <2>8, <2>9, <2>10, LogicOutcome
<1>5. CASE EXT
  <2>1. PICK n \in Registers, from \in {1, 2}, to \in {2, 4} :
          /\ from < to
          /\ Logic("EXT", [Alone(n) EXCEPT !.at = Register(n, to)], SignExtend(core.d[n], from))
    BY <1>5 DEF EXT
  <2>2. PICK p : p = [Alone(n) EXCEPT !.at = Register(n, to)]
    OBVIOUS
  <2>3. PICK at : at = Register(n, to)
    OBVIOUS
  <2>4. IsPlace(at) /\ Inside(at) /\ at.size = to
    BY <2>3, RegisterPlaces
  <2>5. p = [core |-> Opcode, s |-> 0, d |-> core.d[n], at |-> at]
    BY <2>2, <2>3 DEF Alone
  <2>6. HasPlace(p) /\ p.at.size = to
    BY <1>1, <2>4, <2>5 DEF HasPlace
  <2>7. PICK x : x = core.d[n] /\ x \in Int
    BY Parts, LongsAreNumbers DEF Registers
  <2>8. PICK v : v = SignExtend(x, from)
    OBVIOUS
  <2>9. v \in Longs /\ SignExtend(v, to) = v
    BY <2>1, <2>7, <2>8, SignExtension, ExtensionStays
  <2>10. v \in Int /\ v % Long = v
    BY <2>9, LongsAreNumbers, SmallRemainder
  <2>11. Logic("EXT", p, v)
    BY <2>1, <2>2, <2>7, <2>8
  <2>12. QED
    BY <2>6, <2>9, <2>10, <2>11, LogicOutcome
<1>6. CASE SWAP
  <2>1. PICK n \in Registers :
          Logic("SWAP", Alone(n), (core.d[n] % Word) * Word + (core.d[n] \div Word))
    BY <1>6 DEF SWAP
  <2>2. PICK p : p = Alone(n)
    OBVIOUS
  <2>3. IsPair(p) /\ p.at.size = 4 /\ p.d = core.d[n]
    BY <2>2, RegisterPairs
  <2>4. p.d \in Int /\ Word \in Nat /\ Word > 0
    BY <2>3, LongsAreNumbers, WordIsEven DEF IsPair
  <2>5. p.d % Word \in Nat /\ p.d \div Word \in Int
    BY <2>4, Division
  <2>6. PICK h, l : h = p.d % Word /\ l = p.d \div Word
    OBVIOUS
  <2>7. h * Word + l \in Int
    BY <2>4, <2>5, <2>6
  <2>8. QED
    BY <2>1, <2>2, <2>3, <2>6, <2>7, WholeLogic DEF IsPair
<1>7. QED
  BY <1>2, <1>3, <1>4, <1>5, <1>6

-----------------------------------------------------------------------------
(* Products, quotients and bits. *)

\* MUL has the outcome of an instruction.
LEMMA ProductOutcome ==
  ASSUME core \in Machines, MUL_W \/ MULU_L
  PROVE  Outcome
<1>1. Begins(Opcode) /\ Begins(Memory_RetrFromPC(Opcode, 2))
  BY OpcodeFetched
<1>2. CASE MUL_W
  <2>1. PICK ea \in Reachable(Opcode, 2), n \in Registers, signed \in BOOLEAN :
          LET e == EA_GetFromPC(Opcode, 2, ea)
              v == EA_GetValue(e.core, e.at)
              d == e.core.d[n]
              p == [core |-> e.core, s |-> v, d |-> d, at |-> Register(n, 4)]
          IN Logic("MUL_W", p, IF signed THEN Signed(v) * SignedAt(d % Word, Word)
                                         ELSE (v % Word) * (d % Word))
    BY <1>2 DEF MUL_W
  <2>2. PICK e : e = EA_GetFromPC(Opcode, 2, ea)
    OBVIOUS
  <2>3. PICK c, v : c = e.core /\ v = EA_GetValue(e.core, e.at)
    OBVIOUS
  <2>4. PICK d : d = c.d[n]
    OBVIOUS
  <2>5. PICK at : at = Register(n, 4)
    OBVIOUS
  <2>6. PICK p : p = [core |-> c, s |-> v, d |-> d, at |-> at]
    OBVIOUS
  <2>7. PICK result : result = IF signed THEN Signed(v) * SignedAt(d % Word, Word)
                                         ELSE (v % Word) * (d % Word)
    OBVIOUS
  <2>8. Logic("MUL_W", p, result)
    BY <2>1, <2>2, <2>3, <2>4, <2>5, <2>6, <2>7
  <2>9. Begins(c) /\ v \in Longs
    BY <1>1, <2>2, <2>3, OperandIsOne, OperandRead
  <2>10. d \in Int /\ v \in Int /\ Word \in Nat /\ Word > 0 /\ Long \in Nat
    BY <2>4, <2>9, Parts, LongsAreNumbers, WordIsEven DEF Begins, Registers
  <2>11. HasPlace(p) /\ p.at.size = 4
    BY <2>5, <2>6, <2>9, RegisterPlaces DEF HasPlace
  <2>12. d % Word \in Int /\ v % Word \in Int
    BY <2>10, Division
  <2>13. Signed(v) \in Int /\ SignedAt(d % Word, Word) \in Int
    BY <2>10, <2>12 DEF Signed, SignedAt
  <2>14. result \in Int
    <3>1. PICK a, b, x, y : a = Signed(v) /\ b = SignedAt(d % Word, Word) /\ x = v % Word /\ y = d % Word
      OBVIOUS
    <3>2. a * b \in Int /\ x * y \in Int
      BY <2>12, <2>13, <3>1
    <3>3. QED
      BY <2>7, <3>1, <3>2
  <2>15. QED
    BY <2>8, <2>11, <2>14, WholeLogic
<1>3. CASE MULU_L
  <2>1. PICK m : m = Memory_RetrFromPC(Opcode, 2)
    OBVIOUS
  <2>2. PICK ea \in Reachable(m, 4), n \in Registers :
          LET p == Pair(m, 4, ea, n, TRUE) IN Logic("MULU_L", p, p.s * p.d)
    BY <1>3, <2>1 DEF MULU_L
  <2>3. PICK p : p = Pair(m, 4, ea, n, TRUE)
    OBVIOUS
  <2>4. IsPair(p) /\ p.at.size = 4
    BY <1>1, <2>1, <2>3, OperandIsOne, PairFormed
  <2>5. p.s * p.d \in Int
    BY <2>4, LongsAreNumbers DEF IsPair
  <2>6. QED
    BY <2>2, <2>3, <2>4, <2>5, WholeLogic DEF IsPair
<1>4. QED
  BY <1>2, <1>3

\* Flags of which some are replaced.
LEMMA FlagsReplaced ==
  ASSUME NEW f \in Flags, NEW n \in BOOLEAN, NEW z \in BOOLEAN, NEW v \in BOOLEAN, NEW c \in BOOLEAN
  PROVE  /\ [f EXCEPT !.z = z] \in Flags /\ [f EXCEPT !.z = z].x = f.x
         /\ [f EXCEPT !.n = n, !.z = z, !.v = v, !.c = c] \in Flags
         /\ [f EXCEPT !.n = n, !.z = z, !.v = v, !.c = c].x = f.x
BY DEF Flags

\* The size of a number without its sign.
LEMMA MagnitudeIsPositive ==
  ASSUME NEW v \in Longs
  PROVE  Magnitude(v) \in Nat /\ (v # 0 => Magnitude(v) > 0)
BY LongsAreNumbers, WordIsEven DEF Magnitude

\* What a division does with its pair of operands.
Divides(p, x, w, signed) ==
  LET s == IF signed THEN Magnitude(p.s) ELSE p.s
      d == IF signed THEN Magnitude(p.d) ELSE p.d
      result == IF x # w THEN d % s ELSE d \div s
      to == Register(IF x # w THEN w ELSE x, 4)
  IN /\ p.s # 0
     /\ core' = [EA_PutValue(p.core, to, result) EXCEPT
                   !.ccr = [@ EXCEPT !.n = FALSE, !.z = (result = 0), !.v = FALSE, !.c = FALSE]]
     /\ done' = Did("DIV", "divide", [p EXCEPT !.at = to], result)

\* So has the division of i_div.c.
LEMMA QuotientOutcome ==
  ASSUME core \in Machines, DIV
  PROVE  Outcome
<1>1. PICK m : m = Memory_RetrFromPC(Opcode, 2)
  OBVIOUS
<1>2. Begins(m)
  BY <1>1, OpcodeFetched
<1>3. PICK ea \in Reachable(m, 4), x \in Registers, w \in Registers, signed \in BOOLEAN :
        Divides(Pair(m, 4, ea, x, TRUE), x, w, signed)
  <2>1. \E ea \in Reachable(Memory_RetrFromPC(Opcode, 2), 4), x, w \in Registers, signed \in BOOLEAN :
          Divides(Pair(Memory_RetrFromPC(Opcode, 2), 4, ea, x, TRUE), x, w, signed)
    BY DEF DIV, Divides
  <2>2. QED
    BY <1>1, <2>1
<1>4. PICK p : p = Pair(m, 4, ea, x, TRUE)
  OBVIOUS
<1>5. PICK s : s = IF signed THEN Magnitude(p.s) ELSE p.s
  OBVIOUS
<1>6. PICK d : d = IF signed THEN Magnitude(p.d) ELSE p.d
  OBVIOUS
<1>7. PICK result : result = IF x # w THEN d % s ELSE d \div s
  OBVIOUS
<1>8. PICK n : n = IF x # w THEN w ELSE x
  OBVIOUS
<1>9. PICK to : to = Register(n, 4)
  OBVIOUS
<1>10. /\ p.s # 0
       /\ core' = [EA_PutValue(p.core, to, result) EXCEPT
                     !.ccr = [@ EXCEPT !.n = FALSE, !.z = (result = 0), !.v = FALSE, !.c = FALSE]]
       /\ done' = Did("DIV", "divide", [p EXCEPT !.at = to], result)
  <2>1. Divides(p, x, w, signed)
    BY <1>3, <1>4
  <2>2. QED
    BY <1>5, <1>6, <1>7, <1>8, <1>9, <2>1 DEF Divides
<1>11. IsPair(p)
  BY <1>2, <1>4, OperandIsOne, PairFormed
<1>12. s \in Nat /\ s > 0 /\ d \in Nat
  BY <1>5, <1>6, <1>10, <1>11, MagnitudeIsPositive, LongsAreNumbers DEF IsPair
<1>13. result \in Int
  BY <1>7, <1>12, Division
<1>14. IsPlace(to) /\ to.mode = "Dn"
  BY <1>8, <1>9, RegisterPlaces
<1>15. PICK c, o : c = p.core /\ o = EA_PutValue(c, to, result)
  OBVIOUS
<1>16. Begins(c) /\ c \in Machines /\ c.ccr = core.ccr /\ core.ccr \in Flags
  BY <1>11, <1>15, Parts DEF IsPair, HasPlace, Begins
<1>17. o.ccr = core.ccr
  BY <1>13, <1>14, <1>15, <1>16, Written
<1> DEFINE zero == (result = 0)
<1>18. zero \in BOOLEAN
  OBVIOUS
<1>19. core' = [o EXCEPT !.ccr = [@ EXCEPT !.n = FALSE, !.z = zero, !.v = FALSE, !.c = FALSE]]
  BY <1>10, <1>15
<1> HIDE DEF zero
<1>20. PICK f : f = [core.ccr EXCEPT !.n = FALSE, !.z = zero, !.v = FALSE, !.c = FALSE]
  OBVIOUS
<1>21. f \in Flags /\ f.x = core.ccr.x
  BY <1>16, <1>18, <1>20, FlagsReplaced
<1>22. core' = [o EXCEPT !.ccr = f]
  BY <1>17, <1>19, <1>20
<1>23. core' \in Machines /\ core'.ccr = f /\ Touches(to)
  BY <1>13, <1>14, <1>15, <1>16, <1>21, <1>22, ResultWritten
<1>24. PICK q : q = [p EXCEPT !.at = to]
  OBVIOUS
<1>25. q.at = to
  <2>1. PICK e, v, r : e = EA_GetFromPC(m, 4, ea) /\ v = EA_GetValue(e.core, e.at) /\ r = SignExtend(e.core.d[x], 4)
    OBVIOUS
  <2>2. PICK at : at = Register(x, 4)
    OBVIOUS
  <2>3. p = [core |-> e.core, s |-> v, d |-> r, at |-> at]
    BY <1>4, <2>1, <2>2 DEF Pair
  <2>4. QED
    BY <1>24, <2>3
<1>26. done'.as = "divide" /\ done'.at = to
  <2>1. done' = Did("DIV", "divide", q, result)
    BY <1>10, <1>24
  <2>2. QED
    BY <1>25, <2>1, Remembered
<1>27. OnlyDestination
  BY <1>21, <1>23, <1>26, AllowedChange
<1>28. QED
  BY <1>23, <1>26, <1>27 DEF Outcome

\* The bits of a number, and those of a byte or a long word, are among those of a long word.
LEMMA BitsInLong ==
  /\ \A v : BitsOf(v) \in SUBSET (0 .. LongBits - 1)
  /\ \A x \in Int, size \in {1, 4} : x % (size * ByteBits) \in 0 .. LongBits - 1
<1>1. \A v : BitsOf(v) \in SUBSET (0 .. LongBits - 1)
  BY DEF BitsOf
<1>2. ASSUME NEW x \in Int, NEW size \in {1, 4}
      PROVE  x % (size * ByteBits) \in 0 .. LongBits - 1
  <2>1. PICK m : m = size * ByteBits
    OBVIOUS
  <2>2. m \in Nat /\ m > 0 /\ m <= LongBits /\ LongBits \in Nat
    BY <2>1, BitsAreNumbers
  <2>3. x % m \in Nat /\ x % m < m
    BY <2>2, Division
  <2>4. x % m \in 0 .. LongBits - 1
    BY <2>2, <2>3
  <2>5. QED
    BY <2>1, <2>4
<1>3. QED
  BY <1>1, <1>2

\* What a test of a bit does with its operand.
Tests(op, e, bit) ==
  LET value == EA_GetValue(e.core, e.at)
      bits == BitsOf(value)
      result == FromBits(CASE op = "BTST" -> bits
                           [] op = "BCHG" -> (bits \cup {bit}) \ (bits \cap {bit})
                           [] op = "BCLR" -> bits \ {bit}
                           [] op = "BSET" -> bits \cup {bit})
  IN /\ core' = [(IF op = "BTST" THEN e.core ELSE EA_PutValue(e.core, e.at, result))
                   EXCEPT !.ccr.z = bit \notin bits]
     /\ done' = Did(op, "bit", [at |-> e.at, s |-> bit, d |-> value], result)

\* A number of any size can be written to a byte of an address register.
LEMMA ByteWritten ==
  ASSUME core \in Machines, NEW c, Begins(c), NEW at, IsPlace(at), at.mode = "An" => at.size = 1,
         NEW value \in Int, NEW f \in Flags, NEW o, o = EA_PutValue(c, at, value)
  PROVE  /\ o \in Machines /\ o.ccr = core.ccr
         /\ core' = [o EXCEPT !.ccr = f] => core' \in Machines /\ core'.ccr = f /\ Touches(at)
<1>1. at.mode = "An" /\ at.size # 1 => value \in Longs
  OBVIOUS
<1>2. c \in Machines /\ c.ccr = core.ccr
  BY DEF Begins
<1>3. o \in Machines /\ o.ccr = c.ccr
  BY <1>1, <1>2, Written
<1>4. core' = [o EXCEPT !.ccr = f] => core' \in Machines /\ core'.ccr = f /\ Touches(at)
  BY <1>1, ResultWritten
<1>5. QED
  BY <1>2, <1>3, <1>4

\* A test of one bit changes Z and that bit.
LEMMA BitTested ==
  ASSUME core \in Machines, NEW op \in {"BTST", "BCHG", "BCLR", "BSET"},
         NEW e, Begins(e.core), IsPlace(e.at), e.at.mode = "An" => e.at.size = 1,
         NEW bit \in 0 .. LongBits - 1, Tests(op, e, bit)
  PROVE  Outcome
<1>1. PICK c, at : c = e.core /\ at = e.at
  OBVIOUS
<1>2. PICK value : value = EA_GetValue(c, at)
  OBVIOUS
<1>3. PICK bits : bits = BitsOf(value)
  OBVIOUS
<1>4. PICK new : new = CASE op = "BTST" -> bits
                         [] op = "BCHG" -> (bits \cup {bit}) \ (bits \cap {bit})
                         [] op = "BCLR" -> bits \ {bit}
                         [] op = "BSET" -> bits \cup {bit}
  OBVIOUS
<1>5. PICK result : result = FromBits(new)
  OBVIOUS
<1>6. bits \in SUBSET (0 .. LongBits - 1)
  BY <1>3, BitsInLong
<1>7. new \in SUBSET (0 .. LongBits - 1)
  <2>1. \/ new = bits \/ new = (bits \cup {bit}) \ (bits \cap {bit})
        \/ new = bits \ {bit} \/ new = bits \cup {bit}
    BY <1>4
  <2>2. QED
    BY <1>6, <2>1
<1>8. result \in Int
  BY <1>5, <1>7, BitsMakeNumber
<1> DEFINE zero == bit \notin bits
<1>9. zero \in BOOLEAN
  OBVIOUS
<1>10. /\ core' = [(IF op = "BTST" THEN c ELSE EA_PutValue(c, at, result)) EXCEPT !.ccr.z = zero]
       /\ done' = Did(op, "bit", [at |-> at, s |-> bit, d |-> value], result)
  BY <1>1, <1>2, <1>3, <1>4, <1>5 DEF Tests
<1> HIDE DEF zero
<1>11. PICK f : f = [core.ccr EXCEPT !.z = zero]
  OBVIOUS
<1>12. f \in Flags /\ f.x = core.ccr.x
  BY ZenonT(30), <1>9, <1>11, FlagsReplaced, Parts
<1>13. Begins(c) /\ IsPlace(at) /\ c \in Machines /\ c.ccr = core.ccr /\ c.d = core.d /\ c.ram = core.ram
  BY <1>1 DEF Begins
<1>14. core' \in Machines /\ core'.ccr = f /\ Touches(at)
  <2>1. CASE op = "BTST"
    <3>1. core' = [c EXCEPT !.ccr = f]
      <4>1. core' = [c EXCEPT !.ccr.z = zero]
        BY <1>10, <2>1
      <4>2. QED
        BY <1>11, <1>13, <4>1 DEF Machines
    <3>2. core' \in Machines /\ core'.ccr = f /\ core'.d = core.d /\ core'.ram = core.ram
      BY <1>12, <1>13, <3>1, WithFlags
    <3>3. QED
      BY <3>2 DEF Touches
  <2>2. CASE op # "BTST"
    <3>1. PICK o : o = EA_PutValue(c, at, result)
      OBVIOUS
    <3>2. at.mode = "An" => at.size = 1
      BY <1>1
    <3>3. o \in Machines /\ o.ccr = core.ccr
      BY <1>8, <1>12, <1>13, <3>1, <3>2, ByteWritten
    <3>4. core' = [o EXCEPT !.ccr = f]
      <4>1. core' = [o EXCEPT !.ccr.z = zero]
        BY <1>10, <2>2, <3>1
      <4>2. QED
        BY <1>11, <3>3, <4>1 DEF Machines
    <3>5. QED
      BY <1>8, <1>12, <1>13, <3>1, <3>2, <3>4, ByteWritten
  <2>3. QED
    BY <2>1, <2>2
<1>15. done'.as = "bit" /\ done'.at = at
  BY <1>10, Remembered
<1>16. OnlyDestination
  BY <1>12, <1>14, <1>15, AllowedChange
<1>17. QED
  BY <1>14, <1>15, <1>16 DEF Outcome

\* So the instructions on bits have the outcome of an instruction.
LEMMA BitOutcome ==
  ASSUME core \in Machines, BTST
  PROVE  Outcome
<1>1. PICK op \in {"BTST", "BCHG", "BCLR", "BSET"}, dynamic \in BOOLEAN, n \in Registers :
        LET opcode == IF dynamic THEN Opcode ELSE Memory_RetrFromPC(Opcode, 1)
        IN \E ea \in {e \in Operand : Inside(EA_GetFromPC(opcode, IF e.mode = "Dn" THEN 4 ELSE 1, e).at)} :
             LET size == IF ea.mode = "Dn" THEN 4 ELSE 1
             IN Tests(op, EA_GetFromPC(opcode, size, ea),
                      (IF dynamic THEN core.d[n] ELSE SignExtend(n, 1)) % (size * ByteBits))
  BY Zenon DEF BTST, Tests
<1>2. PICK opcode : opcode = IF dynamic THEN Opcode ELSE Memory_RetrFromPC(Opcode, 1)
  OBVIOUS
<1>3. Begins(opcode)
  BY <1>2, OpcodeFetched
<1>4. PICK ea \in {e \in Operand : Inside(EA_GetFromPC(opcode, IF e.mode = "Dn" THEN 4 ELSE 1, e).at)} :
        LET size == IF ea.mode = "Dn" THEN 4 ELSE 1
        IN Tests(op, EA_GetFromPC(opcode, size, ea),
                 (IF dynamic THEN core.d[n] ELSE SignExtend(n, 1)) % (size * ByteBits))
  BY <1>1, <1>2
<1>5. PICK size : size = IF ea.mode = "Dn" THEN 4 ELSE 1
  OBVIOUS
<1>6. PICK e : e = EA_GetFromPC(opcode, size, ea)
  OBVIOUS
<1>7. PICK x : x = IF dynamic THEN core.d[n] ELSE SignExtend(n, 1)
  OBVIOUS
<1>8. IsOperand(ea) /\ Inside(e.at) /\ size \in {1, 4} /\ (ea.mode = "An" => size = 1)
  BY <1>5, <1>6, CpuAssumption
<1>9. x \in Int
  <2>1. core.d[n] \in Int
    BY Parts, LongsAreNumbers DEF Registers
  <2>2. SignExtend(n, 1) \in Int
    BY SignExtension, LongsAreNumbers DEF Registers
  <2>3. QED
    BY <1>7, <2>1, <2>2
<1>10. Begins(e.core) /\ IsPlace(e.at) /\ e.at.mode = ea.mode /\ e.at.size = size
  BY <1>3, <1>6, <1>8, OperandRead
<1>11. PICK bit : bit = x % (size * ByteBits)
  OBVIOUS
<1>12. bit \in 0 .. LongBits - 1
  BY <1>8, <1>9, <1>11, BitsInLong
<1>13. Tests(op, e, bit)
  BY <1>4, <1>5, <1>6, <1>7, <1>11
<1>14. QED
  BY <1>8, <1>10, <1>12, <1>13, BitTested

-----------------------------------------------------------------------------
(* Conditions, branches and jumps. *)

\* Scc has the outcome of an instruction.
LEMMA SetOutcome ==
  ASSUME core \in Machines, SCC
  PROVE  Outcome
<1>1. PICK n \in Registers, condition \in Conditions \cup {"T", "F"} :
        LET set == CASE condition = "T" -> TRUE
                     [] condition = "F" -> FALSE
                     [] OTHER -> SetTaken(condition, core.ccr)
        IN /\ core' = EA_PutValue(Opcode, Register(n, 1), IF set THEN Byte - 1 ELSE 0)
           /\ done' = [instr |-> "SCC", as |-> "condition", at |-> Register(n, 1),
                       condition |-> condition, taken |-> set]
  BY DEF SCC
<1> DEFINE set == CASE condition = "T" -> TRUE
                    [] condition = "F" -> FALSE
                    [] OTHER -> SetTaken(condition, core.ccr)
<1>2. condition \in Conditions => set = SetTaken(condition, core.ccr)
  BY DEF Conditions
<1> HIDE DEF set
<1>3. PICK at : at = Register(n, 1)
  OBVIOUS
<1>4. PICK value : value = IF set THEN Byte - 1 ELSE 0
  OBVIOUS
<1>5. /\ core' = EA_PutValue(Opcode, at, value)
      /\ done' = [instr |-> "SCC", as |-> "condition", at |-> at, condition |-> condition, taken |-> set]
  BY <1>1, <1>3, <1>4 DEF set
<1>6. Begins(Opcode)
  BY OpcodeFetched
<1>7. IsPlace(at) /\ at.mode = "Dn"
  BY <1>3, RegisterPlaces
<1>8. value \in Int /\ core.ccr \in Flags
  BY <1>4, WordIsEven, Parts
<1>9. core' \in Machines /\ core'.ccr = core.ccr /\ Touches(at)
  BY <1>5, <1>6, <1>7, <1>8, ResultWritten
<1>10. /\ done'.instr = "SCC" /\ done'.as = "condition" /\ done'.at = at
       /\ done'.condition = condition /\ done'.taken = set
  BY <1>5
<1>11. OnlyDestination
  BY <1>9, <1>10, AllowedChange
<1>12. Kept
  BY <1>2, <1>9, <1>10 DEF Kept
<1>13. QED
  BY <1>9, <1>11, <1>12 DEF Outcome

\* The machine behind the words of a branch, and its displacement.
IsTarget(target) == Begins(target.core) /\ target.offset \in Int

\* Both readings of a displacement leave a machine and a number.
LEMMA Targets ==
  ASSUME core \in Machines, NEW x \in Displacements
  PROVE  IsTarget(Target_a(x)) /\ IsTarget(Target_b(x))
<1>1. Begins(Opcode) /\ Begins(Memory_RetrFromPC(Opcode, 2))
  BY OpcodeFetched
<1>2. x.byte \in Int /\ x.word \in Int /\ x.long \in Int
  BY CpuAssumption, LongsAreNumbers, WordIsEven
<1>3. SignExtend(x.byte, 1) \in Int /\ SignExtend(x.word, 2) \in Int
  <2>1. ASSUME NEW w \in Int PROVE SignExtend(w, 1) \in Int
    <3>1. PICK size : size = 1 /\ size \in {1, 2, 4}
      OBVIOUS
    <3>2. SignExtend(w, size) \in Longs
      BY <3>1, SignExtension
    <3>3. QED
      BY <3>1, <3>2, LongsAreNumbers
  <2>2. ASSUME NEW w \in Int PROVE SignExtend(w, 2) \in Int
    <3>1. PICK size : size = 2 /\ size \in {1, 2, 4}
      OBVIOUS
    <3>2. SignExtend(w, size) \in Longs
      BY <3>1, SignExtension
    <3>3. QED
      BY <3>1, <3>2, LongsAreNumbers
  <2>3. QED
    BY <1>2, <2>1, <2>2
<1>4. PICK a : a = Target_a(x)
  OBVIOUS
<1>5. IsTarget(a)
  <2>1. \/ a = [core |-> Opcode, offset |-> SignExtend(x.byte, 1)]
        \/ a = [core |-> Memory_RetrFromPC(Opcode, 2), offset |-> SignExtend(x.word, 2)]
    BY <1>4 DEF Target_a
  <2>2. QED
    BY <1>1, <1>3, <2>1 DEF IsTarget
<1>6. PICK m : m = Memory_RetrFromPC(a.core, 4)
  OBVIOUS
<1>7. Begins(m)
  BY <1>5, <1>6, OpcodeFetched DEF IsTarget
<1>8. Target_b(x) = IF a.offset # Long - 1 THEN a ELSE [core |-> m, offset |-> x.long]
  BY <1>4, <1>6 DEF Target_b
<1>9. IsTarget(Target_b(x))
  BY <1>2, <1>5, <1>7, <1>8 DEF IsTarget
<1>10. QED
  BY <1>4, <1>5, <1>9

\* A push leaves a machine with the flags it had.
LEMMA Pushed ==
  ASSUME NEW m \in Machines, NEW value \in Longs
  PROVE  Stack_Push(m, 4, value) \in Machines /\ Stack_Push(m, 4, value).ccr = m.ccr
<1>1. PICK ea : ea = [mode |-> "PreDecrement", reg |-> 7, data |-> 0]
  OBVIOUS
<1>2. 0 \in Longs
  BY SmallNumbers
<1>3. IsOperand(ea)
  BY <1>1, <1>2 DEF IsOperand, InMemory, Absolute, PCRelative, Indexed
<1>4. PICK e : e = EA_GetFromPC(m, 4, ea)
  OBVIOUS
<1>5. PICK c, at : c = e.core /\ at = e.at
  OBVIOUS
<1>6. c \in Machines /\ c.ccr = m.ccr /\ IsPlace(at)
  BY <1>3, <1>4, <1>5, Formed
<1>7. value \in Int
  BY LongsAreNumbers
<1>8. PICK o : o = EA_PutValue(c, at, value)
  OBVIOUS
<1>9. o \in Machines /\ o.ccr = c.ccr
  BY <1>6, <1>7, <1>8, Written
<1>10. Stack_Push(m, 4, value) = o
  BY <1>1, <1>4, <1>5, <1>8 DEF Stack_Push
<1>11. QED
  BY <1>6, <1>9, <1>10

\* A branch changes neither flags nor registers but A7.
LEMMA BranchOutcome ==
  ASSUME core \in Machines, NEW target, IsTarget(target), Branch(target)
  PROVE  Outcome
<1>1. PICK condition \in Conditions \cup {"T", "SR"} :
        LET taken == condition \in {"T", "SR"} \/ BranchTaken(condition, core.ccr)
            pushed == IF condition = "SR" THEN Stack_Push(target.core, 4, target.core.pc)
                                          ELSE target.core
        IN /\ core' = IF taken THEN [pushed EXCEPT !.pc = (Opcode.pc + target.offset) % Long]
                               ELSE pushed
           /\ done' = [instr |-> "BCC", as |-> "condition", condition |-> condition, taken |-> taken]
  BY DEF Branch
<1> DEFINE taken == condition \in {"T", "SR"} \/ BranchTaken(condition, core.ccr)
<1>2. condition \in Conditions => (taken <=> BranchTaken(condition, core.ccr))
  BY DEF Conditions
<1> HIDE DEF taken
<1>3. PICK pushed : pushed = IF condition = "SR" THEN Stack_Push(target.core, 4, target.core.pc)
                                                 ELSE target.core
  OBVIOUS
<1>4. PICK to : to = (Opcode.pc + target.offset) % Long
  OBVIOUS
<1>5. core' = (IF taken THEN [pushed EXCEPT !.pc = to] ELSE pushed)
  BY <1>1, <1>3, <1>4 DEF taken
<1>6. done' = [instr |-> "BCC", as |-> "condition", condition |-> condition, taken |-> taken]
  BY <1>1 DEF taken
<1>7. target.core \in Machines /\ target.core.ccr = core.ccr /\ target.core.pc \in Longs
  BY Parts DEF IsTarget, Begins
<1>8. pushed \in Machines /\ pushed.ccr = core.ccr
  <2>1. PICK m : m = target.core
    OBVIOUS
  <2>2. Stack_Push(m, 4, m.pc) \in Machines /\ Stack_Push(m, 4, m.pc).ccr = m.ccr
    BY <1>7, <2>1, Pushed
  <2>3. QED
    BY <1>3, <1>7, <2>1, <2>2
<1>9. to \in Longs
  <2>1. Opcode.pc \in Int /\ target.offset \in Int
    BY OpcodeFetched, Parts, LongsAreNumbers DEF Begins, IsTarget
  <2>2. QED
    BY <1>4, <2>1, Wrapped
<1>10. core' \in Machines /\ core'.ccr = core.ccr
  BY <1>5, <1>8, <1>9, WithPC
<1>11. /\ done'.instr = "BCC" /\ done'.as = "condition"
       /\ done'.condition = condition /\ done'.taken = taken
  BY <1>6
<1>12. OnlyDestination
  BY <1>11 DEF OnlyDestination
<1>13. Kept
  BY <1>2, <1>10, <1>11 DEF Kept
<1>14. QED
  BY <1>10, <1>12, <1>13 DEF Outcome

\* So have the branches, the jumps and what does nothing.
LEMMA JumpOutcome ==
  ASSUME core \in Machines, BCC \/ BCC_isa_b \/ JMP \/ NOP \/ TRAPF \/ Refused
  PROVE  Outcome
<1>1. Begins(Opcode) /\ \A size \in Nat : Begins(Memory_RetrFromPC(Opcode, size))
  BY OpcodeFetched
<1>2. CASE BCC
  BY <1>2, Targets, BranchOutcome DEF BCC
<1>3. CASE BCC_isa_b
  BY <1>3, Targets, BranchOutcome DEF BCC_isa_b
<1>4. CASE JMP
  <2>1. PICK ea \in Reachable(Opcode, 4) :
          LET e == EA_GetFromPC(Opcode, 4, ea)
          IN /\ core' = [e.core EXCEPT !.pc = e.at.address]
             /\ done' = [instr |-> "JMP", as |-> "pc"]
    BY <1>4 DEF JMP
  <2>2. PICK e : e = EA_GetFromPC(Opcode, 4, ea)
    OBVIOUS
  <2>3. Begins(e.core) /\ IsPlace(e.at)
    BY <1>1, <2>2, OperandIsOne, OperandRead
  <2>4. PICK c, to : c = e.core /\ to = e.at.address
    OBVIOUS
  <2>5. c \in Machines /\ c.ccr = core.ccr /\ to \in Longs
    BY <2>3, <2>4 DEF Begins, IsPlace
  <2>6. core' = [c EXCEPT !.pc = to] /\ done'.as = "pc"
    BY <2>1, <2>2, <2>4
  <2>7. core' \in Machines /\ core'.ccr = core.ccr
    BY <2>5, <2>6, WithPC
  <2>8. QED
    BY <2>6, <2>7, StepsOver
<1>5. CASE NOP \/ TRAPF \/ Refused
  <2>1. \E m : Begins(m) /\ core' = m
    BY <1>1, <1>5 DEF NOP, TRAPF, Refused
  <2>2. core' \in Machines /\ core'.ccr = core.ccr
    BY <2>1 DEF Begins
  <2>3. done'.as = "pc"
    BY <1>5 DEF NOP, TRAPF, Refused
  <2>4. QED
    BY <2>2, <2>3, StepsOver
<1>6. QED
  BY <1>2, <1>3, <1>4, <1>5

-----------------------------------------------------------------------------
(* Block moves. *)

\* The registers of the list are four different ones.
LEMMA ListedRegisters ==
  /\ Len(Listed) = 4 /\ DOMAIN Listed = 1 .. 4 /\ Range(Listed) = {Listed[i] : i \in 1 .. 4}
  /\ \A i \in 1 .. 4 :
       /\ IsPlace(Listed[i]) /\ Inside(Listed[i]) /\ Listed[i].mode \in {"Dn", "An"}
       /\ Listed[i].size = 4
  /\ \A i, j \in 1 .. 4 :
       i # j => Listed[i].mode # Listed[j].mode \/ Listed[i].reg # Listed[j].reg
<1>1. PICK a, b, c, d : a = Register(0, 4) /\ b = Register(1, 4) /\ c = AddressRegister(0) /\ d = AddressRegister(7)
  OBVIOUS
<1>2. Listed = <<a, b, c, d>>
  BY <1>1 DEF Listed
<1>3. Listed[1] = a /\ Listed[2] = b /\ Listed[3] = c /\ Listed[4] = d
  BY <1>2
<1>4. Len(Listed) = 4 /\ DOMAIN Listed = 1 .. 4
  BY <1>2
<1>5. /\ IsPlace(a) /\ Inside(a) /\ a.mode = "Dn" /\ a.size = 4 /\ a.reg = 0
      /\ IsPlace(b) /\ Inside(b) /\ b.mode = "Dn" /\ b.size = 4 /\ b.reg = 1
      /\ IsPlace(c) /\ Inside(c) /\ c.mode = "An" /\ c.size = 4 /\ c.reg = 0
      /\ IsPlace(d) /\ Inside(d) /\ d.mode = "An" /\ d.size = 4 /\ d.reg = 7
  BY <1>1, RegisterPlaces DEF Registers
<1>6. \A i \in 1 .. 4 : i = 1 \/ i = 2 \/ i = 3 \/ i = 4
  OBVIOUS
<1>7. \A i \in 1 .. 4 :
        /\ IsPlace(Listed[i]) /\ Inside(Listed[i]) /\ Listed[i].mode \in {"Dn", "An"}
        /\ Listed[i].size = 4
  BY <1>3, <1>5, <1>6
<1>8. \A i, j \in 1 .. 4 :
        i # j => Listed[i].mode # Listed[j].mode \/ Listed[i].reg # Listed[j].reg
  BY <1>3, <1>5, <1>6
<1>9. QED
  BY <1>4, <1>7, <1>8 DEF Range

\* The registers of a mask have places of their own, in the order of the list.
LEMMA Places ==
  ASSUME NEW mask \in SUBSET Range(Listed)
  PROVE  /\ Cardinality(mask) \in Nat
         /\ \A i \in 1 .. 4 : Before(mask, i) \in Nat
         /\ \A i \in 1 .. 4 : Listed[i] \in mask => Before(mask, i) + 1 <= Cardinality(mask)
         /\ \A i, j \in 1 .. 4 :
              i < j /\ Listed[i] \in mask => Before(mask, i) + 1 <= Before(mask, j)
<1> DEFINE S(n) == {j \in 1 .. n : Listed[j] \in mask}
<1>1. ASSUME NEW n \in 0 .. 4
      PROVE  IsFiniteSet(S(n)) /\ Cardinality(S(n)) \in Nat
  <2>1. IsFiniteSet(1 .. n) /\ S(n) \in SUBSET (1 .. n)
    BY FS_Interval
  <2>2. QED
    BY <2>1, FS_Subset, FS_CardinalityType
<1>2. \A i \in 1 .. 4 : Before(mask, i) = Cardinality(S(i - 1)) /\ i - 1 \in 0 .. 4
  BY DEF Before
<1>3. ASSUME NEW i \in 1 .. 4, NEW n \in 0 .. 4, i <= n, Listed[i] \in mask
      PROVE  Cardinality(S(i - 1)) + 1 <= Cardinality(S(n))
  <2>0. i - 1 \in 0 .. 4
    OBVIOUS
  <2>1. S(i - 1) \cup {i} \in SUBSET S(n) /\ i \notin S(i - 1)
    BY <1>3
  <2>2. IsFiniteSet(S(i - 1)) /\ IsFiniteSet(S(n)) /\ Cardinality(S(i - 1)) \in Nat
    BY <1>1, <2>0
  <2> HIDE DEF S
  <2>3. Cardinality(S(i - 1) \cup {i}) = Cardinality(S(i - 1)) + 1
    BY <2>1, <2>2, FS_AddElement
  <2>4. Cardinality(S(i - 1) \cup {i}) <= Cardinality(S(n))
    BY <2>1, <2>2, FS_Subset
  <2>5. QED
    BY <2>3, <2>4
<1>4. Cardinality(S(4)) <= Cardinality(mask) /\ Cardinality(mask) \in Nat
  <2> DEFINE f == [j \in S(4) |-> Listed[j]]
  <2>1. f \in [S(4) -> mask]
    OBVIOUS
  <2>2. \A i, j \in S(4) : f[i] = f[j] => i = j
    BY ListedRegisters
  <2>3. f \in Injection(S(4), mask)
    <3> HIDE DEF f
    <3>1. QED
      BY <2>1, <2>2 DEF Injection, IsInjective
  <2>4. IsFiniteSet(mask)
    <3>1. PICK a, b, c, d : a = Listed[1] /\ b = Listed[2] /\ c = Listed[3] /\ d = Listed[4]
      OBVIOUS
    <3>2. \A x \in mask : x = a \/ x = b \/ x = c \/ x = d
      <4>1. SUFFICES ASSUME NEW x \in mask
                     PROVE  x = a \/ x = b \/ x = c \/ x = d
        OBVIOUS
      <4>2. PICK i \in 1 .. 4 : x = Listed[i]
        BY ListedRegisters
      <4>3. i = 1 \/ i = 2 \/ i = 3 \/ i = 4
        OBVIOUS
      <4>4. QED
        BY <3>1, <4>2, <4>3
    <3>3. mask \in SUBSET ({} \cup {a} \cup {b} \cup {c} \cup {d})
      BY <3>2
    <3>4. IsFiniteSet({} \cup {a} \cup {b} \cup {c} \cup {d})
      BY FS_EmptySet, FS_AddElement
    <3>5. QED
      BY <3>3, <3>4, FS_Subset
  <2> HIDE DEF f, S
  <2>5. QED
    BY <2>3, <2>4, FS_Injection, FS_CardinalityType
<1> HIDE DEF S
<1>5. \A i \in 1 .. 4 : Before(mask, i) \in Nat
  BY <1>1, <1>2
<1>6. \A i \in 1 .. 4 : Listed[i] \in mask => Before(mask, i) + 1 <= Cardinality(mask)
  <2>1. SUFFICES ASSUME NEW i \in 1 .. 4, Listed[i] \in mask
                 PROVE  Before(mask, i) + 1 <= Cardinality(mask)
    OBVIOUS
  <2>2. 4 \in 0 .. 4 /\ i <= 4
    OBVIOUS
  <2>3. Cardinality(S(i - 1)) + 1 <= Cardinality(S(4))
    BY <1>3, <2>1, <2>2
  <2>4. Cardinality(S(i - 1)) \in Nat /\ Cardinality(S(4)) \in Nat
    BY <1>1, <1>2, <2>2
  <2>5. QED
    BY <1>2, <1>4, <2>3, <2>4
<1>7. \A i, j \in 1 .. 4 : i < j /\ Listed[i] \in mask => Before(mask, i) + 1 <= Before(mask, j)
  <2>1. SUFFICES ASSUME NEW i \in 1 .. 4, NEW j \in 1 .. 4, i < j, Listed[i] \in mask
                 PROVE  Before(mask, i) + 1 <= Before(mask, j)
    OBVIOUS
  <2>2. j - 1 \in 0 .. 4 /\ i <= j - 1
    BY <2>1
  <2>3. Cardinality(S(i - 1)) + 1 <= Cardinality(S(j - 1))
    BY <1>3, <2>1, <2>2
  <2>4. QED
    BY <1>2, <2>3
<1>8. QED
  BY <1>4, <1>5, <1>6, <1>7

\* What the loop of a block move does with the i-th register of the list.
MoveOne(m, i, mask, load, place) ==
  IF Listed[i] \notin mask THEN m
  ELSE IF load THEN EA_PutValue(m, Listed[i], Memory_Retr(m, 4, place))
  ELSE Memory_Stor(m, 4, place, EA_GetValue(m, Listed[i]))

\* The loop, from the machine it begins with.
MovedBy(g, start, mask, load, address) ==
  g = [i \in 0 .. Len(Listed) |->
        IF i = 0 THEN start
        ELSE MoveOne(g[i - 1], i, mask, load, MovemPlace(address, mask, i, load))]

\* The machine after k registers: what has been moved is equal.
MovedSoFar(m, k, mask, load, address) ==
  /\ m \in Machines /\ m.ccr = core.ccr
  /\ \A i \in 1 .. k : Listed[i] \in mask =>
       EA_GetValue(m, Listed[i]) = Memory_Retr(m, 4, MovemPlace(address, mask, i, load))

\* The place of a register is in memory.
LEMMA PlaceInMemory ==
  ASSUME NEW mask \in SUBSET Range(Listed), NEW load, NEW address \in Nat,
         address .. address + 4 * Cardinality(mask) - 1 \subseteq Addresses,
         NEW i \in 1 .. 4, Listed[i] \in mask,
         NEW place, place = MovemPlace(address, mask, i, load)
  PROVE  /\ place \in Nat /\ place .. place + 3 \subseteq Addresses
         /\ \A j \in 1 .. 4 : i < j => place + 4 <= MovemPlace(address, mask, j, load)
<1>1. PICK b, c : b = Before(mask, i) /\ c = Cardinality(mask)
  OBVIOUS
<1>2. b \in Nat /\ c \in Nat /\ b + 1 <= c
  BY <1>1, Places
<1>3. place = address + 4 * b
  BY <1>1 DEF MovemPlace
<1>4. place .. place + 3 \subseteq address .. address + 4 * c - 1
  BY <1>2, <1>3
<1>5. \A j \in 1 .. 4 : i < j => place + 4 <= MovemPlace(address, mask, j, load)
  <2>1. SUFFICES ASSUME NEW j \in 1 .. 4, i < j
                 PROVE  place + 4 <= address + 4 * Before(mask, j)
    BY DEF MovemPlace
  <2>2. PICK a : a = Before(mask, j)
    OBVIOUS
  <2>3. a \in Nat /\ b + 1 <= a
    BY <1>1, <2>1, <2>2, Places
  <2>4. QED
    BY <1>2, <1>3, <2>2, <2>3
<1>6. QED
  BY <1>1, <1>2, <1>3, <1>4, <1>5

\* A register is read as it is.
LEMMA RegisterRead ==
  ASSUME NEW m \in Machines, NEW i \in 1 .. 4
  PROVE  /\ EA_GetValue(m, Listed[i]) \in Longs
         /\ \A o : o.d = m.d /\ o.a = m.a => EA_GetValue(o, Listed[i]) = EA_GetValue(m, Listed[i])
<1>1. PICK at : at = Listed[i]
  OBVIOUS
<1>2. IsPlace(at) /\ Inside(at) /\ at.mode \in {"Dn", "An"}
  BY <1>1, ListedRegisters
<1>3. EA_GetValue(m, at) \in Longs
  BY <1>2, Read
<1>4. \A o : o.d = m.d /\ o.a = m.a => EA_GetValue(o, at) = EA_GetValue(m, at)
  BY <1>2 DEF EA_GetValue
<1>5. QED
  BY <1>1, <1>3, <1>4

\* A register has the value that is loaded, the others and memory stay.
Loaded(m, o, k, value) ==
  /\ o \in Machines /\ o.ccr = m.ccr
  /\ EA_GetValue(o, Listed[k]) = value
  /\ \A i \in 1 .. 4 : i # k => EA_GetValue(o, Listed[i]) = EA_GetValue(m, Listed[i])
  /\ \A x \in Addresses : o.ram[x] = m.ram[x]

\* A register of a list is written, and no other one and nothing in memory.
LEMMA RegisterLoaded ==
  ASSUME NEW m \in Machines, NEW k \in 1 .. 4, NEW value \in Longs,
         NEW o, o = EA_PutValue(m, Listed[k], value)
  PROVE  Loaded(m, o, k, value)
<1>1. PICK at : at = Listed[k]
  OBVIOUS
<1>2. IsPlace(at) /\ Inside(at) /\ at.mode \in {"Dn", "An"} /\ at.size = 4
  BY <1>1, ListedRegisters
<1>3. value \in Int
  BY LongsAreNumbers
<1>4. /\ o \in Machines /\ o.ccr = m.ccr
      /\ \A x \in Addresses : o.ram[x] # m.ram[x] => at.mode \in InMemory
  BY <1>1, <1>2, <1>3, Written
<1>5. at.mode \notin InMemory /\ at.mode \in Writable
  BY <1>2 DEF InMemory, Absolute, PCRelative, Writable
<1>6. EA_GetValue(o, at) = value
  <2>1. SignExtend(value, at.size) = value
    BY <1>2, WholeExtension
  <2>2. o.d = EA_PutValue(m, at, value).d /\ o.a = EA_PutValue(m, at, value).a /\ o.ram = EA_PutValue(m, at, value).ram
    BY <1>1
  <2>3. QED
    BY <1>2, <1>5, <2>1, <2>2, ReadBack
<1>7. ASSUME NEW i \in 1 .. 4, i # k
      PROVE  EA_GetValue(o, Listed[i]) = EA_GetValue(m, Listed[i])
  <2>1. PICK other : other = Listed[i]
    OBVIOUS
  <2>2. other.mode \in {"Dn", "An"} /\ (other.mode # at.mode \/ other.reg # at.reg)
    BY <1>1, <1>7, <2>1, ListedRegisters
  <2>3. /\ at.mode = "Dn" => o.a = m.a /\ \A n : n # at.reg => o.d[n] = m.d[n]
        /\ at.mode = "An" => o.d = m.d /\ \A n : n # at.reg => o.a[n] = m.a[n]
    <3>1. CASE at.mode = "Dn"
      <4>1. PICK v : v = Over(m.d[at.reg], value, at.size)
        OBVIOUS
      <4>2. o = [m EXCEPT !.d[at.reg] = v]
        BY <1>1, <3>1, <4>1 DEF EA_PutValue
      <4>3. QED
        BY <3>1, <4>2 DEF Machines
    <3>2. CASE at.mode = "An"
      <4>1. o = [m EXCEPT !.a[at.reg] = value]
        BY <1>1, <1>2, <3>2 DEF EA_PutValue
      <4>2. QED
        BY <3>2, <4>1 DEF Machines
    <3>3. QED
      BY <1>2, <3>1, <3>2
  <2>4. EA_GetValue(o, other) = EA_GetValue(m, other)
    BY <1>2, <2>2, <2>3 DEF EA_GetValue
  <2>5. QED
    BY <2>1, <2>4
<1>8. QED
  BY <1>1, <1>4, <1>5, <1>6, <1>7 DEF Loaded

\* A long word is stored.
LEMMA LongStored ==
  ASSUME NEW m \in Machines, NEW address \in Nat, NEW value \in Longs,
         address .. address + 3 \subseteq Addresses, NEW o, o = Memory_Stor(m, 4, address, value)
  PROVE  o \in Machines /\ AgreeBut(m, o, address, 4) /\ Memory_Retr(o, 4, address) = value
<1>1. PICK size : size = 4
  OBVIOUS
<1>2. size \in {1, 2, 4} /\ address .. address + size - 1 \subseteq Addresses
  BY <1>1
<1>3. o = Memory_Stor(m, size, address, value)
  BY <1>1
<1>4. value \in Int /\ value % Long = value
  BY LongsAreNumbers, SmallRemainder
<1>5. o \in Machines /\ AgreeBut(m, o, address, size)
  BY <1>2, <1>3, <1>4, Stored
<1>6. Memory_Retr(o, size, address) = value % Values(size)
  BY <1>2, <1>3, <1>4, StoreRead
<1>7. Values(size) = Long
  BY <1>1 DEF Values
<1>8. QED
  BY <1>1, <1>4, <1>5, <1>6, <1>7

\* One more register of the list is moved, to or from the place after those before it.
LEMMA MovedOneMore ==
  ASSUME core \in Machines, NEW mask \in SUBSET Range(Listed), NEW load \in BOOLEAN, NEW address \in Nat,
         address .. address + 4 * Cardinality(mask) - 1 \subseteq Addresses,
         NEW k \in 1 .. 4, NEW m, MovedSoFar(m, k - 1, mask, load, address),
         NEW place, place = MovemPlace(address, mask, k, load),
         NEW o, o = MoveOne(m, k, mask, load, place)
  PROVE  MovedSoFar(o, k, mask, load, address)
<1>1. /\ m \in Machines /\ m.ccr = core.ccr
      /\ \A i \in 1 .. k - 1 : Listed[i] \in mask =>
           EA_GetValue(m, Listed[i]) = Memory_Retr(m, 4, MovemPlace(address, mask, i, load))
  BY DEF MovedSoFar
<1>2. CASE Listed[k] \notin mask
  <2>1. o = m
    BY <1>2 DEF MoveOne
  <2>2. \A i \in 1 .. k : Listed[i] \in mask => i \in 1 .. k - 1
    BY <1>2
  <2>3. QED
    BY <1>1, <2>1, <2>2 DEF MovedSoFar
<1>3. CASE Listed[k] \in mask /\ load
  <2>1. PICK value : value = Memory_Retr(m, 4, place)
    OBVIOUS
  <2>2. place \in Nat /\ place .. place + 3 \subseteq Addresses
    BY <1>3, PlaceInMemory
  <2>3. value \in Longs
    BY <1>1, <2>1, <2>2, LongRead
  <2>4. o = EA_PutValue(m, Listed[k], value)
    BY <1>3, <2>1 DEF MoveOne
  <2>5. /\ o \in Machines /\ o.ccr = m.ccr
        /\ EA_GetValue(o, Listed[k]) = value
        /\ \A i \in 1 .. 4 : i # k => EA_GetValue(o, Listed[i]) = EA_GetValue(m, Listed[i])
        /\ \A x \in Addresses : o.ram[x] = m.ram[x]
    <3>1. Loaded(m, o, k, value)
      BY <1>1, <2>3, <2>4, RegisterLoaded
    <3>2. QED
      BY <3>1 DEF Loaded
  <2>6. ASSUME NEW i \in 1 .. k, Listed[i] \in mask
        PROVE  EA_GetValue(o, Listed[i]) = Memory_Retr(o, 4, MovemPlace(address, mask, i, load))
    <3>1. PICK there : there = MovemPlace(address, mask, i, load)
      OBVIOUS
    <3>2. there \in Nat /\ there .. there + 3 \subseteq Addresses
      BY <2>6, <3>1, PlaceInMemory
    <3>3. Memory_Retr(o, 4, there) = Memory_Retr(m, 4, there)
      BY <2>5, <3>2, SameRead
    <3>4. CASE i = k
      BY <2>1, <2>5, <3>1, <3>3, <3>4
    <3>5. CASE i # k
      <4>1. i \in 1 .. k - 1 /\ i \in 1 .. 4
        BY <3>5
      <4>2. EA_GetValue(m, Listed[i]) = Memory_Retr(m, 4, there)
        BY <1>1, <2>6, <3>1, <4>1
      <4>3. QED
        BY <2>5, <3>1, <3>3, <3>5, <4>1, <4>2
    <3>6. QED
      BY <3>4, <3>5
  <2>7. QED
    BY <1>1, <2>5, <2>6 DEF MovedSoFar
<1>4. CASE Listed[k] \in mask /\ ~load
  <2>1. PICK value : value = EA_GetValue(m, Listed[k])
    OBVIOUS
  <2>2. place \in Nat /\ place .. place + 3 \subseteq Addresses
    BY <1>4, PlaceInMemory
  <2>3. value \in Longs
    BY <1>1, <2>1, RegisterRead
  <2>4. o = Memory_Stor(m, 4, place, value)
    BY <1>4, <2>1 DEF MoveOne
  <2>5. o \in Machines /\ AgreeBut(m, o, place, 4) /\ Memory_Retr(o, 4, place) = value
    BY <1>1, <2>2, <2>3, <2>4, LongStored
  <2>6. /\ o.d = m.d /\ o.a = m.a /\ o.ccr = m.ccr
        /\ \A x \in Addresses : o.ram[x] # m.ram[x] => x \in place .. place + 3
    BY <2>2, <2>5 DEF AgreeBut
  <2>7. Memory_Retr(o, 4, place) = value
    BY <2>5
  <2>8. ASSUME NEW i \in 1 .. k, Listed[i] \in mask
        PROVE  EA_GetValue(o, Listed[i]) = Memory_Retr(o, 4, MovemPlace(address, mask, i, load))
    <3>1. PICK there : there = MovemPlace(address, mask, i, load)
      OBVIOUS
    <3>2. i \in 1 .. 4 /\ EA_GetValue(o, Listed[i]) = EA_GetValue(m, Listed[i])
      BY <1>1, <2>6, RegisterRead
    <3>3. CASE i = k
      BY <2>1, <2>7, <3>1, <3>2, <3>3
    <3>4. CASE i # k
      <4>1. i \in 1 .. k - 1 /\ i < k
        BY <3>4
      <4>2. EA_GetValue(m, Listed[i]) = Memory_Retr(m, 4, there)
        BY <1>1, <2>8, <3>1, <4>1
      <4>3. there \in Nat /\ there .. there + 3 \subseteq Addresses /\ there + 4 <= place
        BY <2>8, <3>1, <3>2, <4>1, PlaceInMemory
      <4>4. \A x \in there .. there + 3 : o.ram[x] = m.ram[x]
        BY <2>2, <2>6, <4>3
      <4>5. Memory_Retr(o, 4, there) = Memory_Retr(m, 4, there)
        BY <4>3, <4>4, SameRead
      <4>6. QED
        BY <3>1, <3>2, <4>2, <4>5
    <3>5. QED
      BY <3>3, <3>4
  <2>9. QED
    BY <1>1, <2>5, <2>6, <2>8 DEF MovedSoFar
<1>5. QED
  BY <1>2, <1>3, <1>4

\* The loop goes over the list from its first register to its last.
LEMMA LoopOfMoves ==
  ASSUME NEW start, NEW mask, NEW load, NEW address,
         NEW moved, moved = CHOOSE g : MovedBy(g, start, mask, load, address)
  PROVE  /\ moved[0] = start
         /\ \A i \in 1 .. 4 :
              moved[i] = MoveOne(moved[i - 1], i, mask, load, MovemPlace(address, mask, i, load))
<1> DEFINE Step(m, i) == MoveOne(m, i, mask, load, MovemPlace(address, mask, i, load))
<1>1. PICK m1 : m1 = Step(start, 1)
  OBVIOUS
<1>2. PICK m2 : m2 = Step(m1, 2)
  OBVIOUS
<1>3. PICK m3 : m3 = Step(m2, 3)
  OBVIOUS
<1>4. PICK m4 : m4 = Step(m3, 4)
  OBVIOUS
<1>5. PICK g : g = [i \in 0 .. 4 |-> IF i = 0 THEN start ELSE IF i = 1 THEN m1
                                     ELSE IF i = 2 THEN m2 ELSE IF i = 3 THEN m3 ELSE m4]
  OBVIOUS
<1>6. g[0] = start /\ g[1] = m1 /\ g[2] = m2 /\ g[3] = m3 /\ g[4] = m4
  BY <1>5
<1> HIDE DEF Step
<1>7. \A i \in 0 .. 4 : g[i] = IF i = 0 THEN start ELSE Step(g[i - 1], i)
  <2>1. SUFFICES ASSUME NEW i \in 0 .. 4
                 PROVE  g[i] = IF i = 0 THEN start ELSE Step(g[i - 1], i)
    OBVIOUS
  <2>2. i = 0 \/ i = 1 \/ i = 2 \/ i = 3 \/ i = 4
    OBVIOUS
  <2>3. 1 - 1 = 0 /\ 2 - 1 = 1 /\ 3 - 1 = 2 /\ 4 - 1 = 3
    OBVIOUS
  <2>4. QED
    BY <1>1, <1>2, <1>3, <1>4, <1>6, <2>2, <2>3
<1>8. g = [i \in 0 .. 4 |-> IF i = 0 THEN start ELSE Step(g[i - 1], i)]
  BY <1>5, <1>7
<1>9. MovedBy(g, start, mask, load, address)
  BY <1>8, ListedRegisters DEF MovedBy, Step
<1>10. MovedBy(moved, start, mask, load, address)
  BY <1>9
<1>11. moved = [i \in 0 .. 4 |-> IF i = 0 THEN start ELSE Step(moved[i - 1], i)]
  BY <1>10, ListedRegisters DEF MovedBy, Step
<1>12. moved[0] = start /\ \A i \in 1 .. 4 : moved[i] = Step(moved[i - 1], i)
  <2>1. PICK h : h = [i \in 0 .. 4 |-> IF i = 0 THEN start ELSE Step(moved[i - 1], i)]
    OBVIOUS
  <2>2. h[0] = start /\ \A i \in 1 .. 4 : h[i] = Step(moved[i - 1], i)
    BY <2>1
  <2>3. moved = h
    BY <1>11, <2>1
  <2>4. QED
    BY <2>2, <2>3
<1>13. QED
  BY <1>12 DEF Step

\* So MOVEM moves every register of its list and has the outcome of an instruction.
LEMMA MoveBlockOutcome ==
  ASSUME core \in Machines, MOVEM
  PROVE  Outcome
<1>1. PICK mask \in SUBSET Range(Listed), load \in BOOLEAN, ea \in Operand :
        LET e == EA_GetFromPC(Memory_RetrFromPC(Opcode, 2), 4, ea)
        IN /\ ea.mode \in {"Indirect", "Displaced"}
           /\ e.at.address .. e.at.address + 4 * Cardinality(mask) - 1 \subseteq Addresses
           /\ core' = (CHOOSE g : MovedBy(g, e.core, mask, load, e.at.address))[Len(Listed)]
           /\ done' = [instr |-> "MOVEM", as |-> IF load THEN "load" ELSE "store",
                       mask |-> mask, address |-> e.at.address]
  BY Zenon DEF MOVEM, MovedBy, MoveOne
<1>2. PICK e : e = EA_GetFromPC(Memory_RetrFromPC(Opcode, 2), 4, ea)
  OBVIOUS
<1>3. PICK start, address : start = e.core /\ address = e.at.address
  OBVIOUS
<1>4. PICK moved : moved = CHOOSE g : MovedBy(g, start, mask, load, address)
  OBVIOUS
<1>5. /\ address .. address + 4 * Cardinality(mask) - 1 \subseteq Addresses
      /\ core' = moved[4]
      /\ done' = [instr |-> "MOVEM", as |-> IF load THEN "load" ELSE "store",
                  mask |-> mask, address |-> address]
  BY <1>1, <1>2, <1>3, <1>4, ListedRegisters
<1>6. Begins(Memory_RetrFromPC(Opcode, 2)) /\ IsOperand(ea)
  BY OpcodeFetched, CpuAssumption
<1>7. start \in Machines /\ start.ccr = core.ccr /\ address \in Nat
  <2>1. PICK m : m = Memory_RetrFromPC(Opcode, 2)
    OBVIOUS
  <2>2. m \in Machines /\ m.ccr = core.ccr
    BY <1>6, <2>1 DEF Begins
  <2>3. PICK size : size = 4 /\ size \in {1, 2, 4}
    OBVIOUS
  <2>4. e = EA_GetFromPC(m, size, ea)
    BY <1>2, <2>1, <2>3
  <2>5. e.core \in Machines /\ e.core.ccr = m.ccr /\ IsPlace(e.at)
    BY <1>6, <2>2, <2>3, <2>4, Formed
  <2>6. QED
    BY <1>3, <2>2, <2>5, LongsAreNumbers DEF IsPlace
<1>8. /\ moved[0] = start
      /\ \A i \in 1 .. 4 :
           moved[i] = MoveOne(moved[i - 1], i, mask, load, MovemPlace(address, mask, i, load))
  BY <1>4, LoopOfMoves
<1>9. MovedSoFar(moved[0], 0, mask, load, address)
  BY <1>7, <1>8 DEF MovedSoFar
<1>10. ASSUME NEW k \in 1 .. 4, MovedSoFar(moved[k - 1], k - 1, mask, load, address)
       PROVE  MovedSoFar(moved[k], k, mask, load, address)
  BY <1>5, <1>7, <1>8, <1>10, MovedOneMore
<1>11. MovedSoFar(moved[4], 4, mask, load, address)
  <2>1. MovedSoFar(moved[1], 1, mask, load, address)
    <3>1. 1 \in 1 .. 4 /\ 1 - 1 = 0
      OBVIOUS
    <3>2. QED
      BY <1>9, <1>10, <3>1
  <2>2. MovedSoFar(moved[2], 2, mask, load, address)
    <3>1. 2 \in 1 .. 4 /\ 2 - 1 = 1
      OBVIOUS
    <3>2. QED
      BY <1>10, <2>1, <3>1
  <2>3. MovedSoFar(moved[3], 3, mask, load, address)
    <3>1. 3 \in 1 .. 4 /\ 3 - 1 = 2
      OBVIOUS
    <3>2. QED
      BY <1>10, <2>2, <3>1
  <2>4. QED
    <3>1. 4 \in 1 .. 4 /\ 4 - 1 = 3
      OBVIOUS
    <3>2. QED
      BY <1>10, <2>3, <3>1
<1>12. /\ core' \in Machines /\ core'.ccr = core.ccr
       /\ \A i \in 1 .. 4 : Listed[i] \in mask =>
            EA_GetValue(core', Listed[i]) = Memory_Retr(core', 4, address + 4 * Before(mask, i))
  BY <1>5, <1>11 DEF MovedSoFar, MovemPlace
<1>13. /\ done'.as \in {"load", "store"} /\ done'.mask = mask /\ done'.address = address
  BY <1>5
<1>14. BlockMoveAgrees'
  BY <1>12, <1>13, ListedRegisters DEF BlockMoveAgrees
<1>15. OnlyDestination
  BY <1>13 DEF OnlyDestination
<1>16. QED
  BY <1>12, <1>13, <1>14, <1>15 DEF Outcome, Moved

-----------------------------------------------------------------------------
(* Shifts *)

\* A round of the loop of ASR, and one of ASL.
RightRound(last) ==
  LET half == last.result \div 2
      out == last.result % 2 = 1
  IN [result |-> half + (IF 4 * half >= Long THEN Long \div 2 ELSE 0),
      flags |-> [last.flags EXCEPT !.c = out, !.x = out]]

\* A round of ASL.
LeftRound(last) ==
  LET out == Negative(last.result)
  IN [result |-> (2 * last.result) % Long,
      flags |-> [last.flags EXCEPT !.c = out, !.x = out]]

\* A round of the one or of the other.
Round(right, last) == IF right THEN RightRound(last) ELSE LeftRound(last)

\* The loops, and both of them in one.
RightRounds(g, start, count) ==
  g = [i \in 0 .. count |-> IF i = 0 THEN start ELSE RightRound(g[i - 1])]

\* The rounds of ASL.
LeftRounds(g, start, count) ==
  g = [i \in 0 .. count |-> IF i = 0 THEN start ELSE LeftRound(g[i - 1])]

\* The rounds of either.
Rounds(g, right, start, count) ==
  g = [i \in 0 .. count |-> IF i = 0 THEN start ELSE Round(right, g[i - 1])]

\* There is a function with the rounds for every count.
LEMMA RoundsExist ==
  ASSUME NEW right, NEW start
  PROVE  \A n \in Nat : \E g : Rounds(g, right, start, n)
<1> DEFINE Has(n) == \E g : Rounds(g, right, start, n)
           Bad == {n \in Nat : ~Has(n)}
<1>1. SUFFICES ASSUME Bad # {} PROVE FALSE
  OBVIOUS
<1>2. PICK n \in Bad : \A m \in Bad : n <= m
  <2>1. Bad \subseteq Nat
    OBVIOUS
  <2>2. QED
    BY <1>1, <2>1, LeastElement
<1>3. CASE n = 0
  <2>1. Rounds([i \in 0 .. 0 |-> start], right, start, 0)
    BY DEF Rounds
  <2>2. QED
    BY <1>2, <1>3, <2>1
<1>4. CASE n # 0
  <2>1. n - 1 \in Nat /\ ~(n <= n - 1)
    BY <1>4
  <2>2. Has(n - 1)
    BY <1>2, <2>1
  <2>3. PICK g : Rounds(g, right, start, n - 1)
    BY <2>2
  <2> DEFINE h == [i \in 0 .. n |-> IF i < n THEN g[i] ELSE Round(right, g[n - 1])]
  <2>4. ASSUME NEW i \in 0 .. n PROVE h[i] = IF i = 0 THEN start ELSE Round(right, h[i - 1])
    <3>1. \A j \in 0 .. n - 1 : g[j] = IF j = 0 THEN start ELSE Round(right, g[j - 1])
      BY <2>3 DEF Rounds
    <3>2. CASE i = 0
      BY <1>4, <2>1, <3>1, <3>2
    <3>3. CASE i # 0 /\ i < n
      <4>1. i \in 0 .. n - 1 /\ i - 1 \in 0 .. n /\ i - 1 < n
        BY <3>3
      <4>2. h[i] = g[i] /\ h[i - 1] = g[i - 1]
        BY <3>3, <4>1
      <4>3. QED
        BY <3>1, <3>3, <4>1, <4>2
    <3>4. CASE i = n
      <4>1. n - 1 \in 0 .. n /\ n - 1 < n
        BY <2>1
      <4>2. h[n] = Round(right, g[n - 1]) /\ h[n - 1] = g[n - 1]
        BY <4>1
      <4>3. QED
        BY <1>4, <3>4, <4>2
    <3>5. QED
      BY <3>2, <3>3, <3>4
  <2>5. Rounds(h, right, start, n)
    <3>1. h = [i \in 0 .. n |-> h[i]]
      OBVIOUS
    <3>2. h = [i \in 0 .. n |-> IF i = 0 THEN start ELSE Round(right, h[i - 1])]
      <4> HIDE DEF h
      <4>1. QED
        BY <2>4, <3>1
    <3>3. QED
      BY <3>2 DEF Rounds
  <2>6. QED
    BY <1>2, <2>5
<1>5. QED
  BY <1>3, <1>4

\* A shift is what the last round makes of the operand.
LEMMA LoopOfRounds ==
  ASSUME NEW right \in BOOLEAN, NEW value, NEW count \in Nat, NEW flags,
         NEW shift, shift = IF right THEN ASR(value, count, flags) ELSE ASL(value, count, flags),
         NEW start, start = [result |-> value, flags |-> flags]
  PROVE  \E g : Rounds(g, right, start, count) /\ shift = g[count]
<1>1. PICK h : Rounds(h, right, start, count)
  BY RoundsExist
<1>2. CASE right = TRUE
  <2>1. shift = (CHOOSE g : RightRounds(g, start, count))[count]
    BY Zenon, <1>2 DEF ASR, RightRounds, RightRound
  <2>2. \A g : Rounds(g, right, start, count) <=> RightRounds(g, start, count)
    BY <1>2 DEF Rounds, RightRounds, Round
  <2>3. PICK g : g = CHOOSE g1 : RightRounds(g1, start, count)
    OBVIOUS
  <2>4. RightRounds(g, start, count)
    BY <1>1, <2>2, <2>3
  <2>5. QED
    BY <2>1, <2>2, <2>3, <2>4
<1>3. CASE right = FALSE
  <2>1. shift = (CHOOSE g : LeftRounds(g, start, count))[count]
    BY Zenon, <1>3 DEF ASL, LeftRounds, LeftRound
  <2>2. \A g : Rounds(g, right, start, count) <=> LeftRounds(g, start, count)
    BY <1>3 DEF Rounds, LeftRounds, Round
  <2>3. PICK g : g = CHOOSE g1 : LeftRounds(g1, start, count)
    OBVIOUS
  <2>4. LeftRounds(g, start, count)
    BY <1>1, <2>2, <2>3
  <2>5. QED
    BY <2>1, <2>2, <2>3, <2>4
<1>4. QED
  BY <1>2, <1>3

\* A number after some rounds: v is the operand, read with its sign in a shift
\* to the right.
ShiftedTo(s, right, i, v, flags) ==
  /\ s.result = Moves(right, v, i)
  /\ right => 0 - Long <= 2 * (v \div Power[i]) /\ 2 * (v \div Power[i]) < Long
  /\ s.flags \in Flags
  /\ i = 0 => s.flags = flags
  /\ i > 0 => (s.flags.x <=> Out(right, v, i)) /\ (s.flags.c <=> Out(right, v, i))

\* Flags whose C and X are replaced.
LEMMA CarryReplaced ==
  ASSUME NEW f \in Flags, NEW out \in BOOLEAN, NEW g, g = [f EXCEPT !.c = out, !.x = out]
  PROVE  g \in Flags /\ g.x = out /\ g.c = out
BY DEF Flags

\* One round more.
LEMMA OneRound ==
  ASSUME NEW right \in BOOLEAN, NEW v \in Int, NEW i \in 1 .. 2 * LongBits, NEW flags,
         NEW last, ShiftedTo(last, right, i - 1, v, flags), NEW s, s = Round(right, last)
  PROVE  ShiftedTo(s, right, i, v, flags)
<1>1. i \in 0 .. 2 * LongBits /\ i - 1 \in 0 .. 2 * LongBits /\ i # 0 /\ i > 0
  BY BitsAreNumbers
<1>2. PICK a : a = Power[i - 1] /\ a \in Nat /\ a > 0
  BY <1>1, PowerIsPositive
<1>3. PICK p : p = Power[i] /\ p = a * 2
  <2>1. Power[i] = 2 * Power[i - 1]
    BY <1>1, PowerAt
  <2>2. 2 * a = a * 2
    BY <1>2
  <2>3. QED
    BY <1>2, <2>1, <2>2
<1>4. PICK r : r = last.result /\ r = Moves(right, v, i - 1)
  BY DEF ShiftedTo
<1>5. last.flags \in Flags
  BY DEF ShiftedTo
<1>6. CASE right = TRUE
  <2>1. PICK q : q = v \div a
    OBVIOUS
  <2>2. q \in Int /\ v \div p = q \div 2
    <3>1. q \in Int
      BY <1>2, <2>1, Division
    <3>2. v \div p = (v \div a) \div 2
      BY <1>2, <1>3, TwoDigits
    <3>3. QED
      BY <2>1, <3>1, <3>2
  <2>3. r = q % Long /\ 0 - Long <= 2 * q /\ 2 * q < Long
    BY <1>2, <1>4, <1>6, <2>1 DEF ShiftedTo, Moves
  <2>4. PICK half : half = r \div 2
    OBVIOUS
  <2>5. /\ half + (IF 4 * half >= Long THEN Long \div 2 ELSE 0) = (q \div 2) % Long
        /\ r % 2 = 1 <=> q % 2 = 1
        /\ 0 - Long <= 2 * (q \div 2) /\ 2 * (q \div 2) < Long
    BY <2>2, <2>3, <2>4, HalfStep
  <2>6. PICK out \in BOOLEAN : out <=> r % 2 = 1
    OBVIOUS
  <2>7. s = [result |-> (q \div 2) % Long, flags |-> [last.flags EXCEPT !.c = out, !.x = out]]
    <3>1. s = RightRound(last)
      BY <1>6 DEF Round
    <3>2. out = (r % 2 = 1)
      BY <2>6
    <3>3. s = [result |-> half + (IF 4 * half >= Long THEN Long \div 2 ELSE 0),
               flags |-> [last.flags EXCEPT !.c = (r % 2 = 1), !.x = (r % 2 = 1)]]
      BY Zenon, <1>4, <2>4, <3>1 DEF RightRound
    <3>4. QED
      BY Zenon, <2>5, <3>2, <3>3
  <2>8. PICK g : g = [last.flags EXCEPT !.c = out, !.x = out]
    OBVIOUS
  <2>9. g \in Flags /\ g.x = out /\ g.c = out
    BY ZenonT(30), <1>5, <2>8, CarryReplaced
  <2>10. s.flags = g /\ s.result = (q \div 2) % Long
    BY <2>7, <2>8
  <2>11. Out(right, v, i) <=> q % 2 = 1
    BY <1>2, <1>6, <2>1 DEF Out
  <2>12. Moves(right, v, i) = (q \div 2) % Long
    BY <1>3, <1>6, <2>2 DEF Moves
  <2>13. QED
    BY <1>1, <1>3, <2>2, <2>5, <2>6, <2>9, <2>10, <2>11, <2>12 DEF ShiftedTo
<1>7. CASE right = FALSE
  <2>1. PICK y : y = v * a /\ y \in Int /\ v * p = 2 * y
    <3>1. v * a \in Int /\ v * (a * 2) = 2 * (v * a)
      BY <1>2
    <3>2. QED
      BY <1>3, <3>1
  <2>2. r = y % Long
    BY <1>2, <1>4, <1>7, <2>1 DEF Moves
  <2>3. (2 * r) % Long = (2 * y) % Long /\ (2 * r >= Long <=> ((2 * y) \div Long) % 2 = 1)
    BY <2>1, <2>2, DoubleStep
  <2>4. PICK out \in BOOLEAN : out <=> 2 * r >= Long
    OBVIOUS
  <2>5. PICK g : g = [last.flags EXCEPT !.c = out, !.x = out]
    OBVIOUS
  <2>6. s.flags = g /\ s.result = (2 * r) % Long
    <3>1. s = LeftRound(last)
      BY <1>7 DEF Round
    <3>2. out = (2 * r >= Long)
      BY <2>4
    <3>3. s = [result |-> (2 * r) % Long,
               flags |-> [last.flags EXCEPT !.c = (2 * r >= Long), !.x = (2 * r >= Long)]]
      BY Zenon, <1>4, <3>1 DEF LeftRound, Negative
    <3>4. s = [result |-> (2 * r) % Long, flags |-> g]
      BY Zenon, <2>5, <3>2, <3>3
    <3>5. QED
      BY <3>4
  <2>7. g \in Flags /\ g.x = out /\ g.c = out
    BY ZenonT(30), <1>5, <2>4, <2>5, CarryReplaced
  <2>8. Out(right, v, i) <=> ((2 * y) \div Long) % 2 = 1
    BY <1>3, <1>7, <2>1 DEF Out
  <2>9. Moves(right, v, i) = (2 * y) % Long
    BY <1>3, <1>7, <2>1 DEF Moves
  <2>10. QED
    BY <1>1, <1>7, <2>3, <2>4, <2>6, <2>7, <2>8, <2>9 DEF ShiftedTo
<1>8. QED
  BY <1>6, <1>7

\* All of them.
LEMMA AllRounds ==
  ASSUME NEW right \in BOOLEAN, NEW v \in Int, NEW count \in 0 .. 2 * LongBits, NEW flags,
         NEW start, ShiftedTo(start, right, 0, v, flags), NEW g, Rounds(g, right, start, count)
  PROVE  ShiftedTo(g[count], right, count, v, flags)
<1> DEFINE Bad == {i \in 0 .. count : ~ShiftedTo(g[i], right, i, v, flags)}
<1>1. count \in Nat /\ count <= 2 * LongBits
  BY BitsAreNumbers
<1>2. g[0] = start /\ \A i \in 1 .. count : g[i] = Round(right, g[i - 1])
  <2>1. PICK h : h = [i \in 0 .. count |-> IF i = 0 THEN start ELSE Round(right, g[i - 1])]
    OBVIOUS
  <2>2. h[0] = start /\ \A i \in 1 .. count : h[i] = Round(right, g[i - 1])
    BY <1>1, <2>1
  <2>3. g = h
    BY <2>1 DEF Rounds
  <2>4. QED
    BY <2>2, <2>3
<1>3. SUFFICES ASSUME Bad # {} PROVE FALSE
  <2>1. count \in 0 .. count
    BY <1>1
  <2>2. QED
    BY <2>1
<1>4. PICK i \in Bad : \A m \in Bad : i <= m
  <2>1. Bad \subseteq Nat
    OBVIOUS
  <2>2. QED
    BY <1>3, <2>1, LeastElement
<1>5. i # 0
  BY <1>2, <1>4
<1>6. i \in 1 .. count /\ i \in 1 .. 2 * LongBits /\ i - 1 \in 0 .. count /\ ~(i <= i - 1)
  BY <1>1, <1>4, <1>5, BitsAreNumbers
<1>7. ShiftedTo(g[i - 1], right, i - 1, v, flags)
  BY <1>4, <1>6
<1>8. g[i] = Round(right, g[i - 1])
  BY <1>2, <1>6
<1>9. ShiftedTo(g[i], right, i, v, flags)
  BY <1>6, <1>7, <1>8, OneRound
<1>10. QED
  BY <1>4, <1>9

\* A shift that did what it should: the result and the flags are those of the
\* operand read with or without its sign.
Shifts(right, v, count, result, flags) ==
  /\ result \in Longs /\ result = Moves(right, v, count)
  /\ flags \in Flags
  /\ count = 0 => flags.x = core.ccr.x
  /\ count > 0 => (flags.x <=> Out(right, v, count)) /\ (flags.c <=> Out(right, v, count))

\* Flags whose N, Z and V are replaced.
LEMMA SignReplaced ==
  ASSUME NEW f \in Flags, NEW n \in BOOLEAN, NEW z \in BOOLEAN,
         NEW g, g = [f EXCEPT !.n = n, !.z = z, !.v = FALSE]
  PROVE  g \in Flags /\ g.x = f.x /\ g.c = f.c
BY DEF Flags

\* What the property asks of a shift.
ExactShift(right, value, count, did, m) ==
  LET out == IF right THEN (value \div Power[count - 1]) % 2 = 1
                      ELSE ((value * Power[count]) \div Long) % 2 = 1
  IN /\ did.r = (IF right THEN value \div Power[count] ELSE value * Power[count]) % Long
     /\ m.d[did.at.reg] = did.r
     /\ m.ccr.x = IF count = 0 THEN did.flags.x ELSE out
     /\ count > 0 => m.ccr.c = out

\* A shift that was written is exact.
LEMMA ShiftedOutcome ==
  ASSUME core \in Machines, NEW instr, NEW n \in Registers, NEW count \in Nat, NEW result, NEW flags,
         Shifted(instr, n, count, result, flags),
         Shifts(instr \in {"ASR", "LSR"}, IF instr = "ASR" THEN Signed(core.d[n]) ELSE core.d[n],
                count, result, flags)
  PROVE  Outcome
<1>1. PICK right \in BOOLEAN : right <=> instr \in {"ASR", "LSR"}
  OBVIOUS
<1>2. PICK v : v = IF instr = "ASR" THEN Signed(core.d[n]) ELSE core.d[n]
  OBVIOUS
<1>3. Shifts(right, v, count, result, flags)
  <2>1. right = (instr \in {"ASR", "LSR"})
    BY <1>1
  <2>2. QED
    BY <1>2, <2>1
<1>4. /\ result \in Longs /\ result \in Int /\ flags \in Flags /\ result = Moves(right, v, count)
      /\ count = 0 => flags.x = core.ccr.x
      /\ count > 0 => (flags.x <=> Out(right, v, count)) /\ (flags.c <=> Out(right, v, count))
  BY <1>3, LongsAreNumbers DEF Shifts
<1>5. PICK at : at = Register(n, 4)
  OBVIOUS
<1>6. IsPlace(at) /\ at.mode = "Dn" /\ at.reg = n /\ at.size = 4
  BY <1>5, RegisterPlaces
<1>7. PICK c : c = Opcode /\ Begins(c) /\ c \in Machines
  BY OpcodeFetched DEF Begins
<1>8. PICK f : f = [flags EXCEPT !.n = Negative(result), !.z = (result = 0), !.v = FALSE]
  OBVIOUS
<1>9. f \in Flags /\ f.x = flags.x /\ f.c = flags.c
  <2> DEFINE neg == Negative(result)
             zero == (result = 0)
  <2>1. neg \in BOOLEAN /\ zero \in BOOLEAN
    BY DEF Negative
  <2>2. f = [flags EXCEPT !.n = neg, !.z = zero, !.v = FALSE]
    BY Zenon, <1>8
  <2> HIDE DEF neg, zero
  <2>3. QED
    BY <1>4, <2>1, <2>2, SignReplaced
<1>10. PICK o : o = EA_PutValue(c, at, result)
  OBVIOUS
<1>11. core' = [o EXCEPT !.ccr = f]
  BY Zenon, <1>5, <1>7, <1>8, <1>10 DEF Shifted
<1>12. core' \in Machines /\ core'.ccr = f /\ Touches(at)
  BY <1>4, <1>6, <1>7, <1>9, <1>10, <1>11, ResultWritten
<1>13. core'.d[n] = result
  <2>1. o \in Machines /\ o.d[n] % Values(4) = result % Values(4)
    BY <1>4, <1>6, <1>7, <1>10, Written
  <2>2. core'.d = o.d
    BY <1>9, <1>11, <2>1, WithFlags
  <2>3. core'.d[n] \in Longs
    BY <1>12, Parts DEF Registers
  <2>4. Values(4) = Long
    BY DEF Values
  <2>5. core'.d[n] % Long = core'.d[n] /\ result % Long = result
    BY <1>4, <2>3, SmallRemainder
  <2>6. QED
    BY <2>1, <2>2, <2>4, <2>5
<1>14. /\ done'.instr = instr /\ done'.as = "shift" /\ done'.at = at /\ done'.s = count
       /\ done'.d = core.d[n] /\ done'.r = result /\ done'.flags = core.ccr
  <2>1. PICK p : p = [at |-> Register(n, 4), s |-> count, d |-> core.d[n]]
    OBVIOUS
  <2>2. done' = Did(instr, "shift", p, result)
    BY <2>1 DEF Shifted
  <2>3. result % Long = result
    BY <1>4, SmallRemainder
  <2>4. p.at = at /\ p.s = count /\ p.d = core.d[n]
    BY <1>5, <2>1
  <2>5. QED
    BY <2>2, <2>3, <2>4, Remembered
<1>15. OnlyDestination
  BY <1>12, <1>14, AllowedChange
<1>16. ShiftIsExact'
  <2>1. PICK x, carry : x = core'.ccr.x /\ carry = core'.ccr.c /\ x \in BOOLEAN /\ carry \in BOOLEAN
    BY <1>9, <1>12 DEF Flags
  <2>2. /\ result = Moves(right, v, count)
        /\ count = 0 => x = done'.flags.x
        /\ count > 0 => (x <=> Out(right, v, count)) /\ (carry <=> Out(right, v, count))
    BY <1>4, <1>9, <1>12, <1>14, <2>1
  <2>3. Out(right, v, count) \in BOOLEAN
    BY DEF Out
  <2>4. /\ x = IF count = 0 THEN done'.flags.x ELSE Out(right, v, count)
        /\ count > 0 => carry = Out(right, v, count)
    BY <2>1, <2>2, <2>3
  <2>5. PICK r2 : r2 = (done'.instr \in {"ASR", "LSR"}) /\ r2 = right
    BY <1>1, <1>14
  <2>6. v = IF done'.instr = "ASR" THEN Signed(done'.d) ELSE done'.d
    BY <1>2, <1>14
  <2>7. core'.d[done'.at.reg] = done'.r /\ done'.s = count /\ done'.r = result
    BY <1>6, <1>13, <1>14
  <2>8. ExactShift(right, v, count, done', core')
    BY <2>1, <2>2, <2>4, <2>7 DEF Moves, Out, ExactShift
  <2>9. PICK value : value = IF done'.instr = "ASR" THEN Signed(done'.d) ELSE done'.d
    OBVIOUS
  <2>10. ExactShift(r2, value, done'.s, done', core')
    <3>1. r2 = right /\ value = v /\ done'.s = count
      BY <2>5, <2>6, <2>7, <2>9
    <3>2. QED
      BY Zenon, <2>8, <3>1
  <2>11. ExactShift(done'.instr \in {"ASR", "LSR"},
                    IF done'.instr = "ASR" THEN Signed(done'.d) ELSE done'.d, done'.s, done', core')
    BY Zenon, <2>5, <2>9, <2>10
  <2>12. QED
    BY Zenon, <2>11 DEF ShiftIsExact, ExactShift
<1>17. QED
  BY <1>12, <1>14, <1>15, <1>16 DEF Outcome, Turned

\* The counts there are.
LEMMA CountsAreSmall ==
  ASSUME core \in Machines, NEW count \in Counts
  PROVE  count \in Nat /\ count \in 0 .. 2 * LongBits
<1>1. PICK b \in Nat : b = ByteBits /\ b > 0 /\ 2 * LongBits = 8 * b
  <2>1. 2 * (4 * ByteBits) = 8 * ByteBits
    BY BitsAreNumbers
  <2>2. QED
    BY <2>1, BitsAreNumbers
<1>2. CASE count \in Immediates
  <2>1. count \in 1 .. 8
    BY <1>2, CpuAssumption
  <2>2. QED
    BY <1>1, <2>1
<1>3. CASE \E n \in Registers : count = core.d[n] % (2 * LongBits)
  <2>1. PICK n \in Registers : count = core.d[n] % (2 * LongBits)
    BY <1>3
  <2>2. PICK d : d = core.d[n] /\ d \in Int
    BY Parts, LongsAreNumbers DEF Registers
  <2>3. PICK m \in Nat : m = 2 * LongBits /\ m > 0
    BY <1>1
  <2>4. d % m \in Nat /\ d % m < m
    BY <2>2, <2>3, Division
  <2>5. QED
    BY <2>1, <2>2, <2>3, <2>4
<1>4. QED
  BY <1>2, <1>3 DEF Counts

\* What a shift makes is a long word.
LEMMA MovesAreLongs ==
  ASSUME NEW right \in BOOLEAN, NEW v \in Int, NEW count \in 0 .. 2 * LongBits
  PROVE  Moves(right, v, count) \in Longs
<1>1. PICK p : p = Power[count] /\ p \in Nat /\ p > 0
  BY PowerIsPositive
<1>2. v \div p \in Int /\ v * p \in Int
  BY <1>1, Division
<1>3. QED
  BY <1>1, <1>2, Remainders DEF Moves

\* Before the first round.
LEMMA NotYetShifted ==
  ASSUME NEW right \in BOOLEAN, NEW d \in Longs, NEW v, v = IF right THEN Signed(d) ELSE d,
         NEW flags \in Flags, NEW s, s = [result |-> d, flags |-> flags]
  PROVE  v \in Int /\ ShiftedTo(s, right, 0, v, flags)
<1>1. PICK l \in Nat : l = Long /\ l > 0
  BY WordIsEven
<1>2. d \in Nat /\ d < l
  BY <1>1, LongsAreNumbers
<1>3. Power[0] = 1
  BY PowerAt
<1>4. d % l = d
  BY <1>1, SmallRemainder
<1>5. CASE right
  <2>1. v = IF 2 * d < l THEN d ELSE d - l
    BY <1>1, <1>5 DEF Signed, SignedAt
  <2>2. v \in Int /\ 0 - l <= 2 * v /\ 2 * v < l
    BY <1>1, <1>2, <2>1
  <2>3. v \div 1 = v
    BY <2>2
  <2>4. v % l = d
    <3>1. PICK k \in Int : d + l * k = v
      <4>1. d + l * 0 = d /\ d + l * (-1) = d - l
        BY <1>1, <1>2
      <4>2. QED
        BY <2>1, <4>1
    <3>2. (d + l * k) % l = d
      BY <1>1, <1>2, <3>1, Quotient
    <3>3. QED
      BY <3>1, <3>2
  <2>5. QED
    BY <1>1, <1>3, <1>5, <2>2, <2>3, <2>4 DEF ShiftedTo, Moves
<1>6. CASE ~right
  <2>1. v = d /\ v * 1 = d
    BY <1>2, <1>6
  <2>2. QED
    BY <1>1, <1>2, <1>3, <1>4, <1>6, <2>1 DEF ShiftedTo, Moves
<1>7. QED
  BY <1>5, <1>6

\* The shifts made in rounds have the outcome of an instruction.
LEMMA LoopOutcome ==
  ASSUME core \in Machines, ASX
  PROVE  Outcome
<1>1. PICK n \in Registers, count \in Counts, right \in BOOLEAN :
        LET shift == IF right THEN ASR(core.d[n], count, core.ccr) ELSE ASL(core.d[n], count, core.ccr)
        IN Shifted(IF right THEN "ASR" ELSE "ASL", n, count, shift.result, shift.flags)
  BY Zenon DEF ASX
<1>2. PICK shift : shift = IF right THEN ASR(core.d[n], count, core.ccr) ELSE ASL(core.d[n], count, core.ccr)
  OBVIOUS
<1>3. PICK instr : instr = IF right THEN "ASR" ELSE "ASL"
  OBVIOUS
<1>4. Shifted(instr, n, count, shift.result, shift.flags)
  BY <1>1, <1>2, <1>3
<1>5. PICK d, flags : d = core.d[n] /\ flags = core.ccr
  OBVIOUS
<1>6. d \in Longs /\ flags \in Flags
  BY <1>5, Parts DEF Registers
<1>7. count \in Nat /\ count \in 0 .. 2 * LongBits
  BY CountsAreSmall
<1>8. PICK start : start = [result |-> d, flags |-> flags]
  OBVIOUS
<1>9. PICK g : Rounds(g, right, start, count) /\ shift = g[count]
  <2>1. shift = IF right THEN ASR(d, count, flags) ELSE ASL(d, count, flags)
    BY <1>2, <1>5
  <2>2. QED
    BY <1>7, <1>8, <2>1, LoopOfRounds
<1>10. PICK v : v = IF right THEN Signed(d) ELSE d
  OBVIOUS
<1>11. v \in Int /\ ShiftedTo(start, right, 0, v, flags)
  BY <1>6, <1>8, <1>10, NotYetShifted
<1>12. ShiftedTo(shift, right, count, v, flags)
  BY <1>7, <1>9, <1>11, AllRounds
<1>13. Moves(right, v, count) \in Longs
  BY <1>7, <1>11, MovesAreLongs
<1>14. Shifts(right, v, count, shift.result, shift.flags)
  BY <1>5, <1>12, <1>13 DEF Shifts, ShiftedTo
<1>15. (instr \in {"ASR", "LSR"} <=> right) /\ (instr = "ASR" <=> right)
  BY <1>3
<1>16. Shifts(instr \in {"ASR", "LSR"}, IF instr = "ASR" THEN Signed(core.d[n]) ELSE core.d[n],
              count, shift.result, shift.flags)
  <2>1. right = (instr \in {"ASR", "LSR"})
    BY <1>15
  <2>2. v = IF instr = "ASR" THEN Signed(core.d[n]) ELSE core.d[n]
    BY <1>5, <1>10, <1>15
  <2>3. QED
    BY Zenon, <1>14, <2>1, <2>2
<1>17. QED
  BY <1>4, <1>7, <1>16, ShiftedOutcome

\* The result of LSX and its last bit.
ClosedResult(right, value, count) ==
  IF count = 0 THEN value
  ELSE IF count >= LongBits THEN 0
  ELSE IF right THEN value \div Power[count] ELSE (value * Power[count]) % Long

\* The last bit that is shifted out, where a bit is.
ClosedLast(right, value, count) ==
  /\ count <= LongBits
  /\ (IF right THEN count - 1 ELSE LongBits - count) \in BitsOf(value)

\* They are those of a shift in rounds.
LEMMA ClosedForm ==
  ASSUME NEW right \in BOOLEAN, NEW value \in Longs, NEW count \in 0 .. 2 * LongBits,
         NEW result, result = ClosedResult(right, value, count),
         NEW last, last = ClosedLast(right, value, count)
  PROVE  /\ result = Moves(right, value, count)
         /\ last \in BOOLEAN
         /\ count > 0 => (last <=> Out(right, value, count))
<1>1. last \in BOOLEAN
  BY DEF ClosedLast
<1>2. CASE count = 0
  <2>1. Power[0] = 1 /\ value \in Nat
    BY PowerAt, LongsAreNumbers
  <2>2. value \div 1 = value /\ value * 1 = value /\ value % Long = value
    BY <2>1, SmallRemainder
  <2>3. Moves(right, value, count) = value
    BY <1>2, <2>1, <2>2 DEF Moves
  <2>4. result = value /\ ~(count > 0)
    BY <1>2 DEF ClosedResult
  <2>5. QED
    BY <1>1, <2>3, <2>4
<1>3. CASE count # 0
  <2>1. count \in 1 .. 2 * LongBits
    BY <1>3, BitsAreNumbers
  <2>2. CASE right = TRUE
    <3>1. result = IF count >= LongBits THEN 0 ELSE value \div Power[count]
      BY <1>3, <2>2 DEF ClosedResult
    <3>2. last = (count <= LongBits /\ count - 1 \in BitsOf(value))
      BY <2>2 DEF ClosedLast
    <3>3. /\ (IF count >= LongBits THEN 0 ELSE value \div Power[count]) = Moves(TRUE, value, count)
          /\ count <= LongBits /\ count - 1 \in BitsOf(value) <=> Out(TRUE, value, count)
      BY <2>1, RightInOneGo
    <3>4. QED
      BY Zenon, <1>1, <2>2, <3>1, <3>2, <3>3
  <2>3. CASE right = FALSE
    <3>1. result = IF count >= LongBits THEN 0 ELSE (value * Power[count]) % Long
      BY <1>3, <2>3 DEF ClosedResult
    <3>2. last = (count <= LongBits /\ LongBits - count \in BitsOf(value))
      BY <2>3 DEF ClosedLast
    <3>3. /\ (IF count >= LongBits THEN 0 ELSE (value * Power[count]) % Long) = Moves(FALSE, value, count)
          /\ count <= LongBits /\ LongBits - count \in BitsOf(value) <=> Out(FALSE, value, count)
      BY <2>1, LeftInOneGo
    <3>4. QED
      BY Zenon, <1>1, <2>3, <3>1, <3>2, <3>3
  <2>4. QED
    BY <2>2, <2>3
<1>4. QED
  BY <1>2, <1>3

\* The shifts made in one go have the outcome of an instruction.
LEMMA ClosedFormOutcome ==
  ASSUME core \in Machines, LSX
  PROVE  Outcome
<1>1. PICK n \in Registers, count \in Counts, right \in BOOLEAN :
        LET value == core.d[n]
            result == IF count = 0 THEN value
                      ELSE IF count >= LongBits THEN 0
                      ELSE IF right THEN value \div Power[count] ELSE (value * Power[count]) % Long
            last == /\ count <= LongBits
                    /\ (IF right THEN count - 1 ELSE LongBits - count) \in BitsOf(value)
        IN Shifted(IF right THEN "LSR" ELSE "LSL", n, count, result,
                   IF count = 0 THEN [core.ccr EXCEPT !.c = FALSE]
                                ELSE [core.ccr EXCEPT !.c = last, !.x = last])
  BY Zenon DEF LSX
<1>2. PICK value : value = core.d[n] /\ value \in Longs
  BY Parts DEF Registers
<1>3. PICK result, last : result = ClosedResult(right, value, count) /\ last = ClosedLast(right, value, count)
  OBVIOUS
<1>4. count \in Nat /\ count \in 0 .. 2 * LongBits
  BY CountsAreSmall
<1>5. PICK instr : instr = IF right THEN "LSR" ELSE "LSL"
  OBVIOUS
<1>6. PICK flags : flags = IF count = 0 THEN [core.ccr EXCEPT !.c = FALSE]
                                        ELSE [core.ccr EXCEPT !.c = last, !.x = last]
  OBVIOUS
<1>7. Shifted(instr, n, count, result, flags)
  BY Zenon, <1>1, <1>2, <1>3, <1>5, <1>6 DEF ClosedResult, ClosedLast
<1>8. /\ result = Moves(right, value, count)
      /\ last \in BOOLEAN
      /\ count > 0 => (last <=> Out(right, value, count))
  BY <1>2, <1>3, <1>4, ClosedForm
<1>9. /\ flags \in Flags
      /\ count = 0 => flags.x = core.ccr.x
      /\ count > 0 => flags.x = last /\ flags.c = last
  <2>1. PICK f : f = core.ccr /\ f \in Flags
    BY Parts
  <2>2. [f EXCEPT !.c = FALSE] \in Flags /\ [f EXCEPT !.c = FALSE].x = f.x
    BY <2>1 DEF Flags
  <2>3. PICK h : h = [f EXCEPT !.c = last, !.x = last]
    OBVIOUS
  <2>4. h \in Flags /\ h.x = last /\ h.c = last
    BY ZenonT(30), <1>8, <2>1, <2>3, CarryReplaced
  <2>5. CASE count = 0
    BY <1>4, <1>6, <2>1, <2>2, <2>5
  <2>6. CASE count # 0
    BY <1>4, <1>6, <2>1, <2>3, <2>4, <2>6
  <2>7. QED
    BY <2>5, <2>6
<1>10. Moves(right, value, count) \in Longs
  <2>1. value \in Int
    BY <1>2, LongsAreNumbers
  <2>2. QED
    BY <1>4, <2>1, MovesAreLongs
<1>11. Shifts(right, value, count, result, flags)
  BY <1>8, <1>9, <1>10 DEF Shifts
<1>12. (instr \in {"ASR", "LSR"} <=> right) /\ instr # "ASR"
  BY <1>5
<1>13. Shifts(instr \in {"ASR", "LSR"}, IF instr = "ASR" THEN Signed(core.d[n]) ELSE core.d[n],
              count, result, flags)
  <2>1. right = (instr \in {"ASR", "LSR"})
    BY <1>12
  <2>2. value = IF instr = "ASR" THEN Signed(core.d[n]) ELSE core.d[n]
    BY <1>2, <1>12
  <2>3. QED
    BY Zenon, <1>11, <2>1, <2>2
<1>14. QED
  BY <1>4, <1>7, <1>13, ShiftedOutcome

-----------------------------------------------------------------------------
(* Any instruction *)

\* Every instruction has the outcome of an instruction.
LEMMA InstructionOutcome ==
  ASSUME core \in Machines, Instruction
  PROVE  Outcome
<1>1. CASE ADD \/ ADDI \/ ADDX \/ SUB \/ SUBI \/ SUBX \/ NEG \/ NEGX
  BY <1>1, SumOutcome
<1>2. CASE ADDA \/ SUBA \/ LEA \/ ADDQ \/ SUBQ
  BY <1>2, AddressOutcome
<1>3. CASE CMP \/ CMPA \/ CMPI \/ CMP_B \/ CMP_W \/ TST
  BY <1>3, ComparisonOutcome
<1>4. CASE AND \/ OR \/ EOR \/ ANDI \/ ORI \/ EORI \/ NOT
  BY <1>4, BitwiseOutcome
<1>5. CASE BTST
  BY <1>5, BitOutcome
<1>6. CASE MOVE \/ MOVEQ \/ CLR \/ EXT \/ SWAP
  BY <1>6, MoveOutcome
<1>7. CASE MOVEM
  BY <1>7, MoveBlockOutcome
<1>8. CASE ASX
  BY <1>8, LoopOutcome
<1>9. CASE LSX
  BY <1>9, ClosedFormOutcome
<1>10. CASE MUL_W \/ MULU_L
  BY <1>10, ProductOutcome
<1>11. CASE DIV
  BY <1>11, QuotientOutcome
<1>12. CASE SCC
  BY <1>12, SetOutcome
<1>13. CASE BCC \/ BCC_isa_b \/ JMP \/ NOP \/ TRAPF \/ Refused
  BY <1>13, JumpOutcome
<1>14. QED
  BY <1>1, <1>2, <1>3, <1>4, <1>5, <1>6, <1>7, <1>8, <1>9, <1>10, <1>11, <1>12, <1>13 DEF Instruction

\* The sum, difference or negation that an instruction is a digit of.
Kind(as) == IF as \in {"ADD", "ADDX"} THEN "ADD" ELSE IF as \in {"SUB", "SUBX"} THEN "SUB" ELSE "NEG"

\* The numbers it is a total of: what it starts from,
Left(x) == IF Kind(x.as) = "NEG" THEN 0 ELSE x.d

\* and what it adds or deducts.
Right(x) == IF Kind(x.as) = "NEG" THEN x.d ELSE x.s

\* The digit r of a total of l and s, with the carry c of the digits before it,
\* and the flags g it leaves when all of those are zero or not.
MakesDigit(op, l, s, r, c, zero, g) ==
  \E j \in Int :
    /\ Total(op, l, s) + (IF op = "ADD" THEN c ELSE 0 - c) = r + Long * j
    /\ g.x <=> j # 0
    /\ g.c <=> j # 0
    /\ g.n <=> Negative(r)
    /\ g.z <=> r = 0 /\ zero
    /\ g.v <=> j - Total(op, One(Negative(l)), One(Negative(s))) # 0 - One(Negative(r))

\* What SR_Set makes of the digit of an addition, of a subtraction, of a negation.
LEMMA AddMakesDigit ==
  ASSUME NEW as \in Adding, NEW s \in Longs, NEW d \in Longs, NEW c \in {0, 1}, NEW r,
         r = (s + d + c) % Long, NEW f \in Flags, NEW g, g = SR_Set(as, s, d, r, f)
  PROVE  r \in Longs /\ MakesDigit("ADD", d, s, r, c, as \in Extended => f.z, g)
<1>1. r \in Longs
  BY AddDigit
<1>2. PICK j \in Int :
        /\ (d + s) + c = r + Long * j
        /\ j # 0 <=> AddCarry(Negative(s), Negative(d), Negative(r))
        /\ AddOverflow(Negative(s), Negative(d), Negative(r)) <=> j - One(Negative(d)) - One(Negative(s)) # 0 - One(Negative(r))
  BY AddDigit
<1>3. /\ g.x <=> AddCarry(Negative(s), Negative(d), Negative(r))
      /\ g.c <=> AddCarry(Negative(s), Negative(d), Negative(r))
      /\ g.v <=> AddOverflow(Negative(s), Negative(d), Negative(r))
      /\ g.n <=> Negative(r)
      /\ g.z <=> r = 0 /\ (as \in Extended => f.z)
  BY Zenon DEF SR_Set, Carry, Overflow, Adding, Subtracting, Negating
<1>4. Total("ADD", d, s) = d + s /\ Total("ADD", One(Negative(d)), One(Negative(s))) = One(Negative(d)) + One(Negative(s))
  BY DEF Total
<1>5. j - (One(Negative(d)) + One(Negative(s))) = j - One(Negative(d)) - One(Negative(s))
  BY DEF One
<1>6. QED
  BY <1>1, <1>2, <1>3, <1>4, <1>5 DEF MakesDigit

\* The instructions that deduct.
Deducting == {"SUB", "SUBX"}

\* A difference is a digit,
LEMMA SubMakesDigit ==
  ASSUME NEW as \in Deducting, NEW s \in Longs, NEW d \in Longs, NEW c \in {0, 1}, NEW r,
         r = (d - s - c) % Long, NEW f \in Flags, NEW g, g = SR_Set(as, s, d, r, f)
  PROVE  r \in Longs /\ MakesDigit("SUB", d, s, r, c, as \in Extended => f.z, g)
<1>1. r \in Longs
  BY SubDigit
<1>2. PICK j \in Int :
        /\ (d - s) + (0 - c) = r + Long * j
        /\ j # 0 <=> SubBorrow(Negative(s), Negative(d), Negative(r))
        /\ SubOverflow(Negative(s), Negative(d), Negative(r)) <=> j - One(Negative(d)) + One(Negative(s)) # 0 - One(Negative(r))
  BY SubDigit
<1>3. /\ g.x <=> SubBorrow(Negative(s), Negative(d), Negative(r))
      /\ g.c <=> SubBorrow(Negative(s), Negative(d), Negative(r))
      /\ g.v <=> SubOverflow(Negative(s), Negative(d), Negative(r))
      /\ g.n <=> Negative(r)
      /\ g.z <=> r = 0 /\ (as \in Extended => f.z)
  BY DEF SR_Set, Carry, Overflow, Adding, Subtracting, Negating, Deducting
<1>4. Total("SUB", d, s) = d - s /\ Total("SUB", One(Negative(d)), One(Negative(s))) = One(Negative(d)) - One(Negative(s))
  BY DEF Total
<1>5. j - (One(Negative(d)) - One(Negative(s))) = j - One(Negative(d)) + One(Negative(s))
  BY DEF One
<1>6. QED
  BY <1>1, <1>2, <1>3, <1>4, <1>5 DEF MakesDigit

\* and so is a negation.
LEMMA NegMakesDigit ==
  ASSUME NEW as \in Negating, NEW s, NEW d \in Longs, NEW c \in {0, 1}, NEW r,
         r = (0 - d - c) % Long, NEW f \in Flags, NEW g, g = SR_Set(as, s, d, r, f)
  PROVE  r \in Longs /\ MakesDigit("NEG", 0, d, r, c, as \in Extended => f.z, g)
<1>1. r \in Longs /\ NegatedTo(d, c, r)
  BY NegDigit
<1>2. PICK j \in Int :
        /\ (0 - d) + (0 - c) = r + Long * j
        /\ j # 0 <=> NegCarry(Negative(d), Negative(r))
        /\ NegOverflow(Negative(d), Negative(r)) <=> j + One(Negative(d)) # 0 - One(Negative(r))
  BY <1>1 DEF NegatedTo
<1>3. /\ g.x <=> NegCarry(Negative(d), Negative(r))
      /\ g.c <=> NegCarry(Negative(d), Negative(r))
      /\ g.v <=> NegOverflow(Negative(d), Negative(r))
      /\ g.n <=> Negative(r)
      /\ g.z <=> r = 0 /\ (as \in Extended => f.z)
  BY DEF SR_Set, Carry, Overflow, Adding, Subtracting, Negating, NegCarry, NegOverflow
<1>4. One(Negative(0)) = 0
  BY WordIsEven DEF One, Negative
<1>5. Total("NEG", 0, d) = 0 - d /\ Total("NEG", One(Negative(0)), One(Negative(d))) = 0 - One(Negative(d))
  BY <1>4 DEF Total
<1>6. j - (0 - One(Negative(d))) = j + One(Negative(d))
  BY DEF One
<1>7. QED
  BY <1>1, <1>2, <1>3, <1>5, <1>6 DEF MakesDigit

\* What is computed, instruction by instruction.
LEMMA Results ==
  ASSUME NEW s, NEW d, NEW c
  PROVE  /\ Result("ADD", s, d, c) = s + d
         /\ Result("ADDX", s, d, c) = s + d + c
         /\ Result("SUB", s, d, c) = d - s
         /\ Result("SUBX", s, d, c) = d - s - c
         /\ Result("NEG", s, d, c) = 0 - d
         /\ Result("NEGX", s, d, c) = 0 - d - c
BY DEF Result

\* An addition, subtraction or negation makes the digit of its kind.
LEMMA SumMakesDigit ==
  ASSUME core \in Machines, Summed
  PROVE  /\ Left(done') \in Longs /\ Right(done') \in Longs /\ done'.r \in Longs
         /\ MakesDigit(Kind(done'.as), Left(done'), Right(done'), done'.r,
                       IF done'.as \in Extended THEN One(core.ccr.x) ELSE 0,
                       done'.as \in Extended => core.ccr.z, core'.ccr)
<1>1. PICK as, s, d, r : as = done'.as /\ s = done'.s /\ d = done'.d /\ r = done'.r
  OBVIOUS
<1>2. PICK f, g : f = core.ccr /\ g = core'.ccr
  OBVIOUS
<1>3. PICK c : c = IF as \in Extended THEN One(f.x) ELSE 0
  OBVIOUS
<1>4. f \in Flags /\ s \in Longs /\ d \in Longs /\ as \in Sums /\ g = SR_Set(as, s, d, r, f)
  BY <1>1, <1>2, Parts DEF Summed
<1>5. c \in {0, 1}
  BY <1>3 DEF One
<1>6. r = Result(as, s, d, One(f.x)) % Long
  BY <1>1, <1>2 DEF Summed
<1>7. 0 \in Longs /\ s \in Nat /\ d \in Nat
  BY <1>4, SmallNumbers, LongsAreNumbers
<1>8. MakesDigit(Kind(as), Left(done'), Right(done'), r, c, as \in Extended => f.z, g) /\ r \in Longs
  <2>1. CASE as \in Adding
    <3>1. r = (s + d + c) % Long
      <4>1. CASE as = "ADD"
        <5>1. c = 0 /\ s + d + 0 = s + d
          BY <1>3, <1>7, <4>1 DEF Extended
        <5>2. QED
          BY <1>6, <4>1, <5>1, Results
      <4>2. CASE as = "ADDX"
        <5>1. c = One(f.x)
          BY <1>3, <4>2 DEF Extended
        <5>2. QED
          BY <1>6, <4>2, <5>1, Results
      <4>3. QED
        BY <2>1, <4>1, <4>2 DEF Adding
    <3>2. Kind(as) = "ADD" /\ Left(done') = d /\ Right(done') = s
      BY <1>1, <2>1 DEF Kind, Left, Right, Adding
    <3>3. r \in Longs /\ MakesDigit("ADD", d, s, r, c, as \in Extended => f.z, g)
      BY <1>4, <1>5, <2>1, <3>1, AddMakesDigit
    <3>4. QED
      BY <3>2, <3>3
  <2>2. CASE as \in Deducting
    <3>1. r = (d - s - c) % Long
      <4>1. CASE as = "SUB"
        <5>1. c = 0 /\ d - s - 0 = d - s
          BY <1>3, <1>7, <4>1 DEF Extended
        <5>2. QED
          BY <1>6, <4>1, <5>1, Results
      <4>2. CASE as = "SUBX"
        <5>1. c = One(f.x)
          BY <1>3, <4>2 DEF Extended
        <5>2. QED
          BY <1>6, <4>2, <5>1, Results
      <4>3. QED
        BY <2>2, <4>1, <4>2 DEF Deducting
    <3>2. Kind(as) = "SUB" /\ Left(done') = d /\ Right(done') = s
      BY <1>1, <2>2 DEF Kind, Left, Right, Deducting
    <3>3. r \in Longs /\ MakesDigit("SUB", d, s, r, c, as \in Extended => f.z, g)
      BY <1>4, <1>5, <2>2, <3>1, SubMakesDigit
    <3>4. QED
      BY <3>2, <3>3
  <2>3. CASE as \in Negating
    <3>1. r = (0 - d - c) % Long
      <4>1. CASE as = "NEG"
        <5>1. c = 0 /\ 0 - d - 0 = 0 - d
          BY <1>3, <1>7, <4>1 DEF Extended
        <5>2. QED
          BY <1>6, <4>1, <5>1, Results
      <4>2. CASE as = "NEGX"
        <5>1. c = One(f.x)
          BY <1>3, <4>2 DEF Extended
        <5>2. QED
          BY <1>6, <4>2, <5>1, Results
      <4>3. QED
        BY <2>3, <4>1, <4>2 DEF Negating
    <3>2. Kind(as) = "NEG" /\ Left(done') = 0 /\ Right(done') = d
      BY <1>1, <2>3 DEF Kind, Left, Right, Negating
    <3>3. r \in Longs /\ MakesDigit("NEG", 0, d, r, c, as \in Extended => f.z, g)
      BY <1>4, <1>5, <2>3, <3>1, NegMakesDigit
    <3>4. QED
      BY <3>2, <3>3
  <2>4. as \in Adding \cup Deducting \cup Negating
    BY <1>4 DEF Sums, Extended, Adding, Deducting, Negating
  <2>5. QED
    BY <2>1, <2>2, <2>3, <2>4
<1>9. Left(done') \in Longs /\ Right(done') \in Longs
  BY <1>1, <1>4, <1>7 DEF Left, Right
<1>10. QED
  BY <1>1, <1>2, <1>3, <1>8, <1>9

\* A number that is the exact sum or difference of two numbers of so many digits,
\* and flags that say of it what flags say of one digit.
IsExactNumber(n, f) ==
  /\ n \in [op : {"ADD", "SUB", "NEG"}, lhs : Nat, rhs : Nat, value : Nat, weight : Nat]
  /\ n.weight > 0 /\ n.lhs < n.weight /\ n.rhs < n.weight
  /\ Exact(n.op, n.weight, n.lhs, n.rhs, n.value, f)

\* A digit more.
LEMMA DigitMore ==
  ASSUME NEW op, NEW m \in Nat, m > 0, NEW lhs \in Nat, lhs < m, NEW rhs \in Nat, rhs < m,
         NEW value, NEW f \in Flags, Exact(op, m, lhs, rhs, value, f),
         NEW l \in Longs, NEW s \in Longs, NEW r \in Longs, NEW g,
         MakesDigit(op, l, s, r, One(f.x), f.z, g),
         NEW n, n = m * Long, NEW left, left = lhs + m * l, NEW right, right = rhs + m * s,
         NEW y, y = value + m * r
  PROVE  /\ n \in Nat /\ n > 0 /\ left \in Nat /\ left < n /\ right \in Nat /\ right < n
         /\ Exact(op, n, left, right, y, g)
<1>1. PICK j \in Int :
        /\ Total(op, l, s) + (IF op = "ADD" THEN One(f.x) ELSE 0 - One(f.x)) = r + Long * j
        /\ g.x <=> j # 0
        /\ g.c <=> j # 0
        /\ g.n <=> Negative(r)
        /\ g.z <=> r = 0 /\ f.z
        /\ g.v <=> j - Total(op, One(Negative(l)), One(Negative(s))) # 0 - One(Negative(r))
  BY DEF MakesDigit
<1>2. Total(op, l, s) + CarriedOut(op, f) = r + Long * j
  BY <1>1 DEF CarriedOut
<1>3. QED
  BY <1>1, <1>2, NextDigit

\* The first digit of a number.
LEMMA DigitBegins ==
  ASSUME NEW op \in {"ADD", "SUB", "NEG"}, NEW l \in Longs, NEW s \in Longs, NEW r \in Longs, NEW g,
         MakesDigit(op, l, s, r, 0, TRUE, g)
  PROVE  IsExactNumber([op |-> op, lhs |-> l, rhs |-> s, value |-> r, weight |-> Long], g)
<1>1. PICK f : f = [x |-> FALSE, n |-> FALSE, z |-> TRUE, v |-> FALSE, c |-> FALSE]
  OBVIOUS
<1>2. f \in Flags /\ ~f.x /\ ~f.c /\ ~f.n /\ ~f.v /\ f.z
  BY <1>1 DEF Flags
<1>3. Exact(op, 1, 0, 0, 0, f)
  BY <1>2, EmptyIsExact
<1>4. MakesDigit(op, l, s, r, One(f.x), f.z, g)
  <2>1. One(f.x) = 0 /\ f.z = TRUE
    BY <1>1 DEF One
  <2>2. QED
    BY <2>1
<1>5. l \in Nat /\ s \in Nat /\ r \in Nat /\ Long \in Nat
  BY LongsAreNumbers, WordIsEven
<1>6. PICK m, zero : m = 1 /\ zero = 0
  OBVIOUS
<1>7. m \in Nat /\ m > 0 /\ zero \in Nat /\ zero < m
  BY <1>6
<1>8. PICK w, left, right, y : w = m * Long /\ left = zero + m * l /\ right = zero + m * s /\ y = zero + m * r
  OBVIOUS
<1>9. Exact(op, m, zero, zero, zero, f)
  BY <1>3, <1>6
<1>10. w > 0 /\ left < w /\ right < w /\ Exact(op, w, left, right, y, g)
  BY ZenonT(30), <1>2, <1>4, <1>7, <1>8, <1>9, DigitMore
<1>11. w = Long /\ left = l /\ right = s /\ y = r
  BY <1>5, <1>6, <1>8
<1>12. QED
  BY <1>5, <1>10, <1>11 DEF IsExactNumber

\* A number whose fields are replaced.
LEMMA NumberReplaced ==
  ASSUME NEW n \in [op : {"ADD", "SUB", "NEG"}, lhs : Nat, rhs : Nat, value : Nat, weight : Nat],
         NEW w \in Nat, NEW x \in Nat, NEW y \in Nat, NEW z \in Nat,
         NEW o, o = [n EXCEPT !.lhs = w, !.rhs = x, !.value = y, !.weight = z]
  PROVE  /\ o \in [op : {"ADD", "SUB", "NEG"}, lhs : Nat, rhs : Nat, value : Nat, weight : Nat]
         /\ o.op = n.op /\ o.lhs = w /\ o.rhs = x /\ o.value = y /\ o.weight = z
OBVIOUS

\* The next one.
LEMMA DigitContinues ==
  ASSUME NEW n, NEW f \in Flags, IsExactNumber(n, f),
         NEW l \in Longs, NEW s \in Longs, NEW r \in Longs, NEW g,
         MakesDigit(n.op, l, s, r, One(f.x), f.z, g)
  PROVE  IsExactNumber([n EXCEPT !.lhs = @ + n.weight * l, !.rhs = @ + n.weight * s,
                                 !.value = @ + n.weight * r, !.weight = @ * Long], g)
<1>1. PICK op, m, lhs, rhs, value :
        op = n.op /\ m = n.weight /\ lhs = n.lhs /\ rhs = n.rhs /\ value = n.value
  OBVIOUS
<1>2. /\ m \in Nat /\ m > 0 /\ lhs \in Nat /\ lhs < m /\ rhs \in Nat /\ rhs < m /\ value \in Nat
      /\ op \in {"ADD", "SUB", "NEG"}
      /\ Exact(op, m, lhs, rhs, value, f)
      /\ n \in [op : {"ADD", "SUB", "NEG"}, lhs : Nat, rhs : Nat, value : Nat, weight : Nat]
  BY <1>1 DEF IsExactNumber
<1>3. PICK w, left, right, y :
        w = m * Long /\ left = lhs + m * l /\ right = rhs + m * s /\ y = value + m * r
  OBVIOUS
<1>4. MakesDigit(op, l, s, r, One(f.x), f.z, g)
  BY <1>1
<1>5. /\ w \in Nat /\ w > 0 /\ left \in Nat /\ left < w /\ right \in Nat /\ right < w
      /\ Exact(op, w, left, right, y, g)
  BY <1>2, <1>3, <1>4, DigitMore
<1>6. y \in Nat
  <2>1. r \in Nat /\ m * r \in Nat
    BY <1>2, LongsAreNumbers
  <2>2. QED
    BY <1>2, <1>3, <2>1
<1>7. PICK o : o = [n EXCEPT !.lhs = left, !.rhs = right, !.value = y, !.weight = w]
  OBVIOUS
<1>8. o = [n EXCEPT !.lhs = @ + n.weight * l, !.rhs = @ + n.weight * s,
                    !.value = @ + n.weight * r, !.weight = @ * Long]
  <2>1. /\ n.lhs + n.weight * l = left /\ n.rhs + n.weight * s = right
        /\ n.value + n.weight * r = y /\ n.weight * Long = w
    BY Zenon, <1>1, <1>3
  <2>2. QED
    BY Zenon, <1>7, <2>1
<1>9. IsExactNumber(o, g)
  <2>1. /\ o \in [op : {"ADD", "SUB", "NEG"}, lhs : Nat, rhs : Nat, value : Nat, weight : Nat]
        /\ o.op = n.op /\ o.lhs = left /\ o.rhs = right /\ o.value = y /\ o.weight = w
    BY <1>2, <1>5, <1>6, <1>7, NumberReplaced
  <2>2. QED
    BY <1>1, <1>5, <2>1 DEF IsExactNumber
<1>10. QED
  BY Zenon, <1>8, <1>9

-----------------------------------------------------------------------------
(* The invariant *)

\* Before the first instruction nothing is remembered.
NothingYet == steps = 0 => compared = None /\ number = None

\* A number that a chain of instructions has formed is exact, and the flags say
\* of it what ADDX, SUBX and NEGX need to carry it on.
NumberIsExact == number # None => IsExactNumber(number, core.ccr)

\* The flags order the numbers that were compared last.
FlagsOrder ==
  compared # None => compared \in [d : Longs, s : Longs] /\ Compares(core.ccr, compared.d, compared.s)

\* What an instruction leaves for the next one, and what it did itself.
IInv ==
  /\ TypeOK
  /\ NothingYet
  /\ NumberIsExact
  /\ FlagsOrder
  /\ FlagsDescribeDestination
  /\ ConditionFollowsComparison
  /\ ShiftIsExact
  /\ BlockMoveAgrees

\* What the instructions that a program goes on with are taken for.
LEMMA Followers ==
  /\ ADDX => done'.as = "ADDX"
  /\ SUBX => done'.as = "SUBX"
  /\ NEGX => done'.as = "NEGX"
  /\ SCC => done'.as = "condition"
  /\ BCC => done'.as = "condition"
<1>1. \A instr, as, p, result : Arithmetic(instr, as, p, result) => done'.as = as
  <2>1. SUFFICES ASSUME NEW instr, NEW as, NEW p, NEW result, Arithmetic(instr, as, p, result)
                 PROVE  done'.as = as
    OBVIOUS
  <2>2. done' = Did(instr, as, p, result)
    BY <2>1 DEF Arithmetic
  <2>3. QED
    BY <2>2 DEF Did
<1>2. ADDX => done'.as = "ADDX"
  BY <1>1 DEF ADDX
<1>3. SUBX => done'.as = "SUBX"
  BY <1>1 DEF SUBX
<1>4. NEGX => done'.as = "NEGX"
  BY <1>1 DEF NEGX
<1>5. SCC => done'.as = "condition"
  <2>1. SUFFICES ASSUME SCC PROVE done'.as = "condition"
    OBVIOUS
  <2>2. PICK n, condition, set : done' = [instr |-> "SCC", as |-> "condition", at |-> Register(n, 1),
                                          condition |-> condition, taken |-> set]
    BY <2>1 DEF SCC
  <2>3. QED
    BY <2>2
<1>6. BCC => done'.as = "condition"
  <2>1. SUFFICES ASSUME BCC PROVE done'.as = "condition"
    OBVIOUS
  <2>2. PICK condition, taken : done' = [instr |-> "BCC", as |-> "condition", condition |-> condition, taken |-> taken]
    BY <2>1 DEF BCC, Branch
  <2>3. QED
    BY <2>2
<1>7. QED
  BY <1>2, <1>3, <1>4, <1>5, <1>6

\* The number that a sum begins or carries on is exact.
LEMMA NumberStep ==
  ASSUME core \in Machines, core' \in Machines, Summed, NumberIsExact,
         done'.as \in Extended /\ number # None => number.op = Kind(done'.as), Remember
  PROVE  NumberIsExact'
<1>1. core.ccr \in Flags /\ core'.ccr \in Flags
  BY Parts
<1>2. PICK l, s, r, g : l = Left(done') /\ s = Right(done') /\ r = done'.r /\ g = core'.ccr
  OBVIOUS
<1>3. /\ l \in Longs /\ s \in Longs /\ r \in Longs
      /\ MakesDigit(Kind(done'.as), l, s, r, IF done'.as \in Extended THEN One(core.ccr.x) ELSE 0,
                    done'.as \in Extended => core.ccr.z, g)
  BY <1>2, SumMakesDigit
<1>4. CASE done'.as \in {"ADD", "SUB", "NEG"}
  <2>1. done'.as \notin Extended /\ Kind(done'.as) = done'.as /\ done'.as \in {"ADD", "SUB", "NEG"}
    BY <1>4 DEF Extended, Kind
  <2>2. MakesDigit(done'.as, l, s, r, 0, TRUE, g)
    <3>1. (IF done'.as \in Extended THEN One(core.ccr.x) ELSE 0) = 0
      BY <2>1
    <3>2. (done'.as \in Extended => core.ccr.z) = TRUE
      BY <2>1
    <3>3. QED
      BY <1>3, <2>1, <3>1, <3>2
  <2>3. PICK op : op = done'.as
    OBVIOUS
  <2>4. IsExactNumber([op |-> op, lhs |-> l, rhs |-> s, value |-> r, weight |-> Long], g)
    BY <1>3, <2>1, <2>2, <2>3, DigitBegins
  <2>5. Begun(done') = [op |-> op, lhs |-> l, rhs |-> s, value |-> r, weight |-> Long]
    <3>1. op = "NEG" <=> Kind(done'.as) = "NEG"
      BY <2>1, <2>3
    <3>2. l = (IF op = "NEG" THEN 0 ELSE done'.d) /\ s = (IF op = "NEG" THEN done'.d ELSE done'.s)
      BY <1>2, <3>1 DEF Left, Right
    <3>3. QED
      BY Zenon, <1>2, <2>3, <3>2 DEF Begun
  <2>6. number' = Begun(done')
    <3>1. PICK b, c : b = Begun(done') /\ c = Continued(number, done')
      OBVIOUS
    <3>2. number' = CASE done'.as \in {"ADD", "SUB", "NEG"} -> b
                      [] done'.as \in Extended /\ number # None -> c
                      [] OTHER -> None
      BY Zenon, <3>1 DEF Remember
    <3>3. QED
      BY <1>4, <2>1, <3>1, <3>2
  <2>7. QED
    BY <1>2, <2>4, <2>5, <2>6 DEF NumberIsExact
<1>5. CASE done'.as \in Extended /\ number # None
  <2>1. IsExactNumber(number, core.ccr) /\ number.op = Kind(done'.as)
    BY <1>5 DEF NumberIsExact
  <2>2. MakesDigit(number.op, l, s, r, One(core.ccr.x), core.ccr.z, g)
    <3>1. (IF done'.as \in Extended THEN One(core.ccr.x) ELSE 0) = One(core.ccr.x)
      BY <1>5
    <3>2. (done'.as \in Extended => core.ccr.z) = core.ccr.z
      BY <1>1, <1>5 DEF Flags
    <3>3. QED
      BY <1>3, <2>1, <3>1, <3>2
  <2>3. PICK o : o = [number EXCEPT !.lhs = @ + number.weight * l, !.rhs = @ + number.weight * s,
                                    !.value = @ + number.weight * r, !.weight = @ * Long]
    OBVIOUS
  <2>4. IsExactNumber(o, g)
    <3>1. PICK f : f = core.ccr
      OBVIOUS
    <3>2. f \in Flags /\ IsExactNumber(number, f) /\ MakesDigit(number.op, l, s, r, One(f.x), f.z, g)
      BY <1>1, <2>1, <2>2, <3>1
    <3>3. IsExactNumber([number EXCEPT !.lhs = @ + number.weight * l, !.rhs = @ + number.weight * s,
                                    !.value = @ + number.weight * r, !.weight = @ * Long], g)
      BY <1>3, <3>2, DigitContinues
    <3>4. QED
      BY <2>3, <3>3
  <2>5. Continued(number, done') = o
    <3>1. PICK x : x = [done' EXCEPT !.as = number.op]
      OBVIOUS
    <3>2. x.as = number.op /\ x.d = done'.d /\ x.s = done'.s /\ x.r = done'.r
      BY <3>1
    <3>3. PICK digit : digit = Begun(x)
      OBVIOUS
    <3>4. digit.lhs = l /\ digit.rhs = s /\ digit.value = r
      <4>1. digit = [op |-> x.as, lhs |-> IF x.as = "NEG" THEN 0 ELSE x.d,
                     rhs |-> IF x.as = "NEG" THEN x.d ELSE x.s, value |-> x.r, weight |-> Long]
        BY <3>3 DEF Begun
      <4>2. QED
        BY <1>2, <2>1, <3>2, <4>1 DEF Left, Right
    <3>5. Continued(number, done')
            = [number EXCEPT !.lhs = @ + number.weight * digit.lhs, !.rhs = @ + number.weight * digit.rhs,
                             !.value = @ + number.weight * digit.value, !.weight = @ * Long]
      BY Zenon, <3>1, <3>3 DEF Continued
    <3>6. QED
      BY Zenon, <2>3, <3>4, <3>5
  <2>6. number' = Continued(number, done')
    <3>1. PICK b, c : b = Begun(done') /\ c = Continued(number, done')
      OBVIOUS
    <3>2. number' = CASE done'.as \in {"ADD", "SUB", "NEG"} -> b
                      [] done'.as \in Extended /\ number # None -> c
                      [] OTHER -> None
      BY Zenon, <3>1 DEF Remember
    <3>3. done'.as \notin {"ADD", "SUB", "NEG"}
      BY <1>5 DEF Extended
    <3>4. QED
      BY <1>5, <3>1, <3>2, <3>3
  <2>7. QED
    BY <1>2, <2>4, <2>5, <2>6 DEF NumberIsExact
<1>6. CASE done'.as \notin {"ADD", "SUB", "NEG"} /\ ~(done'.as \in Extended /\ number # None)
  <2>1. PICK b, c : b = Begun(done') /\ c = Continued(number, done')
    OBVIOUS
  <2>2. number' = CASE done'.as \in {"ADD", "SUB", "NEG"} -> b
                    [] done'.as \in Extended /\ number # None -> c
                    [] OTHER -> None
    BY Zenon, <2>1 DEF Remember
  <2>3. number' = None
    BY <1>6, <2>2
  <2>4. None' = None
    BY DEF None
  <2>5. QED
    BY <2>3, <2>4 DEF NumberIsExact
<1>7. QED
  BY <1>4, <1>5, <1>6

\* The flags that an instruction leaves order the numbers it is remembered for.
LEMMA OrderStep ==
  ASSUME core \in Machines, core' \in Machines, FlagsOrder, Outcome, Remember
  PROVE  FlagsOrder'
<1>1. PICK g : g = core'.ccr /\ g \in Flags
  BY Parts
<1>2. PICK a, b, c : a = [d |-> done'.d, s |-> done'.s] /\ b = [d |-> 0, s |-> done'.d] /\ c = [d |-> done'.r, s |-> 0]
  OBVIOUS
<1>3. compared' = CASE done'.as \in {"SUB", "CMP"} -> a
                    [] done'.as = "NEG" -> b
                    [] done'.as = "logical" -> c
                    [] done'.as \in {"address", "condition", "pc", "load", "store"} -> compared
                    [] OTHER -> None
  BY Zenon, <1>2 DEF Remember
<1>4. None' = None /\ 0 \in Longs
  BY SmallNumbers DEF None
<1>5. SUFFICES ASSUME compared' # None
               PROVE  compared' \in [d : Longs, s : Longs] /\ Compares(g, compared'.d, compared'.s)
  BY <1>1, <1>4 DEF FlagsOrder
<1>6. CASE done'.as = "SUB"
  <2>1. PICK s, d, r : s = done'.s /\ d = done'.d /\ r = done'.r
    OBVIOUS
  <2>2. /\ s \in Longs /\ d \in Longs /\ r = (d - s) % Long
        /\ g = SR_Set("SUB", s, d, r, core.ccr)
    <3>1. Summed
      BY <1>6 DEF Outcome, Ordered, Described, Kept, Moved, Turned
    <3>2. s \in Longs /\ d \in Longs /\ r = Result("SUB", s, d, One(core.ccr.x)) % Long
      BY <1>6, <2>1, <3>1 DEF Summed
    <3>3. g = SR_Set("SUB", s, d, r, core.ccr)
      BY <1>1, <1>6, <2>1, <3>1 DEF Summed
    <3>4. QED
      BY <3>2, <3>3, Results
  <2>3. /\ r = 0 <=> d = s
        /\ SubBorrow(Negative(s), Negative(d), Negative(r)) <=> d < s
        /\ ~(SubOverflow(Negative(s), Negative(d), Negative(r)) <=> Negative(r)) <=> Signed(d) < Signed(s)
    BY SMTT(30), <2>2, Difference
  <2>4. Compares(g, d, s)
    BY <2>2, <2>3, FlagsCompare
  <2>5. compared' = a
    BY <1>3, <1>6
  <2>6. QED
    BY <1>2, <2>1, <2>2, <2>4, <2>5
<1>7. CASE done'.as = "CMP"
  <2>1. Ordered
    BY <1>7 DEF Outcome, Summed, Sums, Extended, Described, Kept, Moved, Turned
  <2>2. compared' = a
    BY <1>3, <1>7
  <2>3. QED
    BY <1>1, <1>2, <2>1, <2>2 DEF Ordered
<1>8. CASE done'.as = "NEG"
  <2>1. PICK s, d, r : s = done'.s /\ d = done'.d /\ r = done'.r
    OBVIOUS
  <2>2. s \in Longs /\ d \in Longs /\ r = (0 - d) % Long /\ g = SR_Set("NEG", s, d, r, core.ccr)
    <3>1. Summed
      BY <1>8 DEF Outcome, Ordered, Described, Kept, Moved, Turned
    <3>2. s \in Longs /\ d \in Longs /\ r = Result("NEG", s, d, One(core.ccr.x)) % Long
      BY <1>8, <2>1, <3>1 DEF Summed
    <3>3. g = SR_Set("NEG", s, d, r, core.ccr)
      BY <1>1, <1>8, <2>1, <3>1 DEF Summed
    <3>4. QED
      BY <3>2, <3>3, Results
  <2>3. /\ r = 0 <=> 0 = d
        /\ Negative(d) \/ Negative(r) <=> 0 < d
        /\ ~(Negative(d) /\ Negative(r) <=> Negative(r)) <=> Signed(0) < Signed(d)
    BY <2>2, Negation
  <2>4. /\ g.z <=> r = 0
        /\ g.c <=> Negative(d) \/ Negative(r)
        /\ g.v <=> Negative(d) /\ Negative(r)
        /\ g.n <=> Negative(r)
    BY <2>2 DEF SR_Set, Carry, Overflow, Adding, Subtracting, Negating, Extended
  <2>5. Compares(g, 0, d)
    BY <2>3, <2>4 DEF Compares
  <2>6. compared' = b
    BY <1>3, <1>8
  <2>7. QED
    BY <1>2, <1>4, <2>1, <2>2, <2>5, <2>6
<1>9. CASE done'.as = "logical"
  <2>1. PICK r, f : r = done'.r /\ f = done'.flags
    OBVIOUS
  <2>2. r \in Longs /\ f \in Flags /\ g = Logical(r, f)
    <3>1. Described
      BY <1>9 DEF Outcome, Summed, Sums, Extended, Ordered, Kept, Moved, Turned
    <3>2. QED
      BY <1>1, <2>1, <3>1 DEF Described
  <2>3. LogicalFlags(r, f)
    BY <2>2, FlagsAreMade
  <2>4. (g.n <=> Negative(r)) /\ (g.z <=> r = 0) /\ ~g.v /\ ~g.c
    BY <2>2, <2>3 DEF LogicalFlags
  <2>5. Signed(0) = 0 /\ (Negative(r) <=> Signed(r) < 0) /\ ~(r < 0)
    BY <2>2, SignOfLong
  <2>6. Compares(g, r, 0)
    BY <2>4, <2>5 DEF Compares
  <2>7. compared' = c
    BY <1>3, <1>9
  <2>8. QED
    BY <1>2, <1>4, <2>1, <2>2, <2>6, <2>7
<1>10. CASE done'.as \in {"address", "condition", "pc", "load", "store"}
  <2>1. Kept \/ Moved
    BY <1>10 DEF Outcome, Summed, Sums, Extended, Ordered, Described, Turned
  <2>2. g = core.ccr
    BY <1>1, <2>1 DEF Kept, Moved
  <2>3. compared' = compared
    BY <1>3, <1>10
  <2>4. QED
    BY <1>5, <2>2, <2>3 DEF FlagsOrder
<1>11. CASE done'.as \notin {"SUB", "CMP", "NEG", "logical", "address", "condition", "pc", "load", "store"}
  <2>1. compared' = None
    BY <1>3, <1>11
  <2>2. QED
    BY <1>5, <2>1
<1>12. QED
  BY <1>6, <1>7, <1>8, <1>9, <1>10, <1>11

\* A condition is evaluated from flags that order the numbers compared last.
LEMMA ConditionStep ==
  ASSUME core \in Machines, core' \in Machines, FlagsOrder, Outcome, Remember
  PROVE  ConditionFollowsComparison'
<1>1. SUFFICES ASSUME done'.as = "condition", compared' # None, done'.condition \in Relations,
                      ~(done'.instr = "SCC" /\ done'.condition = "HI")
               PROVE  done'.taken <=> Relation(done'.condition, compared'.d, compared'.s)
  <2>1. None' = None
    BY DEF None
  <2>2. QED
    BY <2>1 DEF ConditionFollowsComparison
<1>2. Kept
  BY <1>1 DEF Outcome, Summed, Sums, Extended, Ordered, Described, Moved, Turned
<1>3. compared' = compared
  <2>1. PICK a, b, c : a = [d |-> done'.d, s |-> done'.s] /\ b = [d |-> 0, s |-> done'.d] /\ c = [d |-> done'.r, s |-> 0]
    OBVIOUS
  <2>2. compared' = CASE done'.as \in {"SUB", "CMP"} -> a
                      [] done'.as = "NEG" -> b
                      [] done'.as = "logical" -> c
                      [] done'.as \in {"address", "condition", "pc", "load", "store"} -> compared
                      [] OTHER -> None
    BY Zenon, <2>1 DEF Remember
  <2>3. QED
    BY <1>1, <2>2
<1>4. PICK f, d, s, condition : f = core.ccr /\ d = compared.d /\ s = compared.s /\ condition = done'.condition
  OBVIOUS
<1>5. f \in Flags /\ d \in Longs /\ s \in Longs /\ Compares(f, d, s) /\ condition \in Relations
  BY <1>1, <1>3, <1>4, Parts DEF FlagsOrder
<1>6. /\ BranchTaken(condition, f) <=> Relation(condition, d, s)
      /\ condition # "HI" => (SetTaken(condition, f) <=> Relation(condition, d, s))
  BY <1>5, ConditionsCompare
<1>7. condition \in Conditions
  BY <1>5 DEF Relations
<1>8. \/ done'.taken <=> BranchTaken(condition, f)
      \/ done'.instr = "SCC" /\ (done'.taken <=> SetTaken(condition, f))
  BY <1>1, <1>2, <1>4, <1>7 DEF Kept
<1>9. QED
  BY <1>1, <1>3, <1>4, <1>6, <1>8

\* What a step is: an instruction that is remembered, and if it is an extended
\* one behind another, one of the same kind.
LEMMA StepOutcome ==
  ASSUME IInv, Next
  PROVE  /\ Outcome /\ Remember
         /\ done'.as \in Extended /\ number # None => number.op = Kind(done'.as)
         /\ steps' \in 1 .. MaxSteps
<1>1. core \in Machines
  BY DEF IInv, TypeOK
<1>2. Instruction
  BY DEF Next, Instruction
<1>3. Outcome
  BY <1>1, <1>2, InstructionOutcome
<1>4. Remember
  BY DEF Next
<1>5. done'.as \in Extended /\ number # None => number.op = Kind(done'.as)
  <2>1. SUFFICES ASSUME done'.as \in Extended, number # None PROVE number.op = Kind(done'.as)
    OBVIOUS
  <2>2. steps # 0
    BY <2>1 DEF IInv, NothingYet
  <2>3. \/ number.op = "ADD" /\ ADDX
        \/ number.op = "SUB" /\ SUBX
        \/ number.op = "NEG" /\ NEGX
        \/ SCC \/ BCC
    BY Zenon, <2>2 DEF Next
  <2>4. "condition" \notin Extended
    BY DEF Extended
  <2>5. Kind("ADDX") = "ADD" /\ Kind("SUBX") = "SUB" /\ Kind("NEGX") = "NEG"
    BY DEF Kind
  <2>6. QED
    BY Zenon, <2>1, <2>3, <2>4, <2>5, Followers
<1>6. steps' \in 1 .. MaxSteps
  <2>1. steps < MaxSteps /\ steps' = steps + 1
    BY Zenon DEF Next, Remember
  <2>2. steps \in 0 .. MaxSteps /\ MaxSteps \in Nat
    BY CpuAssumption DEF IInv, TypeOK
  <2>3. QED
    BY <2>1, <2>2
<1>7. QED
  BY <1>3, <1>4, <1>5, <1>6

\* The invariant is inductive.
LEMMA InitHolds ==
  ASSUME Init
  PROVE  IInv
<1>1. core \in Machines
  BY CpuAssumption DEF Init
<1>2. steps = 0 /\ compared = None /\ number = None /\ done.as = "none"
  BY DEF Init
<1>3. TypeOK
  BY <1>1, <1>2, CpuAssumption DEF TypeOK
<1>4. NothingYet /\ NumberIsExact /\ FlagsOrder
  BY <1>2 DEF NothingYet, NumberIsExact, FlagsOrder
<1>5. FlagsDescribeDestination /\ ShiftIsExact /\ BlockMoveAgrees
  BY <1>2 DEF FlagsDescribeDestination, ShiftIsExact, BlockMoveAgrees
<1>6. ConditionFollowsComparison
  BY <1>2 DEF ConditionFollowsComparison
<1>7. QED
  BY <1>3, <1>4, <1>5, <1>6 DEF IInv

\* Every step preserves the inductive invariant: what it remembers is what the
\* outcome of its instruction says.
LEMMA NextPreserves ==
  ASSUME IInv, Next
  PROVE  IInv'
<1>1. core \in Machines /\ NumberIsExact /\ FlagsOrder
  BY DEF IInv, TypeOK
<1>2. /\ Outcome /\ Remember
      /\ done'.as \in Extended /\ number # None => number.op = Kind(done'.as)
      /\ steps' \in 1 .. MaxSteps
  BY StepOutcome
<1>3. core' \in Machines
  BY <1>2 DEF Outcome
<1>4. FlagsOrder'
  BY <1>1, <1>2, <1>3, OrderStep
<1>5. TypeOK'
  <2>1. None' = None
    BY DEF None
  <2>2. compared' = None \/ compared' \in [d : Longs, s : Longs]
    BY <1>4, <2>1 DEF FlagsOrder
  <2>3. steps' \in 0 .. MaxSteps
    BY <1>2
  <2>4. QED
    BY <1>3, <2>1, <2>2, <2>3 DEF TypeOK
<1>6. NothingYet'
  BY <1>2 DEF NothingYet
<1>7. NumberIsExact'
  <2>1. CASE Summed
    BY <1>1, <1>2, <1>3, <2>1, NumberStep
  <2>2. CASE ~Summed
    <3>1. done'.as \notin {"ADD", "SUB", "NEG"} /\ done'.as \notin Extended
      BY <1>2, <2>2 DEF Outcome, Ordered, Described, Kept, Moved, Turned, Extended
    <3>2. PICK b, c : b = Begun(done') /\ c = Continued(number, done')
      OBVIOUS
    <3>3. number' = CASE done'.as \in {"ADD", "SUB", "NEG"} -> b
                      [] done'.as \in Extended /\ number # None -> c
                      [] OTHER -> None
      BY Zenon, <1>2, <3>2 DEF Remember
    <3>4. number' = None /\ None' = None
      BY <3>1, <3>3 DEF None
    <3>5. QED
      BY <3>4 DEF NumberIsExact
  <2>3. QED
    BY <2>1, <2>2
<1>8. FlagsDescribeDestination'
  <2>1. SUFFICES ASSUME done'.as = "logical", done'.at.mode \in Writable
                 PROVE  core'.ccr = Logical(EA_GetValue(core', done'.at), done'.flags)
    BY DEF FlagsDescribeDestination
  <2>2. Described
    BY <1>2, <2>1 DEF Outcome, Summed, Sums, Extended, Ordered, Kept, Moved, Turned
  <2>3. QED
    BY <2>1, <2>2 DEF Described
<1>9. ConditionFollowsComparison'
  BY <1>1, <1>2, <1>3, ConditionStep
<1>10. ShiftIsExact'
  <2>1. CASE done'.as = "shift"
    BY <1>2, <2>1 DEF Outcome, Summed, Sums, Extended, Ordered, Described, Kept, Moved, Turned
  <2>2. CASE done'.as # "shift"
    BY <2>2 DEF ShiftIsExact
  <2>3. QED
    BY <2>1, <2>2
<1>11. BlockMoveAgrees'
  <2>1. CASE done'.as \in {"load", "store"}
    BY <1>2, <2>1 DEF Outcome, Summed, Sums, Extended, Ordered, Described, Kept, Moved, Turned
  <2>2. CASE done'.as \notin {"load", "store"}
    BY <2>2 DEF BlockMoveAgrees
  <2>3. QED
    BY <2>1, <2>2
<1>12. QED
  BY <1>4, <1>5, <1>6, <1>7, <1>8, <1>9, <1>10, <1>11 DEF IInv

\* A step that changes nothing preserves it.
LEMMA StutterPreserves ==
  ASSUME IInv, UNCHANGED vars
  PROVE  IInv'
BY DEF IInv, vars, TypeOK, NothingYet, NumberIsExact, FlagsOrder, FlagsDescribeDestination,
       ConditionFollowsComparison, ShiftIsExact, BlockMoveAgrees

\* The invariant holds in every state of every program.
THEOREM InvariantHolds == Spec => []IInv
<1>1. Init => IInv
  BY InitHolds
<1>2. IInv /\ [Next]_vars => IInv'
  BY NextPreserves, StutterPreserves
<1>3. QED
  BY <1>1, <1>2, PTL DEF Spec

-----------------------------------------------------------------------------
(* Theorems *)

\* Registers, memory, pc and flags hold numbers of their widths.
THEOREM TypeCorrect == Spec => []TypeOK
<1>1. IInv => TypeOK
  BY DEF IInv
<1>2. QED
  BY <1>1, InvariantHolds, PTL

\* Flags that are known one by one.
LEMMA FlagsAreThese ==
  ASSUME NEW f \in Flags, NEW carry \in BOOLEAN, NEW n \in BOOLEAN, NEW z \in BOOLEAN, NEW v \in BOOLEAN,
         f.x <=> carry, f.c <=> carry, f.n <=> n, f.z <=> z, f.v <=> v
  PROVE  f = [x |-> carry, c |-> carry, n |-> n, z |-> z, v |-> v]
BY DEF Flags

\* A sum, difference or negation carried on through X is exact, digit by digit,
\* and so are its flags: for every number of digits.
THEOREM MultiwordHolds == Spec => []MultiwordIsExact
<1>1. IInv => MultiwordIsExact
  <2>1. SUFFICES ASSUME IInv, number # None
                 PROVE  LET n == number
                            sum == IF n.op = "ADD" THEN n.lhs + n.rhs ELSE n.lhs - n.rhs
                            l == SignedAt(n.lhs, n.weight)
                            r == SignedAt(n.rhs, n.weight)
                            exact == IF n.op = "ADD" THEN l + r ELSE l - r
                        IN /\ n.value = sum % n.weight
                           /\ core.ccr = [x |-> sum \notin 0 .. n.weight - 1,
                                          c |-> sum \notin 0 .. n.weight - 1,
                                          n |-> 2 * n.value >= n.weight,
                                          z |-> n.value = 0,
                                          v |-> SignedAt(n.value, n.weight) # exact]
    BY Zenon DEF MultiwordIsExact
  <2>2. PICK f : f = core.ccr /\ f \in Flags
    BY <2>1, Parts DEF IInv, TypeOK
  <2>3. PICK op, w, lhs, rhs, value :
          op = number.op /\ w = number.weight /\ lhs = number.lhs /\ rhs = number.rhs /\ value = number.value
    OBVIOUS
  <2>4. Exact(op, w, lhs, rhs, value, f)
    BY <2>1, <2>2, <2>3 DEF IInv, NumberIsExact, IsExactNumber
  <2> DEFINE sum == IF op = "ADD" THEN lhs + rhs ELSE lhs - rhs
             l == SignedAt(lhs, w)
             r == SignedAt(rhs, w)
             exact == IF op = "ADD" THEN l + r ELSE l - r
             carry == sum \notin 0 .. w - 1
             neg == 2 * value >= w
             zero == value = 0
             over == SignedAt(value, w) # exact
  <2>5. value = sum % w /\ (f.x <=> carry) /\ (f.c <=> carry) /\ (f.n <=> neg) /\ (f.z <=> zero) /\ (f.v <=> over)
    BY Zenon, <2>4 DEF Exact, Total
  <2>6. carry \in BOOLEAN /\ neg \in BOOLEAN /\ zero \in BOOLEAN /\ over \in BOOLEAN
    OBVIOUS
  <2>7. f = [x |-> carry, c |-> carry, n |-> neg, z |-> zero, v |-> over]
    <3> HIDE DEF carry, neg, zero, over
    <3>1. QED
      BY <2>2, <2>5, <2>6, FlagsAreThese
  <2>8. value = sum % w /\ core.ccr = [x |-> carry, c |-> carry, n |-> neg, z |-> zero, v |-> over]
    BY <2>2, <2>5, <2>7
  <2>9. QED
    BY Zenon, <2>3, <2>8
<1>2. QED
  BY <1>1, InvariantHolds, PTL

\* A condition says how the two numbers compared last are ordered.
THEOREM ConditionsHold == Spec => []ConditionFollowsComparison
<1>1. IInv => ConditionFollowsComparison
  BY DEF IInv
<1>2. QED
  BY <1>1, InvariantHolds, PTL

\* N and Z describe the destination as it is read back at its size.
THEOREM FlagsHold == Spec => []FlagsDescribeDestination
<1>1. IInv => FlagsDescribeDestination
  BY DEF IInv
<1>2. QED
  BY <1>1, InvariantHolds, PTL

\* A shift in rounds and a shift in one go are products and quotients by powers
\* of two, and C is the last bit that leaves.
THEOREM ShiftsAreExact == Spec => []ShiftIsExact
<1>1. IInv => ShiftIsExact
  BY DEF IInv
<1>2. QED
  BY <1>1, InvariantHolds, PTL

\* A block move leaves registers and memory equal.
THEOREM BlockMovesAgree == Spec => []BlockMoveAgrees
<1>1. IInv => BlockMoveAgrees
  BY DEF IInv
<1>2. QED
  BY <1>1, InvariantHolds, PTL

\* An instruction changes nothing but its destination.
THEOREM DestinationOnly == Spec => OnlyDestinationChanges
<1>1. IInv /\ [Next]_vars => [OnlyDestination]_vars
  <2>1. SUFFICES ASSUME IInv, Next PROVE OnlyDestination
    BY DEF vars
  <2>2. Outcome
    BY <2>1, StepOutcome
  <2>3. QED
    BY <2>2 DEF Outcome
<1>2. QED
  BY <1>1, InvariantHolds, PTL DEF Spec, OnlyDestinationChanges
=============================================================================
