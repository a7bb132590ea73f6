--------------------------- MODULE ConditionCodes ---------------------------
(***************************************************************************)
(* Numbers of the ColdFire and the condition codes (handlers.c, the        *)
(* condition tables of isa_a/i_bcc.c and isa_a/i_scc.c).                   *)
(*                                                                         *)
(* A byte takes Byte values, 2^8 in the program; a word and a long word    *)
(* are two and four bytes.  A long word is a natural number below Long, as *)
(* the u32 of the program, and Signed reads it as the s32.                 *)
(***************************************************************************)
EXTENDS Integers

CONSTANT Byte

ASSUME ByteAssumption == Byte \in Nat /\ \E half \in 1 .. Byte : Byte = 2 * half

Word == Byte * Byte
Long == Word * Word

Longs == 0 .. Long - 1

Values(size) == CASE size = 1 -> Byte [] size = 2 -> Word [] size = 4 -> Long

\* The number a value of so many values stands for in two's complement.
SignedAt(v, values) == IF 2 * v < values THEN v ELSE v - values

Signed(v) == SignedAt(v, Long)

Negative(v) == 2 * v >= Long

\* The cast (char) or (s16), and the widening that follows it.
SignExtend(v, size) == SignedAt(v % Values(size), Values(size)) % Long

Flags == [x : BOOLEAN, n : BOOLEAN, z : BOOLEAN, v : BOOLEAN, c : BOOLEAN]

\* What every instruction but arithmetic leaves: the sign and the zero of its
\* result, no overflow, no carry, X as it was.
Logical(result, flags) ==
  [flags EXCEPT !.n = Negative(result), !.z = (result = 0), !.v = FALSE, !.c = FALSE]

-----------------------------------------------------------------------------
(* SR_Set, from the signs of the source, the destination and the result *)

AddOverflow(S, D, R) == (S /\ D /\ ~R) \/ (~S /\ ~D /\ R)
AddCarry(S, D, R) == (S /\ D) \/ (~R /\ D) \/ (S /\ ~R)
SubOverflow(S, D, R) == (~S /\ D /\ ~R) \/ (S /\ ~D /\ R)
SubBorrow(S, D, R) == (S /\ ~D) \/ (R /\ ~D) \/ (S /\ R)

Adding == {"ADD", "ADDX"}
Subtracting == {"SUB", "SUBX", "CMP"}
Negating == {"NEG", "NEGX"}
Extended == {"ADDX", "SUBX", "NEGX"}

Overflow(instr, S, D, R) ==
  \/ instr \in Adding /\ AddOverflow(S, D, R)
  \/ instr \in Subtracting /\ SubOverflow(S, D, R)
  \/ instr \in Negating /\ D /\ R

Carry(instr, S, D, R) ==
  \/ instr \in Adding /\ AddCarry(S, D, R)
  \/ instr \in Subtracting /\ SubBorrow(S, D, R)
  \/ instr \in Negating /\ (D \/ R)

\* A mutant: the zero flag is set by a zero result of ADDX, SUBX and NEGX too.
SR_Set_zero(instr, source, destination, result, flags) ==
  LET S == Negative(source)
      D == Negative(destination)
      R == Negative(result)
      carry == Carry(instr, S, D, R)
  IN [x |-> IF instr = "CMP" THEN flags.x ELSE carry,
      n |-> R,
      z |-> result = 0,
      v |-> Overflow(instr, S, D, R),
      c |-> carry]

\* X follows the carry, but for a comparison, which leaves it.  The extended
\* instructions clear Z or leave it.
SR_Set(instr, source, destination, result, flags) ==
  LET S == Negative(source)
      D == Negative(destination)
      R == Negative(result)
      carry == Carry(instr, S, D, R)
  IN [x |-> IF instr = "CMP" THEN flags.x ELSE carry,
      n |-> R,
      z |-> result = 0 /\ (instr \in Extended => flags.z),
      v |-> Overflow(instr, S, D, R),
      c |-> carry]

-----------------------------------------------------------------------------
(* The conditions of a branch, 2 to 15 *)

Conditions == {"HI", "LS", "CC", "CS", "NE", "EQ", "VC", "VS",
               "PL", "MI", "GE", "LT", "GT", "LE"}

\* A mutant: GT forgets that equal is not greater.
BranchTaken_gt(condition, f) ==
  CASE condition = "HI" -> ~f.c /\ ~f.z
    [] condition = "LS" -> f.c \/ f.z
    [] condition = "CC" -> ~f.c
    [] condition = "CS" -> f.c
    [] condition = "NE" -> ~f.z
    [] condition = "EQ" -> f.z
    [] condition = "VC" -> ~f.v
    [] condition = "VS" -> f.v
    [] condition = "PL" -> ~f.n
    [] condition = "MI" -> f.n
    [] condition = "GE" -> (f.n /\ f.v) \/ (~f.n /\ ~f.v)
    [] condition = "LT" -> (f.n /\ ~f.v) \/ (~f.n /\ f.v)
    [] condition = "GT" -> (f.n /\ f.v) \/ (~f.n /\ ~f.v)
    [] condition = "LE" -> f.z \/ (f.n /\ ~f.v) \/ (~f.n /\ f.v)

BranchTaken(condition, f) ==
  CASE condition = "HI" -> ~f.c /\ ~f.z
    [] condition = "LS" -> f.c \/ f.z
    [] condition = "CC" -> ~f.c
    [] condition = "CS" -> f.c
    [] condition = "NE" -> ~f.z
    [] condition = "EQ" -> f.z
    [] condition = "VC" -> ~f.v
    [] condition = "VS" -> f.v
    [] condition = "PL" -> ~f.n
    [] condition = "MI" -> f.n
    [] condition = "GE" -> (f.n /\ f.v) \/ (~f.n /\ ~f.v)
    [] condition = "LT" -> (f.n /\ ~f.v) \/ (~f.n /\ f.v)
    [] condition = "GT" -> (f.n /\ f.v /\ ~f.z) \/ (~f.n /\ ~f.v /\ ~f.z)
    [] condition = "LE" -> f.z \/ (f.n /\ ~f.v) \/ (~f.n /\ f.v)

\* Scc has the conditions of Bcc but for HI, which is C or not Z.
SetTaken(condition, f) ==
  IF condition = "HI" THEN f.c \/ ~f.z ELSE BranchTaken(condition, f)

\* What a condition says of a comparison of d with s, both long words.
Relation(condition, d, s) ==
  CASE condition = "HI" -> d > s
    [] condition = "LS" -> d <= s
    [] condition = "CC" -> d >= s
    [] condition = "CS" -> d < s
    [] condition = "NE" -> d # s
    [] condition = "EQ" -> d = s
    [] condition = "GE" -> Signed(d) >= Signed(s)
    [] condition = "LT" -> Signed(d) < Signed(s)
    [] condition = "GT" -> Signed(d) > Signed(s)
    [] condition = "LE" -> Signed(d) <= Signed(s)

Relations == Conditions \ {"VC", "VS", "PL", "MI"}
=============================================================================
