--------------------------- MODULE DecoderProofs ---------------------------
(***************************************************************************)
(* Proofs about Decoder: every word, on every processor, has one handler,  *)
(* and it is that of the most specific pattern.                            *)
(***************************************************************************)
EXTENDS Decoder, FiniteSetTheorems, SequenceTheorems, WellFoundedInduction, TLAPS

\* The numbers of sixteen bits.
Masks == {n \in Nat : n <= 65535}

-----------------------------------------------------------------------------
(* Numbers and their bits. *)

\* Masks are numbers.
LEMMA MasksAreNumbers == \A n \in Masks : n \in Nat /\ n <= 65535
BY DEF Masks

\* Two numbers are ordered as their halves, and the odd bit decides.
LEMMA LastBit ==
  ASSUME NEW p \in Nat, NEW q \in Nat, p \div 2 <= q \div 2, p % 2 = 1 => q % 2 = 1
  PROVE  p <= q
OBVIOUS

\* The powers of two below the sixteenth.
Powers == {1, 2, 4, 8, 16, 32, 64, 128, 256, 512, 1024, 2048, 4096, 8192, 16384, 32768}

\* What is above a bit is half of what is above the bit before it.
LEMMA Halved ==
  ASSUME NEW d \in Powers, NEW n \in Nat
  PROVE  (n \div d) \div 2 = n \div (2 * d) /\ n \div d \in Nat
BY DEF Powers

\* The bit of weight d, and the order of what is above the bits below it.
Bit(n, d) == (n \div d) % 2 = 1
Weight(k) == 2 ^ k
Ordered(m, n, d) == m \div d <= n \div d

\* The members of Bits are the bits.
LEMMA BitOrder ==
  ASSUME NEW m, NEW n, Bits(m) \subseteq Bits(n), NEW k \in 0 .. 15
  PROVE  Bit(m, Weight(k)) => Bit(n, Weight(k))
BY DEF Bits, Bit, Weight

\* Two numbers are ordered down to a bit when they are ordered above it.
LEMMA OrderedDown ==
  ASSUME NEW m \in Nat, NEW n \in Nat, NEW d \in Powers, NEW e, e = 2 * d,
         Bit(m, d) => Bit(n, d), Ordered(m, n, e)
  PROVE  Ordered(m, n, d)
<1>1. PICK p, q : p = m \div d /\ q = n \div d
  OBVIOUS
<1>2. p \in Nat /\ q \in Nat /\ p \div 2 = m \div e /\ q \div 2 = n \div e
  BY <1>1, Halved
<1>3. p \div 2 <= q \div 2
  BY <1>2 DEF Ordered
<1>4. p % 2 = 1 => q % 2 = 1
  BY <1>1 DEF Bit
<1>5. p <= q
  BY <1>2, <1>3, <1>4, LastBit
<1>6. QED
  BY <1>1, <1>5 DEF Ordered

\* Nothing is above the sixteen bits.
LEMMA NothingAbove == \A n \in Masks : n \div 65536 = 0
BY DEF Masks

\* A number whose bits are among those of another is not the greater one.
LEMMA BitsOrder ==
  ASSUME NEW m \in Masks, NEW n \in Masks, Bits(m) \subseteq Bits(n)
  PROVE  m <= n
<1>1. m \in Nat /\ n \in Nat
  BY MasksAreNumbers
<1>2. ASSUME NEW k \in 0 .. 15, NEW d \in Powers, d = Weight(k), Ordered(m, n, 2 * d)
      PROVE  Ordered(m, n, d)
  <2>1. Bit(m, d) => Bit(n, d)
    BY <1>2, BitOrder
  <2>2. PICK e : e = 2 * d
    OBVIOUS
  <2>3. QED
    BY <1>1, <1>2, <2>1, <2>2, OrderedDown
<1>3. Ordered(m, n, 65536)
  BY NothingAbove DEF Ordered
<1>4. Ordered(m, n, 32768)
  <2>1. 32768 \in Powers /\ 32768 = Weight(15) /\ 2 * 32768 = 65536 /\ 15 \in 0 .. 15
    BY DEF Powers, Weight
  <2>2. QED
    BY <1>2, <1>3, <2>1
<1>5. Ordered(m, n, 16384)
  <2>1. 16384 \in Powers /\ 16384 = Weight(14) /\ 2 * 16384 = 32768 /\ 14 \in 0 .. 15
    BY DEF Powers, Weight
  <2>2. QED
    BY <1>2, <1>4, <2>1
<1>6. Ordered(m, n, 8192)
  <2>1. 8192 \in Powers /\ 8192 = Weight(13) /\ 2 * 8192 = 16384 /\ 13 \in 0 .. 15
    BY DEF Powers, Weight
  <2>2. QED
    BY <1>2, <1>5, <2>1
<1>7. Ordered(m, n, 4096)
  <2>1. 4096 \in Powers /\ 4096 = Weight(12) /\ 2 * 4096 = 8192 /\ 12 \in 0 .. 15
    BY DEF Powers, Weight
  <2>2. QED
    BY <1>2, <1>6, <2>1
<1>8. Ordered(m, n, 2048)
  <2>1. 2048 \in Powers /\ 2048 = Weight(11) /\ 2 * 2048 = 4096 /\ 11 \in 0 .. 15
    BY DEF Powers, Weight
  <2>2. QED
    BY <1>2, <1>7, <2>1
<1>9. Ordered(m, n, 1024)
  <2>1. 1024 \in Powers /\ 1024 = Weight(10) /\ 2 * 1024 = 2048 /\ 10 \in 0 .. 15
    BY DEF Powers, Weight
  <2>2. QED
    BY <1>2, <1>8, <2>1
<1>10. Ordered(m, n, 512)
  <2>1. 512 \in Powers /\ 512 = Weight(9) /\ 2 * 512 = 1024 /\ 9 \in 0 .. 15
    BY DEF Powers, Weight
  <2>2. QED
    BY <1>2, <1>9, <2>1
<1>11. Ordered(m, n, 256)
  <2>1. 256 \in Powers /\ 256 = Weight(8) /\ 2 * 256 = 512 /\ 8 \in 0 .. 15
    BY DEF Powers, Weight
  <2>2. QED
    BY <1>2, <1>10, <2>1
<1>12. Ordered(m, n, 128)
  <2>1. 128 \in Powers /\ 128 = Weight(7) /\ 2 * 128 = 256 /\ 7 \in 0 .. 15
    BY DEF Powers, Weight
  <2>2. QED
    BY <1>2, <1>11, <2>1
<1>13. Ordered(m, n, 64)
  <2>1. 64 \in Powers /\ 64 = Weight(6) /\ 2 * 64 = 128 /\ 6 \in 0 .. 15
    BY DEF Powers, Weight
  <2>2. QED
    BY <1>2, <1>12, <2>1
<1>14. Ordered(m, n, 32)
  <2>1. 32 \in Powers /\ 32 = Weight(5) /\ 2 * 32 = 64 /\ 5 \in 0 .. 15
    BY DEF Powers, Weight
  <2>2. QED
    BY <1>2, <1>13, <2>1
<1>15. Ordered(m, n, 16)
  <2>1. 16 \in Powers /\ 16 = Weight(4) /\ 2 * 16 = 32 /\ 4 \in 0 .. 15
    BY DEF Powers, Weight
  <2>2. QED
    BY <1>2, <1>14, <2>1
<1>16. Ordered(m, n, 8)
  <2>1. 8 \in Powers /\ 8 = Weight(3) /\ 2 * 8 = 16 /\ 3 \in 0 .. 15
    BY DEF Powers, Weight
  <2>2. QED
    BY <1>2, <1>15, <2>1
<1>17. Ordered(m, n, 4)
  <2>1. 4 \in Powers /\ 4 = Weight(2) /\ 2 * 4 = 8 /\ 2 \in 0 .. 15
    BY DEF Powers, Weight
  <2>2. QED
    BY <1>2, <1>16, <2>1
<1>18. Ordered(m, n, 2)
  <2>1. 2 \in Powers /\ 2 = Weight(1) /\ 2 * 2 = 4 /\ 1 \in 0 .. 15
    BY DEF Powers, Weight
  <2>2. QED
    BY <1>2, <1>17, <2>1
<1>19. Ordered(m, n, 1)
  <2>1. 1 \in Powers /\ 1 = Weight(0) /\ 2 * 1 = 2 /\ 0 \in 0 .. 15
    BY DEF Powers, Weight
  <2>2. QED
    BY <1>2, <1>18, <2>1
<1>20. QED
  BY <1>1, <1>19 DEF Ordered

\* Different numbers have different bits.
LEMMA BitsAreUnique ==
  ASSUME NEW m \in Masks, NEW n \in Masks, Bits(m) = Bits(n)
  PROVE  m = n
BY BitsOrder, MasksAreNumbers

\* The number with these bits.
Code(bits) == CHOOSE n \in Masks : Bits(n) = bits

\* It is the one the bits were taken of.
LEMMA CodeOfBits == \A n \in Masks : Code(Bits(n)) = n
BY BitsAreUnique DEF Code

-----------------------------------------------------------------------------
(* The patterns of a processor. *)

\* What all processors register ...
Common ==
  add_5206_register \cup adda_5206_register \cup addi_5206_register \cup addq_5206_register \cup
  addx_5206_register \cup and_5206_register \cup andi_5206_register \cup asx_5206_register \cup
  btst_5206_register \cup clr_5206_register \cup cmp_5206_register \cup cmpa_5206_register \cup
  cmpi_5206_register \cup dc_5206_register \cup eor_5206_register \cup eori_5206_register \cup
  ext_5206_register \cup halt_5206_register \cup illegal_5206_register \cup jmp_5206_register \cup
  jsr_5206_register \cup lea_5206_register \cup link_5206_register \cup lsx_5206_register \cup
  move_5206_register \cup movec_5206_register \cup movem_5206_register \cup moveq_5206_register \cup
  movexr_5206_register \cup mulu_l_5206_register \cup mul_w_5206_register \cup
  neg_5206_register \cup negx_5206_register \cup nop_5206_register \cup not_5206_register \cup
  or_5206_register \cup ori_5206_register \cup pea_5206_register \cup rte_5206_register \cup
  rts_5206_register \cup scc_5206_register \cup stop_5206_register \cup sub_5206_register \cup
  suba_5206_register \cup subi_5206_register \cup subq_5206_register \cup subx_5206_register \cup
  swap_5206_register \cup trap_5206_register \cup trapf_5206_register \cup tst_5206_register \cup
  unlk_5206_register

\* ... and what the processor c registers.
Table(c) ==
  Common \cup (IF c < CF_5307 THEN bcc_5206_register ELSE {})
         \cup (IF c >= CF_5206e THEN div_5206e_register ELSE {})
         \cup (IF c >= CF_5307 THEN bcc_isa_b_register \cup cmp_isa_b_register ELSE {})

\* The handlers with the codes and masks of their patterns, as numbers.
CommonRows ==
  {
   <<"add", 53248, 61440>>, <<"adda", 53696, 61888>>, <<"addi", 1664, 65528>>,
   <<"addq", 20608, 61888>>, <<"addx", 53632, 61944>>, <<"and", 49152, 61440>>,
   <<"andi", 640, 65528>>, <<"asx", 57472, 61656>>, <<"btst", 256, 61696>>, <<"btst", 2048, 65280>>,
   <<"clr", 16896, 65280>>, <<"cmp", 45184, 61888>>, <<"cmpa", 45504, 61888>>,
   <<"cmpi", 3200, 65528>>, <<"dc", 0, 0>>, <<"eor", 45440, 61888>>, <<"eori", 2688, 65528>>,
   <<"ext", 18432, 65080>>, <<"halt", 19144, 65535>>, <<"illegal", 19196, 65535>>,
   <<"jmp", 20160, 65472>>, <<"jsr", 20096, 65472>>, <<"lea", 16832, 61888>>,
   <<"link", 20048, 65528>>, <<"lsx", 57480, 61656>>, <<"move", 4096, 61440>>,
   <<"move", 8192, 61440>>, <<"move", 12288, 61440>>, <<"movec", 20091, 65535>>,
   <<"movem", 18624, 64448>>, <<"moveq", 28672, 61696>>, <<"movexr", 16576, 63936>>,
   <<"mulu_l", 19456, 65472>>, <<"mul_w", 49344, 61632>>, <<"neg", 17536, 65528>>,
   <<"negx", 16512, 65528>>, <<"nop", 20081, 65535>>, <<"not", 18048, 65528>>,
   <<"or", 32768, 61440>>, <<"ori", 128, 65528>>, <<"pea", 18496, 65472>>, <<"rte", 20083, 65535>>,
   <<"rts", 20085, 65535>>, <<"scc", 20672, 61688>>, <<"stop", 20082, 65535>>,
   <<"sub", 36864, 61440>>, <<"suba", 37312, 61888>>, <<"subi", 1152, 65528>>,
   <<"subq", 20864, 61888>>, <<"subx", 37248, 61944>>, <<"swap", 18496, 65528>>,
   <<"trap", 20032, 65520>>, <<"trapf", 20984, 65528>>, <<"tst", 18944, 65472>>,
   <<"tst", 19008, 65472>>, <<"tst", 19072, 65472>>, <<"unlk", 20056, 65528>>
  }

\* The same of the processor c.
Rows(c) ==
  CommonRows \cup
  (IF c < CF_5307 THEN {<<"bcc", 24576, 61440>>} ELSE {}) \cup
  (IF c >= CF_5206e THEN {<<"div", 33216, 61632>>, <<"div", 19520, 65472>>} ELSE {}) \cup
  (IF c >= CF_5307 THEN {<<"bcc_isa_b", 24576, 61440>>, <<"cmp_isa_b", 45056, 61888>>, <<"cmp_isa_b", 45120, 61888>>} ELSE {})

\* The row of a pattern.
Row(p) == <<p.execute, Code(p.code), p.mask>>

\* How a pattern is made from its row.
LEMMA RowOfPattern ==
  ASSUME NEW e, NEW code \in Masks, NEW mask \in Masks, NEW p, p = P(e, code, mask)
  PROVE  Row(p) = <<e, code, mask>> /\ p.code = Bits(code) /\ p.mask = mask /\ p.fixed = Bits(mask)
BY CodeOfBits DEF P, Row

\* A pattern that all processors register.
LEMMA CommonPattern ==
  ASSUME NEW p \in Common
  PROVE  \E row \in CommonRows : p = P(row[1], row[2], row[3])
BY SMTT(100) DEF Common, CommonRows, P,
  add_5206_register, adda_5206_register, addi_5206_register, addq_5206_register, addx_5206_register,
  and_5206_register, andi_5206_register, asx_5206_register, btst_5206_register, clr_5206_register,
  cmp_5206_register, cmpa_5206_register, cmpi_5206_register, dc_5206_register, eor_5206_register,
  eori_5206_register, ext_5206_register, halt_5206_register, illegal_5206_register,
  jmp_5206_register, jsr_5206_register, lea_5206_register, link_5206_register, lsx_5206_register,
  move_5206_register, movec_5206_register, movem_5206_register, moveq_5206_register,
  movexr_5206_register, mulu_l_5206_register, mul_w_5206_register, neg_5206_register,
  negx_5206_register, nop_5206_register, not_5206_register, or_5206_register, ori_5206_register,
  pea_5206_register, rte_5206_register, rts_5206_register, scc_5206_register, stop_5206_register,
  sub_5206_register, suba_5206_register, subi_5206_register, subq_5206_register, subx_5206_register,
  swap_5206_register, trap_5206_register, trapf_5206_register, tst_5206_register, unlk_5206_register

\* Rows with the same code and the same mask have the same handler.
LEMMA RowsAreDistinct ==
  ASSUME NEW c \in Int, NEW r \in Rows(c), NEW s \in Rows(c), r[2] = s[2], r[3] = s[3]
  PROVE  r[1] = s[1]
BY SMTT(200) DEF Rows, CommonRows, CF_5206e, CF_5307

\* The codes and masks are of sixteen bits.
LEMMA RowsAreWords ==
  ASSUME NEW c, NEW row \in Rows(c)
  PROVE  row[2] \in Masks /\ row[3] \in Masks
<1>1. \A n : n \in Nat /\ n <= 65535 => n \in Masks
  BY DEF Masks
<1>2. ASSUME NEW r \in CommonRows
      PROVE  r[2] \in Nat /\ r[2] <= 65535 /\ r[3] \in Nat /\ r[3] <= 65535
  <2>1. r[2] \in Nat
    BY <1>2, SMTT(60) DEF CommonRows
  <2>2. r[3] \in Nat
    BY <1>2, SMTT(60) DEF CommonRows
  <2>3. r[2] <= 65535
    BY <1>2, SMTT(60) DEF CommonRows
  <2>4. r[3] <= 65535
    BY <1>2, SMTT(60) DEF CommonRows
  <2>5. QED
    BY <2>1, <2>2, <2>3, <2>4
<1>3. ASSUME row \notin CommonRows
      PROVE  row[2] \in Nat /\ row[2] <= 65535 /\ row[3] \in Nat /\ row[3] <= 65535
  BY <1>3 DEF Rows
<1>4. QED
  BY <1>1, <1>2, <1>3

\* Every pattern of a processor is made from a row.
LEMMA TablePattern ==
  ASSUME NEW c, NEW p \in Table(c)
  PROVE  \E row \in Rows(c) : p = P(row[1], row[2], row[3])
<1>1. CASE p \in Common
  BY <1>1, CommonPattern DEF Rows
<1>2. CASE p \in bcc_5206_register /\ c < CF_5307
  <2>1. <<"bcc", 24576, 61440>> \in Rows(c)
    BY <1>2 DEF Rows
  <2>2. p = P("bcc", 24576, 61440)
    BY <1>2 DEF bcc_5206_register
  <2>3. QED
    BY <2>1, <2>2
<1>3. CASE p \in div_5206e_register /\ c >= CF_5206e
  <2>1. <<"div", 33216, 61632>> \in Rows(c) /\ <<"div", 19520, 65472>> \in Rows(c)
    BY <1>3 DEF Rows
  <2>2. p = P("div", 33216, 61632) \/ p = P("div", 19520, 65472)
    BY <1>3 DEF div_5206e_register
  <2>3. QED
    BY <2>1, <2>2
<1>4. CASE p \in bcc_isa_b_register /\ c >= CF_5307
  <2>1. <<"bcc_isa_b", 24576, 61440>> \in Rows(c)
    BY <1>4 DEF Rows
  <2>2. p = P("bcc_isa_b", 24576, 61440)
    BY <1>4 DEF bcc_isa_b_register
  <2>3. QED
    BY <2>1, <2>2
<1>5. CASE p \in cmp_isa_b_register /\ c >= CF_5307
  <2>1. <<"cmp_isa_b", 45056, 61888>> \in Rows(c) /\ <<"cmp_isa_b", 45120, 61888>> \in Rows(c)
    BY <1>5 DEF Rows
  <2>2. p = P("cmp_isa_b", 45056, 61888) \/ p = P("cmp_isa_b", 45120, 61888)
    BY <1>5 DEF cmp_isa_b_register
  <2>3. QED
    BY <2>1, <2>2
<1>6. QED
  BY <1>1, <1>2, <1>3, <1>4, <1>5 DEF Table

\* What is needed of a pattern: it has a row, and its bits are those of numbers.
LEMMA RowOfEntry ==
  ASSUME NEW c, NEW p \in Table(c)
  PROVE  /\ Row(p) \in Rows(c) /\ Row(p)[1] = p.execute /\ Row(p)[2] \in Masks /\ Row(p)[3] = p.mask
         /\ p.code = Bits(Row(p)[2]) /\ p.fixed = Bits(p.mask) /\ p.mask \in Masks
<1>1. PICK row \in Rows(c) : p = P(row[1], row[2], row[3])
  BY TablePattern
<1>2. PICK e, code, mask : e = row[1] /\ code = row[2] /\ mask = row[3]
  OBVIOUS
<1>3. row = <<e, code, mask>> /\ code \in Masks /\ mask \in Masks
  <2>1. row = <<row[1], row[2], row[3]>>
    BY SMTT(100) DEF Rows, CommonRows
  <2>2. QED
    BY <1>2, <2>1, RowsAreWords
<1>4. Row(p) = <<e, code, mask>> /\ p.code = Bits(code) /\ p.mask = mask /\ p.fixed = Bits(mask)
  BY <1>1, <1>2, <1>3, RowOfPattern
<1>5. p.execute = e
  BY <1>1, <1>2 DEF P
<1>6. QED
  BY <1>3, <1>4, <1>5

\* Two patterns of a processor that fix the same bits, in the same way, have the
\* same handler.
LEMMA SamePattern ==
  ASSUME NEW c \in Int, NEW p \in Table(c), NEW q \in Table(c), p.mask = q.mask, p.code = q.code
  PROVE  p.execute = q.execute
<1>1. Row(p)[2] = Row(q)[2]
  BY RowOfEntry, BitsAreUnique
<1>2. QED
  BY <1>1, RowOfEntry, RowsAreDistinct

\* A pattern that fixes more has the greater mask.
LEMMA SmallerMask ==
  ASSUME NEW c, NEW p \in Table(c), NEW q \in Table(c), p.fixed \subseteq q.fixed
  PROVE  p.mask <= q.mask
BY RowOfEntry, BitsOrder

\* Zero has no bits.
LEMMA NoBits ==
  ASSUME NEW d \in Powers, NEW n, n = 0 \div d
  PROVE  n % 2 # 1
BY DEF Powers

\* DC.W matches every word.
LEMMA DcMatches ==
  ASSUME NEW word, NEW p \in dc_5206_register
  PROVE  Matches(word, p)
<1>1. \A k \in 0 .. 15 : ~Bit(0, Weight(k))
  <2>1. ASSUME NEW k \in 0 .. 15 PROVE Weight(k) \in Powers
    <3>1. /\ Weight(0) = 1 /\ Weight(1) = 2 /\ Weight(2) = 4 /\ Weight(3) = 8
          /\ Weight(4) = 16 /\ Weight(5) = 32 /\ Weight(6) = 64 /\ Weight(7) = 128
          /\ Weight(8) = 256 /\ Weight(9) = 512 /\ Weight(10) = 1024 /\ Weight(11) = 2048
          /\ Weight(12) = 4096 /\ Weight(13) = 8192 /\ Weight(14) = 16384 /\ Weight(15) = 32768
      BY DEF Weight
    <3>2. k \in {0, 1, 2, 3, 4, 5, 6, 7, 8, 9, 10, 11, 12, 13, 14, 15}
      OBVIOUS
    <3>3. QED
      BY <3>1, <3>2 DEF Powers
  <2>2. ASSUME NEW d \in Powers PROVE ~Bit(0, d)
    BY NoBits DEF Bit
  <2>3. QED
    BY <2>1, <2>2
<1>2. Bits(0) = {}
  BY <1>1 DEF Bits, Bit, Weight
<1>3. p.code = {} /\ p.fixed = {}
  BY <1>2 DEF dc_5206_register, P
<1>4. QED
  BY <1>3 DEF Matches

-----------------------------------------------------------------------------
(* The calls that register a processor's patterns. *)

\* An element of one part of a concatenation is one of the whole.
LEMMA PartsOfConcat ==
  ASSUME NEW S, NEW s \in Seq(S), NEW t \in Seq(S), NEW e
  PROVE  /\ s \o t \in Seq(S)
         /\ (\E i \in 1 .. Len(s) : s[i] = e) => \E i \in 1 .. Len(s \o t) : (s \o t)[i] = e
         /\ (\E i \in 1 .. Len(t) : t[i] = e) => \E i \in 1 .. Len(s \o t) : (s \o t)[i] = e
<1>1. PICK st : st = s \o t
  OBVIOUS
<1>2. /\ st \in Seq(S) /\ Len(st) = Len(s) + Len(t)
      /\ \A i \in 1 .. Len(s) + Len(t) : st[i] = IF i <= Len(s) THEN s[i] ELSE t[i - Len(s)]
  BY <1>1, ConcatProperties
<1>3. Len(s) \in Nat /\ Len(t) \in Nat
  OBVIOUS
<1>4. ASSUME NEW i \in 1 .. Len(s), s[i] = e PROVE \E j \in 1 .. Len(st) : st[j] = e
  <2>1. i \in 1 .. Len(st) /\ st[i] = e
    BY <1>2, <1>3, <1>4
  <2>2. QED
    BY <2>1
<1>5. ASSUME NEW i \in 1 .. Len(t), t[i] = e PROVE \E j \in 1 .. Len(st) : st[j] = e
  <2>1. PICK m, n : m = Len(s) /\ n = Len(t)
    OBVIOUS
  <2>2. m \in Nat /\ n \in Nat /\ Len(st) = m + n /\ i \in Int /\ 1 <= i /\ i <= n
    BY <1>2, <1>3, <1>5, <2>1
  <2>3. PICK j : j = m + i
    OBVIOUS
  <2>4. j \in 1 .. m + n /\ ~(j <= m) /\ j - m = i
    BY <2>2, <2>3
  <2>5. st[j] = e
    BY <1>2, <1>5, <2>1, <2>4
  <2>6. QED
    BY <2>2, <2>4, <2>5
<1>6. QED
  BY <1>1, <1>2, <1>4, <1>5

\* The calls register patterns of the processor's table, and DC.W among them.
LEMMA Calls ==
  ASSUME NEW c
  PROVE  /\ instruction_register_instructions(c) \in Seq(SUBSET Table(c))
         /\ \E i \in 1 .. Len(instruction_register_instructions(c)) :
              instruction_register_instructions(c)[i] = dc_5206_register
<1> DEFINE first ==
      <<
        add_5206_register, adda_5206_register, addi_5206_register,
        addq_5206_register, addx_5206_register, and_5206_register,
        andi_5206_register, asx_5206_register
      >>
    second == branches(c)
    third ==
      <<
        btst_5206_register, clr_5206_register, cmp_5206_register,
        cmpa_5206_register, cmpi_5206_register, dc_5206_register,
        eor_5206_register, eori_5206_register, ext_5206_register,
        halt_5206_register, illegal_5206_register, jmp_5206_register,
        jsr_5206_register, lea_5206_register, link_5206_register,
        lsx_5206_register, move_5206_register, movec_5206_register,
        movem_5206_register, moveq_5206_register, movexr_5206_register,
        mulu_l_5206_register, mul_w_5206_register, neg_5206_register,
        negx_5206_register, nop_5206_register, not_5206_register,
        or_5206_register, ori_5206_register, pea_5206_register, rte_5206_register,
        rts_5206_register, scc_5206_register, stop_5206_register,
        sub_5206_register, suba_5206_register, subi_5206_register,
        subq_5206_register, subx_5206_register, swap_5206_register,
        trap_5206_register, trapf_5206_register, tst_5206_register,
        unlk_5206_register
      >>
    fourth == IF c >= CF_5206e THEN <<div_5206e_register>> ELSE <<>>
    fifth == IF c >= CF_5307 THEN <<bcc_isa_b_register, cmp_isa_b_register>> ELSE <<>>
<1>1. instruction_register_instructions(c) = (((first \o second) \o third) \o fourth) \o fifth
  BY DEF instruction_register_instructions
<1>2. Common \subseteq Table(c)
  BY DEF Table
<1>3. first \in Seq(SUBSET Common)
  BY SMTT(60) DEF Common
<1>4. third \in Seq(SUBSET Common) /\ third[6] = dc_5206_register /\ 6 \in 1 .. Len(third)
  BY SMTT(60) DEF Common
<1>5. first \in Seq(SUBSET Table(c)) /\ third \in Seq(SUBSET Table(c))
  <2>1. \A s : s \in Seq(SUBSET Common) => s \in Seq(SUBSET Table(c))
    BY <1>2
  <2>2. QED
    BY <1>3, <1>4, <2>1
<1>6. second \in Seq(SUBSET Table(c))
  <2>1. CASE c < CF_5307
    <3>1. bcc_5206_register \in SUBSET Table(c)
      BY <2>1 DEF Table
    <3>2. QED
      BY <2>1, <3>1 DEF branches
  <2>2. CASE ~(c < CF_5307)
    BY <2>2 DEF branches
  <2>3. QED
    BY <2>1, <2>2
<1>7. fourth \in Seq(SUBSET Table(c))
  <2>1. CASE c >= CF_5206e
    <3>1. div_5206e_register \in SUBSET Table(c)
      BY <2>1 DEF Table
    <3>2. QED
      BY <2>1, <3>1
  <2>2. CASE ~(c >= CF_5206e)
    BY <2>2
  <2>3. QED
    BY <2>1, <2>2
<1>8. fifth \in Seq(SUBSET Table(c))
  <2>1. CASE c >= CF_5307
    <3>1. bcc_isa_b_register \in SUBSET Table(c) /\ cmp_isa_b_register \in SUBSET Table(c)
      BY <2>1 DEF Table
    <3>2. QED
      BY <2>1, <3>1
  <2>2. CASE ~(c >= CF_5307)
    BY <2>2
  <2>3. QED
    BY <2>1, <2>2
<1> HIDE DEF first, second, third, fourth, fifth
<1>9. PICK a : a = first \o second
  OBVIOUS
<1>10. PICK b : b = a \o third
  OBVIOUS
<1>11. PICK d : d = b \o fourth
  OBVIOUS
<1>12. a \in Seq(SUBSET Table(c))
  BY <1>5, <1>6, <1>9, PartsOfConcat
<1>13. b \in Seq(SUBSET Table(c)) /\ \E i \in 1 .. Len(b) : b[i] = dc_5206_register
  <2>1. \E i \in 1 .. Len(third) : third[i] = dc_5206_register
    BY <1>4
  <2>2. QED
    BY <2>1, <1>5, <1>10, <1>12, PartsOfConcat
<1>14. d \in Seq(SUBSET Table(c)) /\ \E i \in 1 .. Len(d) : d[i] = dc_5206_register
  BY <1>7, <1>11, <1>13, PartsOfConcat
<1>15. PICK e : e = d \o fifth
  OBVIOUS
<1>16. e \in Seq(SUBSET Table(c)) /\ \E i \in 1 .. Len(e) : e[i] = dc_5206_register
  BY <1>8, <1>14, <1>15, PartsOfConcat
<1>17. instruction_register_instructions(c) = e
  BY <1>1, <1>9, <1>10, <1>11, <1>15
<1>18. QED
  BY <1>16, <1>17

-----------------------------------------------------------------------------
(* The specification. *)

\* The processors.
Processors == {CF_NULL, CF_5206, CF_5206e, CF_5307}

\* The table holds patterns of the processor, those of the calls that are done,
\* and the cache what is found in the whole table.
IInv ==
  /\ cpu \in Processors
  /\ registered \in 0 .. Len(instruction_register_instructions(cpu))
  /\ Instruction \subseteq Table(cpu)
  /\ \A i \in 1 .. registered : instruction_register_instructions(cpu)[i] \subseteq Instruction
  /\ instruction_cache # <<>> => registered = Len(instruction_register_instructions(cpu))
  /\ \A word \in DOMAIN instruction_cache :
       instruction_cache[word] = Instruction_LookupInstruction(word)

\* The processors are numbers, to compare with.
LEMMA ProcessorsAreNumbers == Processors \subseteq Int
BY DEF Processors, CF_NULL, CF_5206, CF_5206e, CF_5307

\* Every reachable state satisfies it.
THEOREM InvariantHolds == Spec => []IInv
<1> DEFINE calls == instruction_register_instructions(cpu)
<1>1. Init => IInv
  <2> SUFFICES ASSUME Init PROVE IInv
    OBVIOUS
  <2>1. Len(calls) \in Nat
    BY Calls
  <2>2. DOMAIN instruction_cache = {}
    BY DEF Init
  <2>3. QED
    BY <2>1, <2>2 DEF Init, IInv, Processors
<1>2. IInv /\ [Next]_vars => IInv'
  <2> SUFFICES ASSUME IInv, [Next]_vars PROVE IInv'
    OBVIOUS
  <2>1. calls \in Seq(SUBSET Table(cpu)) /\ Len(calls) \in Nat
    BY Calls
  <2>2. CASE instruction_register
    <3>1. registered \in Nat /\ registered < Len(calls) /\ registered' = registered + 1
      BY <2>1, <2>2 DEF instruction_register, IInv
    <3>2. cpu' = cpu /\ instruction_cache' = instruction_cache /\ calls' = calls
      BY <2>2 DEF instruction_register
    <3>3. Instruction' = Instruction \cup calls[registered + 1]
      BY <2>2 DEF instruction_register
    <3>4. registered + 1 \in 1 .. Len(calls)
      BY <2>1, <3>1
    <3>5. calls[registered + 1] \in SUBSET Table(cpu)
      BY <2>1, <3>4, ElementOfSeq
    <3>6. instruction_cache = <<>> /\ DOMAIN instruction_cache = {}
      BY <3>1 DEF IInv
    <3>7. \A i \in 1 .. registered' : calls[i] \subseteq Instruction'
      <4>1. ASSUME NEW i \in 1 .. registered' PROVE i \in 1 .. registered \/ i = registered + 1
        BY <3>1, <4>1
      <4>2. QED
        BY <3>3, <4>1 DEF IInv
    <3>8. registered' \in 0 .. Len(calls)
      BY <2>1, <3>1
    <3>9. (Instruction \subseteq Table(cpu))'
      BY <3>2, <3>3, <3>5 DEF IInv
    <3>10. QED
      BY <3>2, <3>6, <3>7, <3>8, <3>9 DEF IInv
  <2>3. CASE instruction_build_cache
    <3>1. registered = Len(calls) /\ UNCHANGED <<cpu, registered, Instruction>>
      BY <2>3 DEF instruction_build_cache
    <3>2. instruction_cache' = [word \in Words |-> Instruction_LookupInstruction(word)]
      BY <2>3 DEF instruction_build_cache
    <3>3. \A word : Instruction_LookupInstruction(word)' = Instruction_LookupInstruction(word)
      BY <3>1 DEF Instruction_LookupInstruction
    <3>4. (\A word \in DOMAIN instruction_cache :
             instruction_cache[word] = Instruction_LookupInstruction(word))'
      BY <3>2, <3>3
    <3>5. QED
      BY <3>1, <3>4 DEF IInv
  <2>4. CASE UNCHANGED vars
    BY <2>4 DEF vars, IInv, Instruction_LookupInstruction
  <2>5. QED
    BY <2>2, <2>3, <2>4 DEF Next
<1>3. QED
  BY <1>1, <1>2, PTL DEF Spec

\* A set of numbers has a least element.
LEMMA LeastElement ==
  ASSUME NEW S, S \subseteq Nat, S # {}
  PROVE  \E n \in S : \A m \in S : n <= m
<1>1. PICK n \in S : \A m \in S : <<m, n>> \notin OpToRel(<, Nat)
  BY NatLessThanWellFounded, WFMin
<1>2. \A m \in S : ~(m < n)
  BY <1>1 DEF OpToRel
<1>3. QED
  BY <1>2

\* What is found matches, and no other pattern that matches has a greater mask.
LEMMA Found ==
  ASSUME NEW word, IInv, NEW p \in Instruction_LookupInstruction(word)
  PROVE  /\ p \in Instruction /\ p \in Table(cpu) /\ Matches(word, p)
         /\ \A q \in Instruction : Matches(word, q) => q.mask <= p.mask
<1>1. p \in Instruction /\ Matches(word, p)
  BY DEF Instruction_LookupInstruction
<1>2. \A q \in Instruction : q \in Table(cpu) /\ q.mask \in Nat
  BY RowOfEntry, MasksAreNumbers DEF IInv
<1>3. \A q \in Instruction : Matches(word, q) => q.mask - p.mask <= 0
  BY DEF Instruction_LookupInstruction, Instruction_CompareFunction
<1>4. QED
  BY <1>1, <1>2, <1>3

\* Whatever order the table has among patterns with equal masks, the first pattern
\* that matches is the most specific one (Instruction_CompareFunction), on every
\* processor and for every word.
THEOREM MostSpecificIsFound == Spec => []FindsTheMostSpecific
<1>1. IInv => FindsTheMostSpecific
  <2> SUFFICES ASSUME IInv, NEW word \in DOMAIN instruction_cache, NEW p \in instruction_cache[word],
                      NEW q \in Instruction, Matches(word, q), p.fixed \subseteq q.fixed
               PROVE  p.mask = q.mask
    BY DEF FindsTheMostSpecific
  <2>1. p \in Instruction_LookupInstruction(word)
    BY DEF IInv
  <2>2. q.mask <= p.mask /\ p \in Table(cpu) /\ q \in Table(cpu)
    BY <2>1, Found DEF IInv
  <2>3. p.mask <= q.mask
    BY <2>2, SmallerMask
  <2>4. p.mask \in Nat /\ q.mask \in Nat
    BY <2>2, RowOfEntry, MasksAreNumbers
  <2>5. QED
    BY <2>2, <2>3, <2>4
<1>2. QED
  BY <1>1, InvariantHolds, PTL

\* Something is found in the whole table.
LEMMA SomethingIsFound ==
  ASSUME IInv, registered = Len(instruction_register_instructions(cpu)), NEW word
  PROVE  Instruction_LookupInstruction(word) # {}
<1> DEFINE calls == instruction_register_instructions(cpu)
           matching == {p \in Instruction : Matches(word, p)}
           distances == {65535 - p.mask : p \in matching}
<1>1. matching # {}
  <2>1. PICK i \in 1 .. Len(calls) : calls[i] = dc_5206_register
    BY Calls
  <2>2. dc_5206_register \subseteq Instruction
    BY <2>1 DEF IInv
  <2>3. PICK p : p \in dc_5206_register
    BY DEF dc_5206_register
  <2>4. QED
    BY <2>2, <2>3, DcMatches
<1>2. \A p \in matching : p.mask \in Nat /\ p.mask <= 65535
  BY RowOfEntry, MasksAreNumbers DEF IInv
<1>3. distances \subseteq Nat /\ distances # {}
  BY <1>1, <1>2
<1>4. PICK n \in distances : \A m \in distances : n <= m
  <2> HIDE DEF distances
  <2>1. QED
    BY <1>3, LeastElement
<1>5. PICK p \in matching : n = 65535 - p.mask
  OBVIOUS
<1>6. \A q \in matching : q.mask - p.mask <= 0
  <2> TAKE q \in matching
  <2>1. n <= 65535 - q.mask
    BY <1>4
  <2>2. QED
    BY <1>2, <1>5, <2>1
<1>7. p \in Instruction_LookupInstruction(word)
  BY <1>6 DEF Instruction_LookupInstruction, Instruction_CompareFunction
<1>8. QED
  BY <1>7

\* Every word has exactly one handler, on every processor and however qsort orders
\* patterns with equal masks (Instruction_LookupInstruction): there is always one
\* because DC.W matches everything, and never two because two patterns with the
\* same mask that both match fix the same bits in the same way.
THEOREM EveryWordHasOneHandler == Spec => []DecodingIsDetermined
<1>1. IInv => DecodingIsDetermined
  <2> SUFFICES ASSUME IInv, NEW word \in DOMAIN instruction_cache
               PROVE  Cardinality(Instruction_FindInstruction(word)) = 1
    BY DEF DecodingIsDetermined
  <2>1. instruction_cache[word] = Instruction_LookupInstruction(word)
    BY DEF IInv
  <2>2. registered = Len(instruction_register_instructions(cpu))
    <3>1. instruction_cache # <<>>
      OBVIOUS
    <3>2. QED
      BY <3>1 DEF IInv
  <2>3. PICK p : p \in instruction_cache[word]
    BY <2>1, <2>2, SomethingIsFound
  <2>4. ASSUME NEW q \in instruction_cache[word] PROVE q.execute = p.execute
    <3>1. /\ p \in Table(cpu) /\ q \in Table(cpu) /\ Matches(word, p) /\ Matches(word, q)
          /\ p.mask <= q.mask /\ q.mask <= p.mask
      BY <2>1, <2>3, Found
    <3>2. p.mask = q.mask
      <4>1. p.mask \in Nat /\ q.mask \in Nat
        BY <3>1, RowOfEntry, MasksAreNumbers
      <4>2. QED
        BY <3>1, <4>1
    <3>3. p.fixed = q.fixed
      BY <3>1, <3>2, RowOfEntry
    <3>4. p.code = q.code
      BY <3>1, <3>3 DEF Matches
    <3>5. cpu \in Int
      BY ProcessorsAreNumbers DEF IInv
    <3>6. QED
      BY <3>1, <3>2, <3>4, <3>5, SamePattern
  <2>5. Instruction_FindInstruction(word) = {p.execute}
    BY <2>3, <2>4 DEF Instruction_FindInstruction
  <2>6. QED
    BY <2>5, FS_Singleton
<1>2. QED
  BY <1>1, InvariantHolds, PTL
=============================================================================
