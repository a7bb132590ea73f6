------------------------------ MODULE Decoder ------------------------------
(***************************************************************************)
(* The instruction registry (i.c).  At the line of the board file that     *)
(* names the processor every instruction registers the patterns it         *)
(* implements, the table is sorted by mask, the biggest first, and a cache *)
(* with an entry for each of the 65536 words is built from it.  A word is  *)
(* what the first pattern of the table says that matches it.               *)
(*                                                                         *)
(* The order of patterns with equal masks is qsort's: any.                 *)
(***************************************************************************)
EXTENDS Integers, Sequences, FiniteSets

CONSTANT Words  \* the instruction words whose decoding is looked at, as sets of bits

ASSUME DecoderAssumption == Words \subseteq SUBSET (0 .. 15)

VARIABLES
  cpu,
  registered,        \* how many of the calls of instruction_register_instructions are done
  Instruction,       \* the table
  instruction_cache  \* for each word the patterns that may be found for it

vars == <<cpu, registered, Instruction, instruction_cache>>

\* enum _coldfire_cpu_id
CF_NULL == 0
CF_5206 == 1
CF_5206e == 2
CF_5307 == 4

------------------------------------------------------------------------------
(* The patterns. *)

\* The bits that are set in a word.
Bits(n) == {k \in 0 .. 15 : (n \div 2^k) % 2 = 1}

\* The mask as the number to sort by, and as the bits that the pattern fixes.
P(execute, code, mask) ==
  [execute |-> execute, code |-> Bits(code), mask |-> mask, fixed |-> Bits(mask)]

add_5206_register == {P("add", \hD000, \hF000)}
adda_5206_register == {P("adda", \hD1C0, \hF1C0)}
addi_5206_register == {P("addi", \h0680, \hFFF8)}
addq_5206_register == {P("addq", \h5080, \hF1C0)}
addx_5206_register == {P("addx", \hD180, \hF1F8)}
and_5206_register == {P("and", \hC000, \hF000)}
andi_5206_register == {P("andi", \h0280, \hFFF8)}
asx_5206_register == {P("asx", \hE080, \hF0D8)}
bcc_5206_register == {P("bcc", \h6000, \hF000)}
btst_5206_register == {P("btst", \h0100, \hF100), P("btst", \h0800, \hFF00)}
clr_5206_register == {P("clr", \h4200, \hFF00)}
cmp_5206_register == {P("cmp", \hB080, \hF1C0)}
cmpa_5206_register == {P("cmpa", \hB1C0, \hF1C0)}
cmpi_5206_register == {P("cmpi", \h0C80, \hFFF8)}
dc_5206_register == {P("dc", \h0000, \h0000)}
eor_5206_register == {P("eor", \hB180, \hF1C0)}
eori_5206_register == {P("eori", \h0A80, \hFFF8)}
ext_5206_register == {P("ext", \h4800, \hFE38)}
halt_5206_register == {P("halt", \h4AC8, \hFFFF)}
illegal_5206_register == {P("illegal", \h4AFC, \hFFFF)}
jmp_5206_register == {P("jmp", \h4EC0, \hFFC0)}
jsr_5206_register == {P("jsr", \h4E80, \hFFC0)}
lea_5206_register == {P("lea", \h41C0, \hF1C0)}
link_5206_register == {P("link", \h4E50, \hFFF8)}
lsx_5206_register == {P("lsx", \hE088, \hF0D8)}
move_5206_register == {P("move", \h1000, \hF000), P("move", \h2000, \hF000), P("move", \h3000, \hF000)}
movec_5206_register == {P("movec", \h4E7B, \hFFFF)}
movem_5206_register == {P("movem", \h48C0, \hFBC0)}
moveq_5206_register == {P("moveq", \h7000, \hF100)}
movexr_5206_register == {P("movexr", \h40C0, \hF9C0)}
mulu_l_5206_register == {P("mulu_l", \h4C00, \hFFC0)}
mul_w_5206_register == {P("mul_w", \hC0C0, \hF0C0)}
neg_5206_register == {P("neg", \h4480, \hFFF8)}
negx_5206_register == {P("negx", \h4080, \hFFF8)}
nop_5206_register == {P("nop", \h4E71, \hFFFF)}
not_5206_register == {P("not", \h4680, \hFFF8)}
or_5206_register == {P("or", \h8000, \hF000)}
ori_5206_register == {P("ori", \h0080, \hFFF8)}
pea_5206_register == {P("pea", \h4840, \hFFC0)}
rte_5206_register == {P("rte", \h4E73, \hFFFF)}
rts_5206_register == {P("rts", \h4E75, \hFFFF)}
scc_5206_register == {P("scc", \h50C0, \hF0F8)}
stop_5206_register == {P("stop", \h4E72, \hFFFF)}
sub_5206_register == {P("sub", \h9000, \hF000)}
suba_5206_register == {P("suba", \h91C0, \hF1C0)}
subi_5206_register == {P("subi", \h0480, \hFFF8)}
subq_5206_register == {P("subq", \h5180, \hF1C0)}
subx_5206_register == {P("subx", \h9180, \hF1F8)}
swap_5206_register == {P("swap", \h4840, \hFFF8)}
trap_5206_register == {P("trap", \h4E40, \hFFF0)}
trapf_5206_register == {P("trapf", \h51F8, \hFFF8)}
tst_5206_register == {P("tst", \h4A00, \hFFC0), P("tst", \h4A40, \hFFC0), P("tst", \h4A80, \hFFC0)}
unlk_5206_register == {P("unlk", \h4E58, \hFFF8)}
div_5206e_register == {P("div", \h81C0, \hF0C0), P("div", \h4C40, \hFFC0)}
bcc_isa_b_register == {P("bcc_isa_b", \h6000, \hF000)}
cmp_isa_b_register == {P("cmp_isa_b", \hB000, \hF1C0), P("cmp_isa_b", \hB040, \hF1C0)}

\* A mutant: the branches of the first instruction set are always registered.
branches_always(c) == <<bcc_5206_register>>

\* The 5307 has branches with longer displacements instead of these.
branches(c) == IF c < CF_5307 THEN <<bcc_5206_register>> ELSE <<>>

\* What the processor registers, in order.
instruction_register_instructions(c) ==
  <<
     add_5206_register, adda_5206_register, addi_5206_register,
     addq_5206_register, addx_5206_register, and_5206_register,
     andi_5206_register, asx_5206_register
  >> \o branches(c) \o <<
     btst_5206_register, clr_5206_register, cmp_5206_register,
     cmpa_5206_register, cmpi_5206_register, dc_5206_register,
     eor_5206_register, eori_5206_register, ext_5206_register,
     halt_5206_register, illegal_5206_register, jmp_5206_register,
     jsr_5206_register, lea_5206_register, link_5206_register,
     lsx_5206_register, move_5206_register, movec_5206_register,
     movem_5206_register, moveq_5206_register, movexr_5206_register,
     mulu_l_5206_register, mul_w_5206_register, neg_5206_register,
     negx_5206_register, nop_5206_register, not_5206_register,
     or_5206_register, ori_5206_register, pea_5206_register, rte_5206_register,
     rts_5206_register, scc_5206_register, stop_5206_register,
     sub_5206_register, suba_5206_register, subi_5206_register,
     subq_5206_register, subx_5206_register, swap_5206_register,
     trap_5206_register, trapf_5206_register, tst_5206_register,
     unlk_5206_register
  >> \o (IF c >= CF_5206e THEN <<div_5206e_register>> ELSE <<>>)
     \o (IF c >= CF_5307 THEN <<bcc_isa_b_register, cmp_isa_b_register>> ELSE <<>>)

------------------------------------------------------------------------------
(* The table and the cache. *)

Matches(word, p) == word \cap p.fixed = p.code

\* A mutant: the table is sorted with the smallest mask first.
Instruction_CompareFunction_ascending(p, q) == p.mask - q.mask

\* Negative when p is to come before q.
Instruction_CompareFunction(p, q) == q.mask - p.mask

\* The first pattern of the sorted table that matches; several candidates when
\* the order of two of them is not determined.
Instruction_LookupInstruction(word) ==
  LET matching == {p \in Instruction : Matches(word, p)}
  IN {p \in matching : \A q \in matching : Instruction_CompareFunction(p, q) <= 0}

Init ==
  /\ cpu \in {CF_NULL, CF_5206, CF_5206e, CF_5307}
  /\ registered = 0 /\ Instruction = {} /\ instruction_cache = <<>>

\* One call of instruction_register_instructions.
instruction_register ==
  LET calls == instruction_register_instructions(cpu)
  IN /\ registered < Len(calls)
     /\ Instruction' = Instruction \cup calls[registered + 1]
     /\ registered' = registered + 1
     /\ UNCHANGED <<cpu, instruction_cache>>

instruction_build_cache ==
  /\ registered = Len(instruction_register_instructions(cpu)) /\ instruction_cache = <<>>
  /\ instruction_cache' = [word \in Words |-> Instruction_LookupInstruction(word)]
  /\ UNCHANGED <<cpu, registered, Instruction>>

Next == instruction_register \/ instruction_build_cache

Spec == Init /\ [][Next]_vars

Instruction_FindInstruction(word) == {p.execute : p \in instruction_cache[word]}

------------------------------------------------------------------------------
(* Properties. *)

\* Whatever word the program meets, and however qsort orders patterns with equal
\* masks, one handler is found: an emulated program does not depend on the C
\* library (Instruction_LookupInstruction, and its comment on DC.W).
DecodingIsDetermined ==
  \A word \in DOMAIN instruction_cache : Cardinality(Instruction_FindInstruction(word)) = 1

\* The order by mask as a number puts a pattern before those that it refines: no
\* word goes to a pattern when another one matches that fixes the same bits and
\* more (Instruction_CompareFunction).
FindsTheMostSpecific ==
  \A word \in DOMAIN instruction_cache : \A p \in instruction_cache[word], q \in Instruction :
    Matches(word, q) /\ p.fixed \subseteq q.fixed => p.mask = q.mask

\* The formats that i_movexr.c and i_div.c give for the moves of the status and
\* for the divisions decode to the handlers of those files.
Formats ==
  (* MOVE to SR, from SR, to CCR, from CCR *)
  {P("movexr", \h46C0, \hFFC0), P("movexr", \h40C0, \hFFF8),
   P("movexr", \h44C0, \hFFC0), P("movexr", \h42C0, \hFFF8)}
  \cup
  (* DIVS and DIVU of a word, and of a longword *)
  (IF cpu < CF_5206e THEN {}
   ELSE {P("div", \h81C0, \hF1C0), P("div", \h80C0, \hF1C0), P("div", \h4C40, \hFFC0)})

FormatsDecode ==
  \A word \in DOMAIN instruction_cache : \A f \in Formats :
    Matches(word, f) => Instruction_FindInstruction(word) = {f.execute}
=============================================================================
