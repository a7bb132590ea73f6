----------------------------- MODULE MCDecoder -----------------------------
(***************************************************************************)
(* Every processor, with the words whose last three bits, an operand       *)
(* register nearly everywhere, are 0 or 3, or with those of the operand D0. *)
(***************************************************************************)
EXTENDS Decoder

MCWords == {word \in SUBSET (0 .. 15) : word \cap {0, 1, 2} \in {{}, {0, 1}}}

MCRegisterWords == SUBSET (6 .. 15)
=============================================================================
