------------------------------- MODULE MCCpu -------------------------------
(***************************************************************************)
(* Cpu for TLC: bytes of two bits, so that a long word has eight, and 16   *)
(* bytes of ram.                                                           *)
(***************************************************************************)
EXTENDS Cpu, TLC

MCAddresses == 0 .. 15

Plain(mode, reg, data) ==
  [mode |-> mode, reg |-> reg, data |-> data, bank |-> "d", index |-> 0, scale |-> 1]

MCOperand ==
  { Plain("Dn", 0, 0), Plain("Dn", 1, 0), Plain("An", 0, 0),
    Plain("Indirect", 0, 0), Plain("PostIncrement", 0, 0), Plain("PreDecrement", 0, 0),
    Plain("Displaced", 0, 12), Plain("PCDisplaced", 0, 2),
    Plain("AbsoluteWord", 0, 12), Plain("AbsoluteLong", 1, 0),
    Plain("Immediate", 4, 128),
    [Plain("Indexed", 0, 3) EXCEPT !.scale = 4],
    [Plain("PCIndexed", 0, 1) EXCEPT !.bank = "a"] }

MCSizes == {1, 2, 4}
MCImmediates == {1, 8}
MCLongData == {0, 1, 127, 128, 255}

MCDisplacements ==
  { [byte |-> 1, word |-> 0, long |-> 0],
    [byte |-> 3, word |-> 0, long |-> 64],
    [byte |-> 0, word |-> 15, long |-> 64],
    [byte |-> 0, word |-> 8, long |-> 64] }

Boundary == {0, 1, 127, 128, 255}

\* Memory has positive, negative and zero bytes, words and long words.
MCRam == [x \in MCAddresses |-> CASE x \in 4 .. 7 -> 3 [] x = 8 -> 2 [] x = 11 -> 1 [] OTHER -> 0]

MCInitialCores ==
  { [d |-> (0 :> v @@ 1 :> w), a |-> (0 :> 8 @@ 7 :> 16), pc |-> 0, ram |-> MCRam,
     ccr |-> [x |-> x, n |-> FALSE, z |-> z, v |-> TRUE, c |-> ~x]] :
      v \in Boundary, w \in Boundary, x \in BOOLEAN, z \in BOOLEAN }
=============================================================================
