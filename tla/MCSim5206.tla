----------------------------- MODULE MCSim5206 -----------------------------
(***************************************************************************)
(* Sim5206 for TLC: a timer (input 9) and two UARTs (12 and 13), with two  *)
(* levels the inputs can share or not, and level 0, which is never taken.  *)
(***************************************************************************)
EXTENDS Sim5206

MCInputs == {9, 12, 13}

MCIcrValues ==
  { [level |-> 0, avec |-> FALSE],
    [level |-> 1, avec |-> TRUE],
    [level |-> 2, avec |-> FALSE] }

MCDeviceVectors == {0, 64}

MCResetIcr ==
  [n \in MCInputs |-> [level |-> 0, avec |-> n < 11]]
=============================================================================
