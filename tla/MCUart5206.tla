----------------------------- MODULE MCUart5206 -----------------------------
(***************************************************************************)
(* Uart5206 for TLC.  Two characters tell every order apart, since nothing *)
(* in the code looks at them.  The commands are each MISC command alone,   *)
(* each TC command alone, and the pair that meets in one write.            *)
(***************************************************************************)
EXTENDS Uart5206

MCMasks == {{}, {"FFULL"}, {"TxRDY"}}

MCCommands ==
  (MISC \X {"none"}) \cup ({"none"} \X TC) \cup {<<"reset transmitter", "enable">>}
=============================================================================
