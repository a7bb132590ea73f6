---------------------------- MODULE MCTimer5206 ----------------------------
(***************************************************************************)
(* Timer5206 for TLC: two clock rates and no clock, instructions that cost *)
(* nothing, less and more than a tick, and the smallest counters that can  *)
(* restart, pass the reference and wrap.                                   *)
(***************************************************************************)
EXTENDS Timer5206
=============================================================================
