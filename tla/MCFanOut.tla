------------------------------ MODULE MCFanOut ------------------------------
(***************************************************************************)
(* Three apps: with three, an early return leaves two goroutines behind.   *)
(***************************************************************************)
EXTENDS FanOutProofs
=============================================================================
