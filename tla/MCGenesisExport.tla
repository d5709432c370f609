-------------------------- MODULE MCGenesisExport --------------------------
(***************************************************************************)
(* Two validators, one with two delegations and one with one.  The first   *)
(* validator's address is written in small letters and may also be given   *)
(* in capitals.                                                            *)
(***************************************************************************)
EXTENDS GenesisExport

MCValidators == {"v1", "v2"}
MCDelegations == {"d1", "d2", "d3"}
MCValidatorOf == [d \in MCDelegations |-> IF d = "d3" THEN "v2" ELSE "v1"]
MCStartedAt == [d \in MCDelegations |-> IF d = "d1" THEN 0 ELSE 1]

MCNames == {"minivaloper1", "MINIVALOPER1", "minivaloper2", "mini1"}
MCAddressOf ==
  [n \in MCNames |->
     CASE n \in {"minivaloper1", "MINIVALOPER1"} -> "v1"
       [] n = "minivaloper2" -> "v2"
       [] OTHER -> "none"]
MCNameOf == [v \in MCValidators |-> IF v = "v1" THEN "minivaloper1" ELSE "minivaloper2"]
=============================================================================
