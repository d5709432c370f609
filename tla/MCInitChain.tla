---------------------------- MODULE MCInitChain ----------------------------
(***************************************************************************)
(* Three apps.  One returns an AppHash and no validators, one validators   *)
(* and an empty AppHash (the answers of TestInitChain's two chains), the   *)
(* third both.                                                             *)
(***************************************************************************)
EXTENDS InitChain

CONSTANTS chain1, chain2, chain3

MCGenesis == [x \in Apps \cup {Caller} |-> <<"genesis of", x>>]

MCAppHashOf == [a \in Apps |->
  CASE a = chain1 -> <<222, 10, 13, 190, 239>> [] a = chain2 -> <<>> [] OTHER -> <<7>>]

MCValidatorsOf == [a \in Apps |->
  CASE a = chain1 -> <<>> [] a = chain2 -> <<"v123", "v345">> [] OTHER -> <<"v9">>]
=============================================================================
