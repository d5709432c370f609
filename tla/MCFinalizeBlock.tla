-------------------------- MODULE MCFinalizeBlock --------------------------
(***************************************************************************)
(* Two apps, the second with an identifier that differs from the first's   *)
(* only in its last two bytes, and every block of up to MaxTxs of the      *)
(* transactions below.                                                     *)
(***************************************************************************)
EXTENDS FinalizeBlock, TLC

CONSTANT MaxTxs

KVStoreId == <<129, 54, 244, 245>>       \* SHA-1 of "KVStore"
OtherId == <<129, 54, 26, 250>>
MCApps == {KVStoreId, OtherId}

MCTxs == {
  CreateMegablocksHeader(KVStoreId) \o <<1>>,
  CreateMegablocksHeader(OtherId) \o <<2>>,
  CreateMegablocksHeader(OtherId),                   \* nothing behind the header
  CreateMegablocksHeader(<<129, 54, 244, 246>>),       \* no such app
  SubSeq(CreateMegablocksHeader(KVStoreId), 1, 7),     \* cut off in the header
  <<0, 0, 0, 0>> \o KVStoreId \o <<1>> }               \* not a Megablocks header

MCBlocks == UNION {[1..n -> MCTxs] : n \in 0..MaxTxs}

MCPart ==
  (KVStoreId :> [f \in Fields |-> IF f = "AppHash" THEN <<>> ELSE <<10, 11>>]) @@
  (OtherId :> [f \in Fields |-> IF f = "Events" THEN <<20, 21>> ELSE <<20>>])
=============================================================================
