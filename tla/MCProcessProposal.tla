------------------------- MODULE MCProcessProposal -------------------------
(***************************************************************************)
(* Three apps and every block of up to MaxTxs of the transactions below.   *)
(* A block of three transactions can have one for each app.                *)
(***************************************************************************)
EXTENDS ProcessProposal

CONSTANT MaxTxs

KVStoreId == <<129, 54, 244, 245>>       \* SHA-1 of "KVStore"
SdkApp1Id == <<23, 115, 66, 112>>        \* SHA-1 of "sdk-app-1"
SdkApp2Id == <<13, 255, 26, 33>>         \* SHA-1 of "sdk-app-2"
MCApps == {KVStoreId, SdkApp1Id, SdkApp2Id}

MCTxs ==
  {CreateMegablocksHeader(id) \o <<1>> : id \in MCApps} \cup
  {CreateMegablocksHeader(KVStoreId), CreateMegablocksHeader(<<0, 0, 0, 0>>)}

MCBlocks == UNION {[1..n -> MCTxs] : n \in 0..MaxTxs}

\* One transaction for each app.
MCOneEach == {<<CreateMegablocksHeader(KVStoreId), CreateMegablocksHeader(SdkApp1Id),
                CreateMegablocksHeader(SdkApp2Id)>>}
=============================================================================
