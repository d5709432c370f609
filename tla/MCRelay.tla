------------------------------ MODULE MCRelay ------------------------------
(***************************************************************************)
(* Three chains, two of which have the same identifier, and the empty      *)
(* chain id; files that set all fields, some, or too few apps; homes with  *)
(* a genesis, without one and with a broken one; addresses and connection  *)
(* types in new combinations; transactions for two of the chains and for   *)
(* none, and some that are too short, with the rest of a header behind     *)
(* them, other bytes or no room.                                           *)
(***************************************************************************)
EXTENDS Relay

CONSTANTS None_, Broken, KVState, SdkState

MCChains == {"KVStore", "sdk-app-1", "sdk-app-2", ""}

MCIdOf ==
  [c \in MCChains |->
     CASE c = "KVStore" -> <<131, 7, 7, 1>> [] c = "" -> <<218, 57, 163, 238>>
       [] OTHER -> <<131, 7, 9, 2>>]

MCHomes == {"/tmp/kvstore", "/tmp/sdk-app-2", "/tmp/other", ""}

MCGenesisAt ==
  [h \in MCHomes |->
     CASE h = "/tmp/kvstore" -> None_ [] h = "/tmp/sdk-app-2" -> SdkState
       [] h = "/tmp/other" -> KVState [] OTHER -> Broken]

MCAddresses == {"kvapp.sock", "mind.sock", "localhost:26658", ""}

MCTypes == {"socket", "grpc", "pipe", ""}

At(c, h, a, t) == [chain |-> c, home |-> h, address |-> a, type |-> t]

App(c, h) == At(c, h, IF c = "KVStore" THEN "kvapp.sock" ELSE "mind.sock", "socket")

MCZeroApp == At("", "", "", "")

MCDefaultApps == <<App("KVStore", "/tmp/kvstore"), App("sdk-app-2", "/tmp/sdk-app-2")>>

MCFiles == {
  <<>>,
  <<App("sdk-app-1", "/tmp/other")>>,                            \* clashes with a default
  <<App("KVStore", "/tmp/other")>>,
  <<App("sdk-app-2", "/tmp/sdk-app-2"), App("KVStore", "/tmp/kvstore")>>,
  \* another app's home and address
  <<[chain |-> "sdk-app-1", type |-> "grpc"], App("KVStore", "/tmp/other")>>,
  <<App("KVStore", "/tmp/other"), At("sdk-app-1", "/tmp/other", "localhost:26658", "grpc")>>,
  <<At("KVStore", "/tmp/kvstore", "kvapp.sock", "pipe")>>,       \* no such type
  <<App("KVStore", "/tmp/kvstore"), App("sdk-app-1", "/tmp/sdk-app-2"),
    App("", "/tmp/other")>>,
  <<App("KVStore", ""), App("sdk-app-1", "/tmp/sdk-app-2")>>}    \* a broken genesis

ToKV == CreateMegablocksHeader(MCIdOf["KVStore"])
ToSdk == CreateMegablocksHeader(MCIdOf["sdk-app-1"])

MCTxs == {
  ToKV \o <<97>>,
  ToKV \o ToSdk,                         \* a body that looks like a header
  ToSdk,                                 \* no body
  CreateMegablocksHeader(<<0, 0, 0, 0>>) \o <<97>>,
  SubSeq(ToKV, 1, 7), SubSeq(ToKV, 1, 3), <<>>}

\* The array ends with the transaction, is filled with zeros, or holds what makes a
\* header of one of those that are too short.
MCBehind == {<<>>, <<0, 0, 0, 0, 0, 0, 0, 0>>, SubSeq(ToKV, 8, 8), SubSeq(ToKV, 4, 8), ToSdk}
=============================================================================
