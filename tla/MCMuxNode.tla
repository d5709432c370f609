----------------------------- MODULE MCMuxNode -----------------------------
(***************************************************************************)
(* Two SDK chains and a key-value store; in the run with all three, one of *)
(* the chains is connected to by gRPC.                                     *)
(***************************************************************************)
EXTENDS MuxNode

CONSTANTS kv, sdk1, sdk2
=============================================================================
