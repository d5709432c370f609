------------------------------- MODULE Ledger -------------------------------
(***************************************************************************)
(* What an application behind consensus promises its users, with no        *)
(* transactions left open, replays or crashes in sight: there is a log of  *)
(* committed blocks that only grows, by one block at a time, and what the  *)
(* users are served is what the log means, unless they are served nothing. *)
(* KVNode implements it.                                                   *)
(***************************************************************************)
EXTENDS Sequences

CONSTANTS
  Blocks,          \* the blocks that may be committed
  Meaning(_)       \* the state that a sequence of blocks leads to

VARIABLES
  log,             \* the committed blocks
  served           \* the set of the state that queries are answered from, or {}

ledgerVars == <<log, served>>

LedgerInit ==
  /\ log = <<>>
  /\ served = {}

\* A block is committed; its effects are seen at once and as a whole.
CommitBlock(b) ==
  /\ served # {}
  /\ log' = Append(log, b)
  /\ served' = {Meaning(log')}

\* The service is interrupted and taken up again where it was.
Suspend ==
  /\ served' = {}
  /\ UNCHANGED log

Resume ==
  /\ served' = {Meaning(log)}
  /\ UNCHANGED log

LedgerNext ==
  \/ \E b \in Blocks : CommitBlock(b)
  \/ Suspend
  \/ Resume

LedgerSpec == LedgerInit /\ [][LedgerNext]_ledgerVars
=============================================================================
