---------------------------- MODULE BlockRouting ----------------------------
(***************************************************************************)
(* What ProcessProposal and FinalizeBlock of cosmux/multiplexer.go do with *)
(* the transactions of a block before they ask any app: one turn of a loop *)
(* per transaction, each adding the stripped transaction to the list of    *)
(* the app its header names.  Both handlers extend this module.            *)
(***************************************************************************)
EXTENDS Routing, FanOut

CONSTANT Blocks    \* the blocks (sequences of transactions) to consider

ASSUME AppsAreIdentifiers == Apps \subseteq ChainAppIdentifier
ASSUME BlocksAreBlocks == Blocks \subseteq Seq(Seq(Byte))

VARIABLES
  block,           \* req.Txs
  idx,             \* how many of them are routed
  handlerTxs       \* the stripped transactions of each app

blockVars == <<block, idx, handlerTxs>>

RoutingInit ==
  /\ FanInit
  /\ block \in Blocks
  /\ idx = 0
  /\ handlerTxs = [a \in Apps |-> <<>>]

\* One turn of the loop, for a transaction with a known handler.
RouteTx ==
  LET tx == block[idx + 1]
      id == HeaderId(tx)
  IN /\ main = "routing"
     /\ idx < Len(block)
     /\ HasHandler(Apps, tx)
     /\ handlerTxs' = [handlerTxs EXCEPT ![id] = Append(@, Strip(tx))]
     /\ idx' = idx + 1
     /\ UNCHANGED <<block, fanVars>>

\* Variant: such a transaction is skipped and the others are routed.
SkipTx ==
  /\ main = "routing"
  /\ idx < Len(block)
  /\ ~HasHandler(Apps, block[idx + 1])
  /\ idx' = idx + 1
  /\ UNCHANGED <<block, handlerTxs, fanVars>>

\* A transaction nobody can handle ends the call before any app hears of it.
RefuseBlock ==
  /\ idx < Len(block)
  /\ ~HasHandler(Apps, block[idx + 1])
  /\ Refuse
  /\ UNCHANGED blockVars

-----------------------------------------------------------------------------
(***************************************************************************)
(* Properties of both handlers.                                            *)
(***************************************************************************)

\* The variables have their types.
RoutingTypeOK ==
  /\ FanTypeOK
  /\ block \in Blocks
  /\ idx \in 0..Len(block)
  /\ handlerTxs \in [Apps -> Seq(Seq(Byte))]

\* The positions of app a's transactions among the routed ones.
PositionsOf(a) == {i \in 1..idx : HeaderId(block[i]) = a}

\* How many transactions up to position i are for the same app as i's.
Rank(i) == Cardinality({j \in 1..i : HeaderId(block[j]) = HeaderId(block[i])})

\* An app that is asked gets exactly the transactions that carry its identifier,
\* in block order and with the header, which it would find in front, gone.
EachAppGetsItsShare ==
  \A a \in Apps : gor[a] # "none" =>
    /\ Len(handlerTxs[a]) = Cardinality(PositionsOf(a))
    /\ \A i \in PositionsOf(a) :
         CreateMegablocksHeader(a) \o handlerTxs[a][Rank(i)] = block[i]

\* A block that holds even one transaction nobody can handle reaches no app.
NoAppSeesABadBlock ==
  (\E a \in Apps : gor[a] # "none") =>
    \A i \in 1..Len(block) : HasHandler(Apps, block[i])
=============================================================================
