------------------------------- MODULE KVNode -------------------------------
(***************************************************************************)
(* The key-value store with a CometBFT node as its only client, the way    *)
(* its README and TestBasicKVwithCometBFT run it.  CometBFT is external:   *)
(* it stores a block before it has it executed, executes and commits one   *)
(* block after the other, and after a restart executes again every block   *)
(* above the height that Info reports.  The store reports none.            *)
(***************************************************************************)
EXTENDS KVStore, SequencesExt

CONSTANTS
  Blocks,          \* the blocks that may be decided
  MaxHeight,       \* bound: no more blocks than this
  MaxCrashes       \* bound: crashes of the app or of CometBFT

ASSUME BlocksOfTxs == Blocks \subseteq Seq(Seq(Char))
ASSUME NodeBounds == MaxHeight \in Nat /\ MaxCrashes \in Nat

VARIABLES
  chain,           \* CometBFT's block store
  done,            \* blocks executed and committed since the last start
  best,            \* the most that were ever executed and committed
  phase,           \* CometBFT: "down", "ready", "executing" or "executed"
  crashes          \* crashes so far

cometVars == <<chain, done, best, phase, crashes>>
nodeVars == <<kvVars, cometVars>>

NodeInit ==
  /\ KVInit
  /\ chain = <<>>
  /\ done = 0
  /\ best = 0
  /\ phase = "down"
  /\ crashes = 0

-----------------------------------------------------------------------------
\* Info of the store: an empty response.
InfoHeight == 0

\* CometBFT starts: it asks for Info and will execute what is above that height.
Start ==
  /\ phase = "down"
  /\ phase' = "ready"
  /\ done' = InfoHeight
  /\ UNCHANGED <<kvVars, chain, best, crashes>>

\* Consensus decides a block that a proposer has prepared and the app has accepted; it
\* is in the block store before it is executed.
Decide ==
  /\ phase = "ready"
  /\ done = Len(chain)
  /\ Len(chain) < MaxHeight
  /\ \E b \in Blocks :
       /\ ProcessProposal(PrepareProposal(b)) = "ACCEPT"
       /\ chain' = Append(chain, PrepareProposal(b))
  /\ UNCHANGED <<kvVars, done, best, phase, crashes>>

FinalizeBlock ==
  /\ phase = "ready"
  /\ done < Len(chain)
  /\ OpenBlock(chain[done + 1])
  /\ phase' = "executing"
  /\ UNCHANGED <<chain, done, best, crashes>>

ExecTx ==
  /\ phase = "executing"
  /\ SkipInvalid \/ SetEntry
  /\ UNCHANGED cometVars

\* The connection is gone: CometBFT stops.
ExecPanics ==
  /\ phase = "executing"
  /\ PanicOnSet
  /\ phase' = "down"
  /\ UNCHANGED <<chain, done, best, crashes>>

BlockExecuted ==
  /\ phase = "executing"
  /\ ~MoreToExecute
  /\ phase' = "executed"
  /\ UNCHANGED <<kvVars, chain, done, best, crashes>>

Commit ==
  /\ phase = "executed"
  /\ CommitOpen
  /\ phase' = "ready"
  /\ done' = done + 1
  /\ best' = IF done + 1 > best THEN done + 1 ELSE best
  /\ UNCHANGED <<chain, crashes>>

\* The app dies, at any point; without it CometBFT stops, too.
AppCrash ==
  /\ crashes < MaxCrashes
  /\ RestartApp
  /\ phase' = "down"
  /\ crashes' = crashes + 1
  /\ UNCHANGED <<chain, done, best>>

\* CometBFT dies; the app keeps running, with its transaction as it is.  A call
\* that it is executing it finishes first.
CometCrash ==
  /\ crashes < MaxCrashes
  /\ phase \in {"ready", "executed"}
  /\ phase' = "down"
  /\ crashes' = crashes + 1
  /\ UNCHANGED <<kvVars, chain, done, best>>

\* The chain is as long as the bound allows: nothing more to do.
Stop ==
  /\ phase = "ready"
  /\ done = MaxHeight
  /\ UNCHANGED nodeVars

NodeNext ==
  \/ Start
  \/ Decide
  \/ FinalizeBlock
  \/ ExecTx
  \/ ExecPanics
  \/ BlockExecuted
  \/ Commit
  \/ AppCrash
  \/ CometCrash
  \/ Stop

NodeSpec == NodeInit /\ [][NodeNext]_nodeVars

(***************************************************************************)
(* The app serves its calls, CometBFT goes on as long as it can, and both  *)
(* are started again after a crash.                                        *)
(***************************************************************************)
NodeFairness ==
  /\ WF_nodeVars(Start)
  /\ WF_nodeVars(Decide)
  /\ WF_nodeVars(FinalizeBlock)
  /\ WF_nodeVars(ExecTx \/ ExecPanics \/ BlockExecuted)
  /\ WF_nodeVars(Commit)

FairNodeSpec == NodeSpec /\ NodeFairness

-----------------------------------------------------------------------------
(***************************************************************************)
(* What a chain of blocks means.                                           *)
(***************************************************************************)

\* The entries that the valid transactions of txs set: for a key, the value in the
\* last of them that has it.
Setters(txs, key) ==
  {i \in 1..Len(txs) : isValid(txs[i]) = 0 /\ KeyOf(txs[i]) = key}

EntriesOf(txs) ==
  LET keys == {KeyOf(txs[i]) : i \in {j \in 1..Len(txs) : isValid(txs[j]) = 0}}
      last(key) == CHOOSE i \in Setters(txs, key) : \A j \in Setters(txs, key) : j <= i
  IN [key \in keys |-> ValueOf(txs[last(key)])]

\* The entries after a sequence of blocks, and after the chain's first h.
MeaningOf(blocks) == EntriesOf(FlattenSeq(blocks))
StateAt(h) == MeaningOf(SubSeq(chain, 1, h))

-----------------------------------------------------------------------------
(***************************************************************************)
(* Properties.                                                             *)
(***************************************************************************)

IsEntries(m) == \A k \in DOMAIN m : k \in Seq(Char) /\ m[k] \in Seq(Char)

\* The variables have their types.
NodeTypeOK ==
  /\ IsEntries(db) /\ IsEntries(writes)
  /\ onGoingBlock \in {"nil", "open", "discarded"}
  /\ req \in Seq(Seq(Char))
  /\ codes \in Seq({0, 1}) /\ Len(codes) <= Len(req)
  /\ chain \in Seq(Blocks)
  /\ done \in 0..best /\ best \in 0..Len(chain)
  /\ phase \in {"down", "ready", "executing", "executed"}
  /\ crashes \in 0..MaxCrashes

\* Whatever crashed when, also in the middle of executing old blocks again: the
\* database has the keys of the newest state there was; what the blocks executed
\* again have set is as they set it, and every other value is one that its key has
\* had after some whole block.
ReplayConverges ==
  /\ DOMAIN db = DOMAIN StateAt(best)
  /\ \A key \in DOMAIN db :
       LET had(h) == key \in DOMAIN StateAt(h) /\ db[key] = StateAt(h)[key]
       IN IF key \in DOMAIN StateAt(done) THEN had(done) ELSE \E h \in 0..best : had(h)

\* Commit finds an open transaction whenever CometBFT calls it, so that it never
\* fails: neither a crash nor a commit before it has taken the transaction away.
CommitIsPossible == phase = "executed" => onGoingBlock = "open"

\* The response to FinalizeBlock has one result for each transaction, with the
\* code that CheckTx gives the same transaction.
OneResultPerTx ==
  phase = "executed" =>
    /\ Len(codes) = Len(chain[done + 1])
    /\ \A i \in 1..Len(codes) : codes[i] = CheckTx(chain[done + 1][i])

\* A transaction that isValid accepts can be executed: no block stops the app.
ValidTxsAreExecuted ==
  phase = "executing" /\ MoreToExecute /\ isValid(NextTx) = 0 => Settable(KeyOf(NextTx))

\* A block that cannot be executed: among its transactions with one "=" there is one
\* whose key badger refuses, or there are too many.
Stuck(txs) ==
  LET pairs == {i \in DOMAIN txs : Cardinality(EqAt(txs[i])) = 1}
  IN Cardinality(pairs) > MaxSets \/ \E i \in pairs : KeyOf(txs[i]) \in RefusedKeys

\* Every block that is decided is executed and committed, after every restart; only a
\* block with a valid transaction that badger refuses stands in the way.
EveryBlockIsCommitted == []<>(done = Len(chain) \/ Stuck(chain[done + 1]))

\* The store implements a ledger: blocks take effect one by one, as a whole, and for
\* good, queries are answered from whole blocks only, also after crashes, and while the
\* chain is being replayed nobody is served.
Served ==
  IF phase # "down" /\ done = best THEN {[key \in DOMAIN db |-> Query(key)]} ELSE {}
L == INSTANCE Ledger WITH
       log <- SubSeq(chain, 1, best), served <- Served,
       Meaning <- MeaningOf
ImplementsLedger == L!LedgerSpec
=============================================================================
