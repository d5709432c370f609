------------------------------ MODULE KVStore ------------------------------
(***************************************************************************)
(* The example application of app/kvstore: what its ABCI calls do to the   *)
(* database and to the transaction that stays open between FinalizeBlock   *)
(* and Commit.  The server of the socket executes one call at a time, so   *)
(* only a crash can come between the steps of a call.  This module has the *)
(* app's state and operations; who calls them, and when, is in KVNode.     *)
(***************************************************************************)
EXTENDS Integers, Sequences, FiniteSets

CONSTANTS
  Char,            \* the bytes transactions are made of
  Eq,              \* the byte "="
  RefusedKeys,     \* badger: keys that are empty, too long, or have its own prefix
  MaxSets          \* badger: as many entries as one transaction can hold

ASSUME EqIsAChar == Eq \in Char
ASSUME EmptyKeyIsRefused == <<>> \in RefusedKeys
ASSUME TransactionsHaveALimit == MaxSets \in Nat

VARIABLES
  db,              \* the committed entries: a function from the keys present
  onGoingBlock,    \* the badger transaction: "nil", "open" or "discarded"
  writes,          \* the entries set in it
  req,             \* the transactions of the FinalizeBlock call
  codes            \* TxResults so far: a code per transaction executed

kvVars == <<db, onGoingBlock, writes, req, codes>>

NoEntries == [k \in {} |-> <<>>]

KVInit ==
  /\ db = NoEntries
  /\ onGoingBlock = "nil"
  /\ writes = NoEntries
  /\ req = <<>>
  /\ codes = <<>>

-----------------------------------------------------------------------------
(***************************************************************************)
(* A transaction is valid if it has one "=", that is if splitting it there *)
(* gives two parts.                                                        *)
(***************************************************************************)
EqAt(tx) == {i \in 1..Len(tx) : tx[i] = Eq}

\* Variant: there may be more of them, as the split that takes the parts allows.
AtLeastOneEq(tx) == IF Cardinality(EqAt(tx)) > 0 THEN 0 ELSE 1

\* Variant: the code is the number of parts the transaction has.
NumberOfParts(tx) == IF Cardinality(EqAt(tx)) = 1 THEN 0 ELSE Cardinality(EqAt(tx)) + 1

isValid(tx) == IF Cardinality(EqAt(tx)) = 1 THEN 0 ELSE 1

FirstEq(tx) == CHOOSE i \in EqAt(tx) : \A j \in EqAt(tx) : i <= j
KeyOf(tx) == SubSeq(tx, 1, FirstEq(tx) - 1)
ValueOf(tx) == SubSeq(tx, FirstEq(tx) + 1, Len(tx))

\* CheckTx: the code of the response.
CheckTx(tx) == isValid(tx)

\* A proposal is the transactions CometBFT offers, and every proposal is accepted.
PrepareProposal(txs) == txs
ProcessProposal(txs) == "ACCEPT"

\* Badger sets no entry with a key it refuses, and none in a transaction that is full
\* (the entries that overwrite others count).
Settable(key) ==
  /\ key \notin RefusedKeys
  /\ Cardinality({i \in DOMAIN codes : codes[i] = 0}) < MaxSets

\* Entries of w over those of m.
Overlay(m, w) ==
  [k \in DOMAIN m \cup DOMAIN w |-> IF k \in DOMAIN w THEN w[k] ELSE m[k]]

\* The value a query for this key returns, "" if there is none.
Query(key) == IF key \in DOMAIN db THEN db[key] ELSE <<>>

-----------------------------------------------------------------------------
\* Variant: an open transaction is used again.
KeepOpen(txs) ==
  /\ onGoingBlock' = "open"
  /\ writes' = IF onGoingBlock = "open" THEN writes ELSE NoEntries
  /\ req' = txs
  /\ codes' = <<>>
  /\ UNCHANGED db

\* Variant: the method has a value receiver, so that the field of a copy is set.
OpenByValue(txs) ==
  /\ writes' = NoEntries
  /\ req' = txs
  /\ codes' = <<>>
  /\ UNCHANGED <<db, onGoingBlock>>

\* FinalizeBlock begins: a new transaction replaces the last one, whatever became
\* of that.
OpenBlock(txs) ==
  /\ onGoingBlock' = "open"
  /\ writes' = NoEntries
  /\ req' = txs
  /\ codes' = <<>>
  /\ UNCHANGED db

MoreToExecute == Len(codes) < Len(req)
NextTx == req[Len(codes) + 1]

\* Variant: no result for a transaction that is not valid.
DropInvalid ==
  /\ MoreToExecute
  /\ isValid(NextTx) # 0
  /\ req' = SelectSeq(req, LAMBDA tx : tx # NextTx)
  /\ UNCHANGED <<db, onGoingBlock, writes, codes>>

\* An invalid transaction has its code as its result and no other effect.
SkipInvalid ==
  /\ MoreToExecute
  /\ isValid(NextTx) # 0
  /\ codes' = Append(codes, isValid(NextTx))
  /\ UNCHANGED <<db, onGoingBlock, writes, req>>

\* Variant: the first value set for a key stays.
SetOnce ==
  LET tx == NextTx
  IN /\ MoreToExecute
     /\ isValid(tx) = 0
     /\ Settable(KeyOf(tx))
     /\ writes' = Overlay([k \in {KeyOf(tx)} |-> ValueOf(tx)], writes)
     /\ codes' = Append(codes, 0)
     /\ UNCHANGED <<db, onGoingBlock, req>>

\* A valid one sets its entry in the open transaction.
SetEntry ==
  LET tx == NextTx
  IN /\ MoreToExecute
     /\ isValid(tx) = 0
     /\ Settable(KeyOf(tx))
     /\ writes' = Overlay(writes, [k \in {KeyOf(tx)} |-> ValueOf(tx)])
     /\ codes' = Append(codes, 0)
     /\ UNCHANGED <<db, onGoingBlock, req>>

\* log.Panicf: the entry could not be set.  The server recovers, drops its
\* connection and serves the next one; the transaction stays open, half filled.
PanicOnSet ==
  /\ MoreToExecute
  /\ isValid(NextTx) = 0
  /\ ~Settable(KeyOf(NextTx))
  /\ UNCHANGED kvVars

\* Commit of the open transaction.  (It fails when there is none, or when that
\* has been committed before: KVNode's CommitIsPossible says that it never is
\* called then.)
CommitOpen ==
  /\ onGoingBlock = "open"
  /\ db' = Overlay(db, writes)
  /\ onGoingBlock' = "discarded"
  /\ UNCHANGED <<writes, req, codes>>

\* The process dies and is started again on the same database.
RestartApp ==
  /\ onGoingBlock' = "nil"
  /\ writes' = NoEntries
  /\ req' = <<>>
  /\ codes' = <<>>
  /\ UNCHANGED db
=============================================================================
