# Megablocks: specifications of the multiplexer and its applications

Megablocks lets several ABCI applications share one CometBFT node. Between them
stands a multiplexer, `cosmux`: to CometBFT it is one application, to every
chain application it is CometBFT. A transaction carries a header (four magic
bytes and the first four bytes of the SHA-1 of a chain id) that says which
application it is for.

This directory holds TLA+ models of that program, TLC runs that check them on
small instances, and TLAPS proofs of what matters most for every instance.

## 1. Inventory

| component | state | operations | who calls it |
|---|---|---|---|
| fan-out of a call (`cosmux/multiplexer.go`: InitChain, ProcessProposal, FinalizeBlock) | locals of one call: a buffered channel, a WaitGroup, one goroutine per app, one that closes the channel | start goroutines, call app, send, done, wait and close, receive, return early | CometBFT's consensus connection |
| header and handler lookup (`CheckHeader`, `getHandler`, `SortChainAppIDs`) | the map of handlers, fixed after start-up | check, look up, strip, sort | the handlers |
| `FinalizeBlock` | `handlerTxs`, `responseSlots`, the maps of hashes, updates and events, the response | route, fan out, put results in their slots, join in identifier order | consensus connection |
| `ProcessProposal` | `handlerTxs`, the response's status | route, ask the apps concerned, fold the votes | consensus connection |
| `InitChain` | one copy of the request per app, the response | copy and fill in the request, fan out, merge | consensus connection, once |
| `Info`, `Query`, `CheckTx` | none of their own (`CheckTx` shortens the caller's request) | forward to every app / the app named | query and mempool connections, at the same time as consensus |
| `Commit` | the response | call one app after the other, stop at an error | consensus connection |
| `PrepareProposal`, snapshots, vote extensions | none | return the input or nothing | CometBFT |
| configuration, registration and start-up (`NewMultiplexer`, `AddApplication`, `Start`, `main.go`, `config.go`, `utils.go`) | the list of apps, the map of handlers with their initial states, the clients' connections | read the file over the defaults, read the genesis, register, connect, give up | the process |
| key-value store (`app/kvstore`) | a badger database, the transaction left open between FinalizeBlock and Commit | CheckTx, FinalizeBlock, Commit, Query | the multiplexer, over a socket |
| SDK chain (`app/sdk-chain-a`) | the Cosmos SDK's stores | wiring | the multiplexer, over a socket |
| genesis export (`app/sdk-chain-a/app/export.go`) | a context over those stores: rewards, reference counts, delegations, validators | withdraw, clear, initialise again, reset heights, jail, write | the command line |
| end-to-end harness (`tests/e2e`) | processes, sockets and directories | start, wait for, stop, clean up | tests |

The behaviours that are hard here are concurrency inside one call (goroutines
that outlive a handler which returned early, the order in which answers come
back), the agreement between validators (nothing in a response may depend on
that order or on a map's order), partial failure (one app of several fails, or
some have committed and others not), and restarts (CometBFT replays blocks
according to the height that `Info` reports). `PROJECT.json` lists them as
hazards, each at its line.

What makes each part correct:

* a fanned-out call returns, leaks no goroutine, never touches the closed
  channel, and reports success only when every app it asked has succeeded;
* a block reaches the apps only if all of it can be routed; each app executes
  exactly its own transactions, in order and without the header;
* the response of FinalizeBlock is a function of what the apps returned;
* a proposal is accepted only if no app objects;
* each app is initialised with its own genesis;
* what CheckTx lets into the mempool no block is refused for, it goes to the app that
  has checked it, and a query by chain id meets that app too;
* no app commits a block that another could not execute, and the apps stay level;
* a decided block is committed by all apps, or a crash makes the node stop, or it waits
  for an app for ever; it never goes on without a stop before all have committed;
* an app's committed state follows the chain across crashes;
* an app that the configuration describes in full is served under its own
  identifier, at its own address, and initialised with its own genesis;
* an exported genesis accounts for every coin and every reference, and has no
  height in it beyond the one its chain starts at.

## 2. Modules

```
Gather  <-- implemented by --  FanOut  <-- extended by --  InitChain
  ^                               ^
  |                    Routing    |                      KVStore
  |                    ^     ^    |                         ^
  |                 Relay    +-- BlockRouting               | extended by
  | instantiated by                 ^                    KVNode -- implements --> Ledger
MuxNode                             | extended by
                        ProcessProposal, FinalizeBlock         GenesisExport
```

A module `MCx` instantiates module `x` for TLC, a module `xProofs` holds its
theorems; **HandlerProofs** has those of ProcessProposal and InitChain,
**ApplicationProofs** those of KVNode and GenesisExport.

**Gather** is the abstract promise of a fanned-out call: some apps are asked,
each answers once, the caller sees one outcome, and it is a success only after
every app asked has answered without error.

**FanOut** is the concurrency skeleton the three handlers share. One behaviour
is one call. `main` is where the handler is, `gor[a]` where app `a`'s goroutine
is (`calling` the app, `answered`, `sent` its result, `done`), `chan` the
buffered channel (the app whose result is in it stands for the result), `wg`
the counter, `closer` the goroutine that waits and closes. InitChain and
FinalizeBlock raise the counter once before the loop (`upfront`),
ProcessProposal by one in each turn of it. The iteration order of a Go map is a
nondeterministic choice (`Spawn(a)`).

**Routing** is the header code over bytes. `SortChainAppIDs` is the set of
results `sort.Sort` can produce from the keys of a map, which come in any order:
that this set has one element depends on `Less` being a total order, and is not
assumed.

**BlockRouting** is the loop over the transactions with which ProcessProposal
and FinalizeBlock begin. **ProcessProposal**, **FinalizeBlock** and
**InitChain** extend it, or FanOut, and conjoin their own state to the shared
actions. In FinalizeBlock an app's nth result is the pair of the app and n; an
app may return fewer results than it was given transactions or up to
`MaxExtra` more. AppHash, validator updates and events are treated alike by the
code and are the three `Fields`. In InitChain the request objects are part of
the state, because the goroutines are all handed the same one: a handler fills
in its copy and makes the call in two steps.

**Relay** goes from the configuration file to the calls that concern one
app. `file` is the list in the file, of each app the fields that are set; viper
decodes it into the default list, which already has elements, so that a field or an
app that the file leaves out stays as the default at its place has it (`Decode`).
`stage` is where start-up is; `clients` is the map from identifiers to what is known
of each app (chain id, initial state, address, connection type); `connected` the clients
that have been started. SHA-1 is the constant
`IdOf`, which may give two chains the same identifier. After start-up the
mempool's connection (`check`, with the transaction in the caller's request as
its own variable, because CheckTx changes it) and the query connection (`query`)
run side by side. CheckTx looks for the header in a slice of eight bytes that it takes
before it knows how long the transaction is: in Go such a slice reaches into whatever
lies behind the transaction in its array, if there is room (`Behind`), and panics if there is not
(`HeaderSlice`, `HeaderFits`). `pool` is CometBFT's mempool; its entries also record
which app has seen which bytes.

**MuxNode** is the node's life: Info at the start, a Gather for FinalizeBlock,
the loop of Commit, crashes of apps and of the node at any point. It is the
place where the abstract promise pays off: FinalizeBlock appears as `Gather`,
instantiated, and not as goroutines. An app has a block it has executed and not
committed (`pending`), all it ever executed and all it has committed; the
multiplexer has connections, each lost with the app's process. Over a socket, the
default and what all the configurations in the repository say, the client has then
stopped for good; where the connection type is "grpc" (`Reconnecting`) it may connect
again, to an app that has lost the block it had open. `Reporting` are the apps that report a height in Info (SDK chains, which
refuse any block but the next); the others are key-value stores, which accept
any. Info's winner, the last in the map's order, is a nondeterministic choice.
InitChain is left out: CometBFT has it called at a start at which Info reports height 0,
also again, but it changes nothing that this module keeps.

**KVStore** is the example application: its database, the badger transaction
that stays open between FinalizeBlock and Commit, validity of a transaction over
its bytes. **KVNode** runs it with a single CometBFT node: blocks are executed a
transaction at a time, either process can crash, and as Info reports no height
every restart executes the chain from its first block. What a chain means
(`StateAt`) is defined from the blocks alone and does not use the app's
operations. A block with more entries than badger holds in one transaction
(`MaxSets`) is possible; executing it panics, like a block with a key that badger
refuses (`RefusedKeys`: empty, with badger's own prefix, or too long).

**Ledger** is what an application promises its users: a log of committed blocks
that grows one by one, and a service that answers from what the log means or does
not answer. KVNode implements it with the blocks ever committed as the log, and
the database as what is served while the node is up and has replayed the chain.

**GenesisExport** is the export of the SDK chain's genesis: appExport opens the app,
and for a start at height zero `prepForZeroHeightGenesis` rewrites its state in nine
loops or steps, one `stage` each, with `todo` as what the loop has not come to. The
state is what the code's calls change in the distribution module (outstanding
rewards, the community pool, each validator's period and the reference counts of its
historical rewards, where each delegation has started) and in the staking module
(creation heights, unbonding heights, jailing, the active set). The errors that the
code drops are modelled: a withdrawal may fail, also after it has ended the
validator's period; the calls whose errors panic may do so at any turn.

An operator whose comment begins with "Variant:" is not part of a
specification. It is a plausible slip in the code, kept beside the definition it
would replace, with which one of the properties has been seen to fail.

## 3. Runs

| run | instance | shows |
|---|---|---|
| `fanout` | FanOut, three apps, with fairness | the channel and the WaitGroup are used correctly, outcomes tell the truth; every call winds down completely unless an app is silent for ever; the error of one app is not held up by the silence of another; refinement of Gather |
| `finalize_block` | two apps whose identifiers share two bytes, all blocks of up to three transactions of six kinds (two of one app, one of the other, three unroutable) | shares, slots, join order, parameters; refinement of FanOut |
| `process_proposal` | three apps, all blocks of up to three transactions of five kinds | unanimity; refinement of FanOut |
| `proposal_unknown` | three apps, one transaction each, all three statuses | **violated**: a REJECT can be overruled |
| `init_chain` | three apps that return different mixtures of hash and validators | own genesis, complete merge; refinement of FanOut |
| `relay` | nine files of up to three apps over the two defaults (whole, in other orders, with missing fields, a missing app, a broken genesis, an unknown connection type), two chains with equal identifiers, seven transactions, three of them too short, each with five different things behind it in memory | a file's complete entries are served with their address and genesis; nothing gets into the mempool that makes a block fail; two ways to the same app |
| `mux_node` | two SDK chains, one of them over gRPC, and a key-value store, three blocks, two crashes, with fairness of the multiplexer alone | nobody commits what another could not execute; heights stay within one block; Commit finds its block or none; until it stops the node goes on only when all apps have committed, and it stops only after a crash and otherwise waits only for an app |
| `mux_missed` | one SDK chain, one key-value store, two blocks, one crash | **violated**: an app can miss a block for good |
| `kvnode` | blocks with overwritten keys, erased values, invalid transactions, keys that badger refuses, and one that is too large, chains of three, two crashes, with fairness | replay converges; commits and results are right; refinement of Ledger (queries among it); every block decided is committed unless badger refuses it |
| `kv_keyless` | three blocks, one with a transaction without a key | **violated**: a valid transaction that cannot be executed |
| `genesis_export` | two validators, three delegations, a redelegation, an unbonding delegation, any list of allowed addresses, one of them in another spelling and one malformed | no coin lost, references counted, no old height, only allowed validators active |
| `init_chain_validators` | the two chains of `TestInitChain` | **violated**: validators are announced twice |

Bounds. Three apps are the least with which an early return leaves more than
one goroutine behind and with which a REJECT can be followed by both other
statuses. Three transactions are the least with which one app's transactions
surround another's. `MaxExtra = 1` gives an app one result too many. Two
different values of the consensus parameters are enough for apps to disagree.
A call is finite and needs no
artificial bound. `MaxHeight` and `MaxCrashes` bound the chains and the crashes of
MuxNode and KVNode: three blocks let a key change twice, and let an app fall behind,
be replayed and go on; two crashes let one come in the middle of the recovery from
the other. Two SDK chains besides the store are the least for which heights can
differ and Info has a choice; with one of them behind a client that connects again, and the
other two apps behind clients that do not, both kinds of clients are there.
In Relay the two chains with one identifier come from the file and from the defaults.
`MaxSets = 2` is the least limit of badger's transactions that leaves
room for a block in which one key changes twice. In GenesisExport one validator has
two delegations, the least for which the first withdrawal ends the period that the
second is about to refer to; two coins per validator allow every split between paid,
donated and left. `LastHeight = 1` is the least height that differs from zero.

Fairness (`FanFairness`): Go runs every goroutine that can run (weak fairness
of each goroutine's steps, of the closing goroutine and of the handler). Nothing is
assumed about apps: the handlers set no deadline, so an app that keeps its connection
open and stays silent blocks the call for ever. `EveryCallWindsDown` therefore allows
for an app whose goroutine is still calling, and `ErrorsAreNotHeldUp` says that the
caller hears of an app's error even so.

`MuxFairness` of MuxNode: a block in the store gets executed, and FinalizeBlock and
Commit return when they have what they wait for. Nothing is assumed of the apps and of
CometBFT's clients, as in FanOut: the calls have no deadline and do not watch whether a
client has stopped, so that an app, or a client that has lost its app, may never answer.
Restarts are not assumed either. `DecidedBlocksAreCommitted` therefore has three
outcomes for a block that the node is about to execute: all apps commit it; the node
stops, which is possible only after a crash; or one app stays awaited for ever. It also
says that the node does not go on to the next block without a stop before every app has
committed this one (`GoesOnTogether`). It says nothing of what a restart makes of the
block: `mux_missed` shows that some apps can then miss it.

`NodeFairness` of KVNode: the app serves the calls it gets, CometBFT goes on as
long as it can, and a process that has died is started again, as the processes'
operator or supervisor does. Nothing is assumed about crashes, which the bound
ends.

Deadlock is checked in every run; a call that has wound down completely may
stutter (`Rest`), as may a node at the bound (`Stop`, `BoundReached`), a
multiplexer that has given up at start-up (`Exited`) and an export that has ended
(`Over`).

External parts are modelled as the code uses them. CometBFT stores a block before
it has it executed, executes and commits one after the other, stops when a call
fails, and after a restart continues above the height Info reports; a block that is
committed according to Info counts as committed; and the AppHash that Info reports
must be the one CometBFT knows, which with several SDK chains it is not, because
FinalizeBlock has joined theirs. Badger applies a transaction as a whole and refuses
certain keys and an entry too many. The keepers of the Cosmos SDK follow the
distribution module's own rules for periods and reference counts, with any amounts.

### Disagreements between the code and what it says of itself

* `proposal_unknown`: the comment on ProcessProposal says that it "allows
  applications to check if proposed block is valid". The code replaces a status
  of UNKNOWN by the next vote also when that UNKNOWN has replaced a REJECT
  before, so REJECT, UNKNOWN, ACCEPT in this order is an ACCEPT. With apps that
  never answer UNKNOWN (`process_proposal`) the fold is right.
* `init_chain_validators`: `TestInitChain` expects the validators of its second
  chain once each. The first response to arrive becomes the response and then
  has its own validators appended to itself. The test passes only when the other
  chain's goroutine is first.

* `kv_keyless`: the store's `isValid` is there "to ensure that the transaction
  conforms to key=value pattern". It counts the parts around "="; a transaction with
  nothing before it has two and passes, badger refuses an empty key, and
  FinalizeBlock panics. The block is in the chain by then, so that every restart
  ends there too.
* `mux_missed`: the comment on Commit says that it "sends commit to all apps". It
  does so one after the other; when the process dies in between, Info afterwards
  reports the height of one app, and if that one has committed, CometBFT takes the
  block as committed by all. `HeightsStayClose` bounds the damage for SDK chains: the
  one that is behind refuses every further block, and by
  `CommittedOnlyIfAllExecuted` no block is committed any more. The key-value store
  takes the next block and has lost the one between.

Seen while reading and not refuted by a run: CheckTx slices the header off a
transaction before it asks CheckHeader, so that one shorter than the header can panic
(`CheckPanics` in Relay; the caller recovers) instead of being refused. It is this
panic that keeps out of the mempool a short transaction with the rest of a header behind
it in memory (`MempoolFitsBlocks`). CometBFT's
recheck gets a request back from which CheckTx has taken the header; it looks for the
transaction in the request among those of its mempool, does not find it, and the
recheck removes nothing, or finds another that equals the first one's body. InitChain
appends AppHashes in the order in which the apps answer, so `HashCoversEveryApp`
holds but the hash is not the same on every validator; FinalizeBlock sorts.

A file with fewer apps than the defaults keeps the rest of the defaults, and an app
without a home or an address has that of the default at its place (`Decoded`): both are
served, in the second case with another app's genesis or by another app. `ListedAppsGetTheirGenesis` is about
apps that the file describes in full. main.go ignores the error of `node.Start`.

In the export, a validator that is jailed for not being allowed stays in the index by
power, because `SetValidator` does not touch it; when it is in the active set,
`ApplyAndReturnValidatorSetUpdates` panics on it (`UpdateValidators`). An allowed
address in capitals is accepted and then does not match its validator, whose address
is written in small letters (`MustBeJailed`). The modules to export that the caller names are
ignored. The comment before the last loop says it goes "by power descending"; it goes
by address.

## 4. Proofs

`FanOutProofs` proves for every finite set of apps, from `AppsFinite` alone:

* `FanInvariance`: `FanInv` is an invariant. `FanTypeOK` and the safety
  properties are not inductive: that the channel is closed late enough depends
  on the counter, which must equal the number of running goroutines plus those
  the loop has still to start when it was raised in advance (`WgCounts`); that a
  success is complete depends on every result being in the channel or merged,
  once (`Accounted`); both depend on the order of the handler's phases
  (`Phases`, `Started`). There is one lemma per action.
* `FanTypeCorrect`, `NoSendAfterCloseHolds`, `SendNeverBlocksHolds`,
  `OkMeansEveryoneCountedHolds`: the run's invariants as consequences. The
  buffer's size is enough because the channel lists apps without repetition and
  the app that wants to send is not yet among them (`ListBound`).
* `GatherRefinement`: every step of a call is a step of Gather or a stutter.
* `EveryStepCountsHolds` and `NeverStuckHolds`, the two halves of `EveryCallWindsDown`
  that need neither fairness nor ENABLED: every step makes a sum of what is left to do
  smaller (`StepsLeft`, at first 5 for each app and 5), and unless an app has still to
  answer, the guard of some step of the handler, a goroutine or the closer holds
  (`CanGoOn`) until the call has wound down. That the closer is not waited for by those
  it waits for follows from `WgCounts`, that no sender waits from `SendNeverBlocks`.

The theorems about FinalizeBlock are built in layers, from `AppsFinite`,
`AppsAreIdentifiers`, `BlocksAreBlocks`, `PartIsSeqs`, `NilIsNoValue` and
`MaxExtraIsNat`:

* `RoutingProofs`: a transaction is its header followed by what is stripped
  (`HeaderAndStrip`); `LessIsStrictTotalOrder`, from the four bytes; `SortIsUnique`
  and `SortExists`: in a sorted enumeration an element's position is the number of
  elements below it, so two enumerations of one set are equal; and as these numbers
  are all different, putting each element there is an enumeration.
* `BlockRoutingProofs`: lemmas on the routing loop. The invariant says that an app's
  list is as long as the number of its transactions routed so far, and that the
  transaction at position i is at its `Rank` in that list.
* `FinalizeBlockProofs`: `FinalizeImplementsFanOut` (every step is a step of FanOut
  or leaves its variables alone), through which `FanInv` is inherited;
  `FinalizeSharesHold` and `FinalizeKeepsBadBlocks`; `ResultsMatchTransactionsHolds`, from an invariant on the
  response slots (the slots of an app are the positions of its transactions, so that
  slots of different apps never meet); `JoinIsDeterministicHolds`, from `SortIsUnique`
  and the fact that the maps hold exactly what the merged apps returned;
  `ParamsComeFromTheAppsHolds`; `FinalizeTypeCorrect`.

`HandlerProofs` does the same for the other two handlers, which inherit `FanInv` in
the same way (`ProposalImplementsFanOut`, `InitImplementsFanOut`):

* ProcessProposal shares the routing, so that the apps vote on what they will execute
  (`ProposalSharesHold`, `ProposalKeepsBadBlocks`). For apps that answer ACCEPT or
  REJECT only (the theorem's hypothesis, without which `proposal_unknown` refutes it)
  the status is ACCEPT as long as all votes received are (`VotesInv`), and at a
  success every app with a transaction has been received: `AcceptIsUnanimousHolds`.
* `EachAppGetsItsGenesisHolds`, by `RequestsInv`: at any time the request of an app is
  the caller's or its own, never another's.
* `HashCoversEveryAppHolds` and `NothingLostInInitHolds`, by `ResponseInv`: the response
  is what the answers received so far make, in their order. `FlattenSeq` is a recursive
  function; the invariant speaks of the function that satisfies its equations
  (`Flattens`), which one more answer extends by one value. `ValidatorsAreLists`
  (what the apps return is a list) is the assumption this needs.

`RelayProofs`, from the assumptions on the types of the constants alone, has the
inductive invariant `RelayInv`: the map holds the apps registered so far, each under
its identifier (`MapIsRight`), the stages come in order, and a call under way agrees
with the map. That a file decoded over the defaults is a list with an element for each
of both is `DecodedIsAList`; with it and the map `ListedAppsGetTheirGenesisHolds`
follows, for every file. A slice that begins with a whole header has nothing of what lies
behind the transaction (`SliceIsHeader`), and for a transaction without a whole header
CheckTx panics at the second slice: with `HeaderAndStrip` of RoutingProofs this makes
`MempoolFitsBlocksHolds`. `QueriesMeetTheirChainHolds` (which fails if a second app may
take an identifier), `CallsAreConnectedHolds` and `RelayTypeCorrect` follow.

`MuxNodeProofs`, for every set of apps and all bounds: an answer without error is
true when it is given and stays so while the connection lives (`AnswersAreTrue`), so
that Commit concerns a block every app has executed (`AllHaveExecuted`) and holds
(`CommitFindsTheBlock`), which makes `CommittedOnlyIfAllExecuted` inductive. An SDK
chain executes only the block after its last (`NothingSkipped`); together they give
`HeightsStayClose`. A connection that is made again after an app's crash leads to an app
that has nothing open (`NothingBehindALostLink`), so that the argument holds for both
types of connections. What the loop in Commit has been to has committed the block
(`CommittedSoFar`): this gives `GoesOnTogetherHolds`, the safety half of
`DecidedBlocksAreCommitted`.

`ApplicationProofs`, first on the genesis export, for all finite sets of validators
and delegations (`ChainStateIsFinite`), all heights and coins, any failures:

* `ExportInvHolds`: the reference counts are those of the validators that have been
  initialised and the delegations that count at this stage (`CountInv`), which needs
  that a delegation refers to a period before the current one of its validator, and
  that a loop's validators have no references before their turn. `ReferencesAreCounted`
  alone is not inductive: it says nothing of the stages before the counts are deleted.
  `ExportTypeCorrect`, in which no count becomes negative, and
  `ReferencesAreCountedHolds` follow. `PeriodsSufficeHolds` says that the periods the
  model has counts for are never left, so that this bound cuts nothing off.
* `NoHeightFromTheFutureHolds`, by `HeightsInv`: what a loop has been through is at
  height zero, and the two loops whose hooks write the context's height run while that
  is zero.
* `OnlyAllowedAreActiveHolds`, by `JailInv`: who must be jailed is, once the loop has
  come to him, and nobody jailed stays active when the set is updated.
* `NoCoinIsLostHolds`, an action property: a step that changes one validator's rewards
  changes the sum by the difference (`SumOneChanged`).

Then on the key-value store and its node, for all blocks and bounds:

* `NodeInvHolds`: `NodeTypeOK`, `ReplayConverges` and `BlockOpen`, which says that while
  a block is executed the open transaction is the one its executed part makes
  (`EntriesOf`). With it Commit turns the state of a chain into the state of the chain
  with one block more (`MeaningOneMore`), and replaying an old block adds no key that the
  newest state does not have (`KeysStay`). `NodeTypeCorrect`, `ReplayConvergesHolds`,
  `CommitIsPossibleHolds` and `OneResultPerTxHolds` follow; that an accepted transaction
  splits into a key and a value (`isValid`) is part of the type invariant.
* `StoreImplementsLedger`: every step is a step of Ledger or a stutter.

These proofs need induction: over a sequence, for what folding it or flattening it
returns, and over a set, for its sum. The provers cannot instantiate an induction rule
that has an operator as its parameter. `InductionOnNat` gets round it with the numbers
that have the property as a set, and follows from the library's `WFMin`, that a set of
numbers has a least element. That a recursive function is defined at all, satisfies its
equation and is the only one to do so is proved with it for the two that the models use,
`FlattenSeq` and the fold under `SumFunction`.

Only model-checked: liveness under fairness (`EveryCallWindsDown`,
`ErrorsAreNotHeldUp`, that of `DecidedBlocksAreCommitted`, `EveryBlockIsCommitted`), which the
prover's temporal backend cannot derive because it does not treat ENABLED. Every
invariant, action property and refinement that a run checks is stated by a theorem
too. `FanInv` with its part `ErrMeansAnAppFailed`, and `CallsAreConnected`, have been
checked by TLC too, but are no part of a run: the theorems and the refinement of Gather
say as much. ProcessProposal and InitChain have no type invariant of their own in a run:
their goroutines' state has its types by the refinement of FanOut and `FanTypeCorrect`.
The shares that ProcessProposal sends are those of BlockRouting, which `finalize_block`
checks.

## 5. Not modelled, and the plan

What could still be proved: that a node of KVNode and a multiplexer of MuxNode are
never stuck short of their bounds, as `NeverStuckHolds` says of a call.

Not modelled, and why:

* PrepareProposal, snapshot and vote extension calls of the multiplexer: they return
  their input or an empty response and keep no state.
* In GenesisExport, keepers that fail after they have changed coins: an error of a
  withdrawal may come before or after the end of the validator's period, which is the
  part of it that stays. The update of the active set meets those who were in it, as
  nothing in the export changes their order by power.
* CometBFT's recheck of its mempool, and what runs of a node whose `Start` has failed:
  both are inside CometBFT, and the repository says nothing about what they should do.
* The wiring of the SDK chain and its command line (`app.go`, `root.go`): declarations
  for the Cosmos SDK, which keeps the state and the control.
* The end-to-end test harness: test code that starts processes and sleeps until they
  are up; no property of the program depends on it.
* The generated mock, logging, and the Cosmos SDK's and CometBFT's own code.
