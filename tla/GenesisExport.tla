---------------------------- MODULE GenesisExport ----------------------------
(***************************************************************************)
(* The export of an SDK chain's genesis: appExport of the command line     *)
(* opens the app at a height, and ExportAppStateAndValidators writes its   *)
(* state, for a start at height zero after rewriting it step by step.      *)
(*                                                                         *)
(* The keepers of the Cosmos SDK are external.  The distribution module    *)
(* pays rewards by periods: a delegation has the period and the height it  *)
(* started at, and a validator's historical rewards are kept, with a count *)
(* of references, while a delegation has started at them or they are the   *)
(* newest.  The coins it holds are the validators' outstanding rewards and *)
(* the community pool.  The app has no slashing module, so that there are  *)
(* no slash events to clear.                                               *)
(***************************************************************************)
EXTENDS Integers, Sequences, FiniteSets, FiniteSetsExt

CONSTANTS
  Validators,
  Delegations,
  ValidatorOf,     \* the validator of each delegation
  Redelegations,
  Unbondings,
  Names,           \* strings that may be given as allowed addresses
  AddressOf,       \* the validator address each spells, or NoAddress
  NameOf,          \* the string that an address is written as
  NoAddress,
  StartedAt,       \* the period, of two, at which each delegation has last started
  LastHeight,      \* the height the app is opened at
  Coins            \* a validator's outstanding rewards, the commission included

ASSUME ChainStateIsFinite == IsFiniteSet(Validators) /\ IsFiniteSet(Delegations)
ASSUME DelegationsHaveValidators == ValidatorOf \in [Delegations -> Validators]
ASSUME NamesSpellAddresses == AddressOf \in [Names -> Validators \cup {NoAddress}]
ASSUME AddressesAreWritten ==
  NameOf \in [Validators -> Names] /\ \A v \in Validators : AddressOf[NameOf[v]] = v
ASSUME StartedAtPeriods == StartedAt \in [Delegations -> {0, 1}]
ASSUME HeightAndCoins == LastHeight \in Nat \ {0} /\ Coins \in Nat

VARIABLES
  stage,           \* where the export is: see Stages
  todo,            \* what the current loop has not come to
  zero,            \* forZeroHeight
  allowed,         \* jailAllowedAddrs
  ctxHeight,       \* the height in ctx
  height,          \* the height of the exported genesis
  outstanding,     \* a validator's outstanding rewards
  pool,            \* the community pool
  paid,            \* coins sent from the distribution module to accounts
  refs,            \* historical rewards: references to a validator's periods
  period,          \* a validator's current period
  start,           \* period and height at which a delegation has started
  created,         \* creation heights of the entries of (re-)delegations
  unbonding,       \* a validator's unbonding height
  jailed,          \* the validators that are jailed
  bonded,          \* those in the active set
  skipped          \* the iterator could not be closed, which is only logged

coins == <<outstanding, pool, paid>>
periods == <<refs, period, start>>
staking == <<created, unbonding, jailed, bonded>>
params == <<zero, allowed>>
exportVars ==
  <<stage, todo, params, ctxHeight, height, coins, periods, staking, skipped>>

Preparing ==
  {"addresses", "commission", "rewards", "validators", "delegations", "redelegations",
   "unbondings", "jailing", "updating"}
Ended == {"exported", "failed", "exited", "panicked"}
Stages == Preparing \cup Ended \cup {"opening", "built", "opened", "writing"}

Periods == 0..(Cardinality(Delegations) + 2)
Of(v) == {d \in Delegations : ValidatorOf[d] = v}

\* References to period p of v: by the delegations in D that have started there and,
\* if it is the newest one that has ended, by the validator.
References(v, p, D) ==
  Cardinality({d \in Of(v) \cap D : start[d].period = p})
    + (IF p = period[v] - 1 THEN 1 ELSE 0)

-----------------------------------------------------------------------------
\* The chain after its last block: every validator is in its third period, delegations
\* have started at one of the two before, and no jailed validator is in the active set.
ExportInit ==
  /\ stage = "opening"
  /\ todo = {}
  /\ zero \in BOOLEAN
  /\ allowed \in SUBSET Names
  /\ ctxHeight = LastHeight
  /\ height = 0
  /\ outstanding = [v \in Validators |-> Coins]
  /\ pool = 0
  /\ paid = 0
  /\ period = [v \in Validators |-> 2]
  /\ start = [d \in Delegations |-> [period |-> StartedAt[d], height |-> LastHeight]]
  /\ refs = [v \in Validators |-> [p \in Periods |-> References(v, p, Delegations)]]
  /\ created = [x \in Redelegations \cup Unbondings |-> <<LastHeight, LastHeight>>]
  /\ jailed \in SUBSET Validators
  /\ bonded \in SUBSET (Validators \ jailed)
  /\ unbonding = [v \in Validators |-> IF v \in bonded THEN 0 ELSE LastHeight]
  /\ skipped = FALSE

-----------------------------------------------------------------------------
\* The export gets from one of the stages in from to the stage to, and no further.
Go(from, to) ==
  /\ stage \in from
  /\ stage' = to
  /\ UNCHANGED <<todo, params, ctxHeight, height, coins, periods, staking, skipped>>

(***************************************************************************)
(* appExport, NewMiniApp and the two ends of ExportAppStateAndValidators.  *)
(***************************************************************************)

\* The options are as they must be, and the modules are wired and given their stores.
NewMiniApp == Go({"opening"}, "built")

\* The stores are loaded, at the latest height or the one asked for.
Open == Go({"built"}, "opened")

\* An error is returned: no home, other options, an app that cannot be built, a height
\* that cannot be loaded, or in the end a genesis that cannot be written.
Fail == Go({"opening", "built", "writing"}, "failed")

Begin ==
  /\ stage = "opened"
  /\ stage' = IF zero THEN "addresses" ELSE "writing"
  /\ height' = IF zero THEN 0 ELSE LastHeight + 1
  /\ UNCHANGED <<todo, params, ctxHeight, coins, periods, staking, skipped>>

WriteGenesis == Go({"writing"}, "exported")

-----------------------------------------------------------------------------
(***************************************************************************)
(* prepForZeroHeightGenesis: one loop after the other.                     *)
(***************************************************************************)

\* The loop of this stage is over and the next one begins, over S.
NextLoop(from, to, S) ==
  /\ stage = from
  /\ todo = {}
  /\ stage' = to
  /\ todo' = S

\* One turn of the loop of stage s.
Turn(s, x) ==
  /\ stage = s
  /\ x \in todo
  /\ todo' = todo \ {x}
  /\ UNCHANGED stage

\* The loops that end without more than that.
LoopEnds ==
  /\ \/ NextLoop("commission", "rewards", Delegations)
     \/ NextLoop("validators", "delegations", Delegations)
     \/ NextLoop("redelegations", "unbondings", Unbondings)
     \/ NextLoop("unbondings", "jailing", Validators)
     \/ NextLoop("jailing", "updating", {})
  /\ UNCHANGED <<params, ctxHeight, height, coins, periods, staking, skipped>>

AddressesAreValid ==
  /\ \A n \in allowed : AddressOf[n] # NoAddress
  /\ NextLoop("addresses", "commission", Validators)
  /\ UNCHANGED <<params, ctxHeight, height, coins, periods, staking, skipped>>

\* log.Fatal
BadAddress ==
  /\ \E n \in allowed : AddressOf[n] = NoAddress
  /\ Go({"addresses"}, "exited")

\* Any of the keepers' calls whose errors are not ignored: a panic.
StoreFails ==
  Go({"commission", "rewards", "validators", "delegations", "jailing"}, "panicked")

Pay(v, c, dust) ==
  /\ outstanding' = [outstanding EXCEPT ![v] = @ - c - dust]
  /\ paid' = paid + c
  /\ pool' = pool + dust

\* Whole coins are paid and what is left of them stays outstanding; an error, such as
\* that there is no commission, is ignored.
WithdrawCommission(v) ==
  /\ Turn("commission", v)
  /\ \E c \in 0..outstanding[v] : Pay(v, c, 0)
  /\ UNCHANGED <<params, ctxHeight, height, periods, staking, skipped>>

\* v's current period ends: the one before loses the validator's reference.
EndPeriod(r, v) == [r EXCEPT ![period[v] - 1] = @ - 1, ![period[v]] = 1]

\* Delegation d starts at the period that has just ended.
StartAgain(d, r, v) ==
  /\ refs' = [refs EXCEPT ![v] = [r EXCEPT ![period[v]] = @ + 1]]
  /\ period' = [period EXCEPT ![v] = @ + 1]
  /\ start' = [start EXCEPT ![d] = [period |-> period[v], height |-> ctxHeight]]

\* Whole coins are paid and what is left of them goes to the community pool.
WithdrawRewards(d) ==
  LET v == ValidatorOf[d]
      ended == EndPeriod(refs[v], v)
  IN /\ Turn("rewards", d)
     /\ \E c \in 0..outstanding[v] : \E dust \in 0..(outstanding[v] - c) : Pay(v, c, dust)
     /\ StartAgain(d, [ended EXCEPT ![start[d].period] = @ - 1], v)
     /\ UNCHANGED <<params, ctxHeight, height, staking, skipped>>

\* The error is ignored, before or after the validator's period has been ended.
RewardsFail(d) ==
  LET v == ValidatorOf[d]
  IN /\ Turn("rewards", d)
     /\ \/ UNCHANGED <<refs, period>>
        \/ /\ refs' = [refs EXCEPT ![v] = EndPeriod(@, v)]
           /\ period' = [period EXCEPT ![v] = @ + 1]
     /\ UNCHANGED <<params, ctxHeight, height, coins, start, staking, skipped>>

NoReferences == [p \in Periods |-> 0]

\* Variant: the historical rewards stay.
KeepHistory == refs

\* DeleteAllValidatorHistoricalRewards
ClearedHistory == [v \in Validators |-> NoReferences]

\* Variant: the context that WithBlockHeight returns is not kept.
SameHeight == ctxHeight

\* The height of ctx while validators and delegations are initialised again.
InitialHeight == 0

RewardsWithdrawn ==
  /\ NextLoop("rewards", "validators", Validators)
  /\ refs' = ClearedHistory
  /\ ctxHeight' = InitialHeight
  /\ UNCHANGED <<params, height, coins, period, start, staking, skipped>>

\* Variant: the scraps are read after the hook.
DonateNothing(v) == 0

\* What nobody has withdrawn.
Scraps(v) == outstanding[v]

\* Variant: the hook is not called.
DonateOnly(v) ==
  /\ Turn("validators", v)
  /\ pool' = pool + Scraps(v)
  /\ outstanding' = [outstanding EXCEPT ![v] = 0]
  /\ UNCHANGED <<params, ctxHeight, height, paid, periods, staking, skipped>>

\* The scraps go to the community pool, and the hook makes the validator a new one.
ReinitValidator(v) ==
  /\ Turn("validators", v)
  /\ pool' = pool + Scraps(v)
  /\ outstanding' = [outstanding EXCEPT ![v] = 0]
  /\ refs' = [refs EXCEPT ![v] = [@ EXCEPT ![0] = 1]]
  /\ period' = [period EXCEPT ![v] = 1]
  /\ UNCHANGED <<params, ctxHeight, height, paid, start, staking, skipped>>

\* BeforeDelegationCreated ends the validator's period, AfterDelegationModified starts
\* the delegation there.
ReinitDelegation(d) ==
  LET v == ValidatorOf[d]
  IN /\ Turn("delegations", d)
     /\ StartAgain(d, EndPeriod(refs[v], v), v)
     /\ UNCHANGED <<params, ctxHeight, height, coins, staking, skipped>>

DelegationsReinitialised ==
  /\ NextLoop("delegations", "redelegations", Redelegations)
  /\ ctxHeight' = LastHeight
  /\ UNCHANGED <<params, height, coins, periods, staking, skipped>>

\* Every entry has its creation height reset.
ResetEntries(heights) == [i \in DOMAIN heights |-> 0]

ResetCreation(s, x) ==
  /\ Turn(s, x)
  /\ created' = [created EXCEPT ![x] = ResetEntries(@)]
  /\ UNCHANGED <<params, ctxHeight, height, coins, periods, unbonding, jailed, bonded,
                 skipped>>

\* Variant: the jailed validator is not stored.
JailNobody(v) == FALSE

\* There is a list and it does not have the address as it is written.
MustBeJailed(v) == allowed # {} /\ NameOf[v] \notin allowed

ResetValidator(v) ==
  /\ Turn("jailing", v)
  /\ unbonding' = [unbonding EXCEPT ![v] = 0]
  /\ jailed' = IF MustBeJailed(v) THEN jailed \cup {v} ELSE jailed
  /\ UNCHANGED <<params, ctxHeight, height, coins, periods, created, bonded, skipped>>

\* The iterator cannot be closed: logged, and the export goes on without the update.
CloseFails ==
  /\ NextLoop("jailing", "writing", {})
  /\ skipped' = TRUE
  /\ UNCHANGED <<params, ctxHeight, height, coins, periods, staking>>

\* ApplyAndReturnValidatorSetUpdates: it goes through the index by power as far as the
\* active set is large.  The export has changed nobody's power and nothing in the index,
\* so that it meets those who were active at the end of the last block and changes
\* nobody's status.  It panics when it meets a jailed validator, which SetValidator has
\* left in the index.
UpdateValidators == Go({"updating"}, IF bonded \cap jailed = {} THEN "writing" ELSE "panicked")

\* log.Fatal
UpdateFails == Go({"updating"}, "exited")

Over == stage \in Ended /\ UNCHANGED exportVars

ExportNext ==
  \/ NewMiniApp \/ Open \/ Fail \/ Begin \/ WriteGenesis
  \/ AddressesAreValid \/ BadAddress
  \/ \E v \in Validators : WithdrawCommission(v) \/ ReinitValidator(v) \/ ResetValidator(v)
  \/ \E d \in Delegations : WithdrawRewards(d) \/ RewardsFail(d) \/ ReinitDelegation(d)
  \/ \E r \in Redelegations : ResetCreation("redelegations", r)
  \/ \E u \in Unbondings : ResetCreation("unbondings", u)
  \/ LoopEnds \/ RewardsWithdrawn \/ DelegationsReinitialised
  \/ CloseFails \/ UpdateValidators \/ UpdateFails \/ StoreFails
  \/ Over

ExportSpec == ExportInit /\ [][ExportNext]_exportVars

-----------------------------------------------------------------------------
(***************************************************************************)
(* Properties.                                                             *)
(***************************************************************************)

Heights == 0..LastHeight

\* The variables have their types; no reference count becomes negative, which would
\* be a panic of the keeper.
ExportTypeOK ==
  /\ stage \in Stages
  /\ todo \subseteq Validators \cup Delegations \cup Redelegations \cup Unbondings
  /\ zero \in BOOLEAN /\ allowed \subseteq Names
  /\ ctxHeight \in Heights /\ height \in 0..(LastHeight + 1)
  /\ outstanding \in [Validators -> Nat] /\ pool \in Nat /\ paid \in Nat
  /\ refs \in [Validators -> [Periods -> Nat]]
  /\ period \in [Validators -> Nat \ {0}]
  /\ start \in [Delegations -> [period : Nat, height : Heights]]
  /\ created \in [Redelegations \cup Unbondings -> Seq(Heights)]
  /\ unbonding \in [Validators -> Heights]
  /\ jailed \subseteq Validators /\ bonded \subseteq Validators
  /\ skipped \in BOOLEAN

\* The distribution module never holds more or fewer coins than it accounts for,
\* whatever could not be withdrawn: a chain that starts from the genesis refuses one
\* whose rewards and pool do not add up to the module's balance.
NoCoinIsLost ==
  [][SumFunction(outstanding)' + pool' + paid' = SumFunction(outstanding) + pool + paid]_exportVars

\* The reference counts of the historical rewards are what delegations and
\* validators account for, although withdrawals may have failed and all records
\* are deleted and made anew: the module's own invariant on the next chain.
\* Until they are initialised again validators and delegations have no references.
ReferencesAreCounted ==
  stage \in Preparing \cup {"exported"} =>
    \A v \in Validators \ (IF stage = "validators" THEN todo ELSE {}), p \in Periods :
      refs[v][p] =
        References(v, p, CASE stage = "validators" -> {}
                           [] stage = "delegations" -> Delegations \ todo
                           [] OTHER -> Delegations)

\* A genesis has no height in it beyond the one its chain starts at: at height zero
\* every delegation, entry and validator has been reset, also those that were
\* written while ctx had another height.
NoHeightFromTheFuture ==
  stage = "exported" =>
    /\ \A d \in Delegations : start[d].height <= height
    /\ \A x \in DOMAIN created : \A i \in DOMAIN created[x] : created[x][i] <= height
    /\ \A v \in Validators : unbonding[v] <= height

\* With a list of allowed addresses no other validator is in the active set of the
\* genesis that is written, unless the set could not be updated.
OnlyAllowedAreActive ==
  stage = "exported" /\ zero /\ allowed # {} /\ ~skipped =>
    \A v \in bonded : NameOf[v] \in allowed
=============================================================================
