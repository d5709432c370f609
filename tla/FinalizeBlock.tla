--------------------------- MODULE FinalizeBlock ---------------------------
(***************************************************************************)
(* CometMux.FinalizeBlock: the transactions of a block are sorted by their *)
(* headers, every app executes its own share (also an empty one), and the  *)
(* shares' results are put back where the transactions stood in the block. *)
(* The other parts of the responses are kept per app and joined in the     *)
(* order of the app identifiers.                                           *)
(***************************************************************************)
EXTENDS BlockRouting

CONSTANTS
  Part,            \* Part[a][f]: what app a returns in field f of Fields
  Params,          \* values of ConsensusParamUpdates
  NoParams,        \* nil: the app leaves the consensus parameters alone
  NoResult,        \* nil: an entry of TxResults that was never filled in
  MaxExtra         \* results an app may return beyond its transactions

\* The fields that are joined in the order of the identifiers.
Fields == {"AppHash", "ValidatorUpdates", "Events"}

\* An app's nth result: its value is that of the app's nth transaction.
Result == [app : Apps, nth : Nat \ {0}]

ASSUME PartIsSeqs ==
  \A a \in Apps : DOMAIN Part[a] = Fields /\ \A f \in Fields : Part[a][f] \in Seq(Byte)
ASSUME NilIsNoValue == NoParams \notin Params /\ NoResult \notin Result
ASSUME MaxExtraIsNat == MaxExtra \in Nat

VARIABLES
  responseSlots,   \* where each of an app's transactions stands in the block
  reply,           \* what each app answered: number of results, parameters
  txResults,       \* response.TxResults
  params,          \* response.ConsensusParamUpdates
  kept,            \* appHashes, validatorUpdates, events: one key per app heard
  merged           \* the joined fields of the response

responseVars == <<txResults, params, kept, merged>>
finalizeVars == <<blockVars, responseSlots, reply, responseVars, fanVars>>

NoReply == [results |-> 0, params |-> NoParams]

FinalizeInit ==
  /\ RoutingInit
  /\ responseSlots = [a \in Apps |-> <<>>]
  /\ reply = [a \in Apps |-> NoReply]
  /\ txResults = [i \in 1..Len(block) |-> NoResult]
  /\ params = NoParams
  /\ kept = [a \in {} |-> Part[a]]
  /\ merged = [f \in Fields |-> <<>>]

-----------------------------------------------------------------------------
\* Variant: the slots are the transactions' places counted from zero.
RouteFromZero ==
  /\ RouteTx
  /\ responseSlots' =
       [responseSlots EXCEPT ![HeaderId(block[idx + 1])] = Append(@, idx)]
  /\ UNCHANGED <<reply, responseVars>>

\* One turn of the routing loop; it also notes where the transaction stands.
RouteFinalizeTx ==
  /\ RouteTx
  /\ responseSlots' =
       [responseSlots EXCEPT ![HeaderId(block[idx + 1])] = Append(@, idx + 1)]
  /\ UNCHANGED <<reply, responseVars>>

RefuseFinalize ==
  /\ RefuseBlock
  /\ UNCHANGED <<responseSlots, reply, responseVars>>

\* Variant: only apps with transactions are asked, and all are waited for.
DispatchBusy ==
  /\ idx = Len(block)
  /\ Dispatch({a \in Apps : handlerTxs[a] # <<>>}, TRUE)
  /\ UNCHANGED <<blockVars, responseSlots, reply, responseVars>>

\* Every app is asked, whether the block has transactions for it or not.
DispatchAll ==
  /\ idx = Len(block)
  /\ Dispatch(Apps, TRUE)
  /\ UNCHANGED <<blockVars, responseSlots, reply, responseVars>>

\* An app executes its share.  It should return one result per transaction;
\* nothing on this side of the socket makes it do so.
AppFinalizes(a, n, p) ==
  /\ Answer(a, "ok")
  /\ n \in 0..(Len(handlerTxs[a]) + MaxExtra)
  /\ reply' = [reply EXCEPT ![a] = [results |-> n, params |-> p]]
  /\ UNCHANGED <<blockVars, responseSlots, responseVars>>

AppFails(a) ==
  /\ Answer(a, "err")
  /\ UNCHANGED <<blockVars, responseSlots, reply, responseVars>>

\* Variant: the results go to the first places of the response.
PlaceFirst(results, a, slots, n) ==
  [i \in DOMAIN results |->
     IF i \in 1..n /\ i <= Len(slots) THEN [app |-> a, nth |-> i] ELSE results[i]]

\* The n results of app a go to the app's slots; those without a slot are dropped.
PlaceResults(results, a, slots, n) ==
  [i \in DOMAIN results |->
     IF \E k \in 1..n : k <= Len(slots) /\ slots[k] = i
     THEN [app |-> a, nth |-> CHOOSE k \in 1..n : k <= Len(slots) /\ slots[k] = i]
     ELSE results[i]]

\* Variant: the parameters are taken over also when the app sets none.
MergeLastParams ==
  LET a == Head(chan)
  IN /\ ReceiveOk
     /\ txResults' = PlaceResults(txResults, a, responseSlots[a], reply[a].results)
     /\ params' = reply[a].params
     /\ kept' = [b \in DOMAIN kept \cup {a} |-> IF b = a THEN Part[a] ELSE kept[b]]
     /\ UNCHANGED <<blockVars, responseSlots, reply, merged>>

\* One turn of the loop over the channel.
MergeReply ==
  LET a == Head(chan)
  IN /\ ReceiveOk
     /\ txResults' = PlaceResults(txResults, a, responseSlots[a], reply[a].results)
     /\ params' = IF params = NoParams THEN reply[a].params ELSE params
     /\ kept' = [b \in DOMAIN kept \cup {a} |-> IF b = a THEN Part[a] ELSE kept[b]]
     /\ UNCHANGED <<blockVars, responseSlots, reply, merged>>

FailOnReply ==
  /\ ReceiveErr
  /\ UNCHANGED <<blockVars, responseSlots, reply, responseVars>>

\* Join field f of the given parts in the order of keys.
Join(parts, keys, f) == FlattenSeq([i \in 1..Len(keys) |-> parts[keys[i]][f]])

\* The loop has ended: sort, join and return.
FinishBlock ==
  /\ Finish
  /\ \E keys \in SortChainAppIDs(DOMAIN kept) :
       merged' = [f \in Fields |-> Join(kept, keys, f)]
  /\ UNCHANGED <<blockVars, responseSlots, reply, txResults, params, kept>>

FanOutAlone ==
  /\ (\E a \in Apps : Spawn(a)) \/ StartCloser \/ GoroutineStep \/ Rest
  /\ UNCHANGED <<blockVars, responseSlots, reply, responseVars>>

FinalizeNext ==
  \/ RouteFinalizeTx
  \/ RefuseFinalize
  \/ DispatchAll
  \/ \E a \in Apps, p \in Params \cup {NoParams} :
       \E n \in 0..(Len(handlerTxs[a]) + MaxExtra) : AppFinalizes(a, n, p)
  \/ \E a \in Apps : AppFails(a)
  \/ MergeReply
  \/ FailOnReply
  \/ FinishBlock
  \/ FanOutAlone

FinalizeSpec == FinalizeInit /\ [][FinalizeNext]_finalizeVars

-----------------------------------------------------------------------------
(***************************************************************************)
(* Properties.                                                             *)
(***************************************************************************)

\* The variables have their types.
FinalizeTypeOK ==
  /\ RoutingTypeOK
  /\ responseSlots \in [Apps -> Seq(1..Len(block))]
  /\ reply \in [Apps -> [results : Nat, params : Params \cup {NoParams}]]
  /\ txResults \in [1..Len(block) -> Result \cup {NoResult}]
  /\ params \in Params \cup {NoParams}
  /\ kept = [a \in DOMAIN kept |-> Part[a]] /\ DOMAIN kept \subseteq Apps
  /\ DOMAIN merged = Fields

\* The result at position i of the response is the one the right app returned
\* for exactly that transaction, however the results come in, and a position
\* stays empty only if its app returned too few.
ResultsMatchTransactions ==
  main = "ok" =>
    \A i \in 1..Len(block) :
      LET a == HeaderId(block[i])
      IN txResults[i] = IF Rank(i) <= reply[a].results
                        THEN [app |-> a, nth |-> Rank(i)]
                        ELSE NoResult

\* The joined AppHash, validator updates and events depend only on what the apps
\* returned, neither on the order in which that came in nor on the order in which
\* a map was read before it was sorted: every validator computes the same.
JoinIsDeterministic ==
  main = "ok" =>
    \A keys \in SortChainAppIDs(Apps), f \in Fields : merged[f] = Join(Part, keys, f)

\* Consensus parameters some app sets are not lost, and none are invented; when
\* the apps agree, as the code assumes, the response says what they say.
ParamsComeFromTheApps ==
  main = "ok" =>
    LET said == {reply[a].params : a \in Apps} \ {NoParams}
    IN IF said = {} THEN params = NoParams ELSE params \in said
=============================================================================
