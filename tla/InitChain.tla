----------------------------- MODULE InitChain -----------------------------
(***************************************************************************)
(* CometMux.InitChain: every app is initialised with its own chain id and  *)
(* genesis state, and the responses are merged in the order in which they  *)
(* arrive, into the first of them.                                         *)
(***************************************************************************)
EXTENDS FanOut

CONSTANTS
  Caller,          \* the request object CometBFT passes in
  Genesis,         \* Genesis[x]: chain id and app state of app x, or of the Caller
  AppHashOf,       \* AppHashOf[a]: the AppHash app a returns (bytes)
  ValidatorsOf,    \* ValidatorsOf[a]: the validators app a returns
  Params,          \* values of ConsensusParams
  NoParams         \* nil

ASSUME CallerIsNoApp == Caller \notin Apps
ASSUME GenesisDomain == DOMAIN Genesis = Apps \cup {Caller}
ASSUME NilIsNoParams == NoParams \notin Params
ASSUME ValidatorsAreLists ==
  ValidatorsOf \in [Apps -> Seq(UNION {ToSet(ValidatorsOf[a]) : a \in Apps})]

VARIABLES
  requests,        \* the request objects: the caller's and the handlers' copies
  prepared,        \* apps whose handler has filled in its request
  delivered,       \* the request each app received, once it did
  offered,         \* the ConsensusParams each app answered with
  response         \* the merged response: nil (no app) or the first one, extended

initVars == <<requests, prepared, delivered, offered, response, fanVars>>

NilResponse == [first |-> Caller, appHash |-> <<>>, params |-> NoParams, validators |-> <<>>]

InitChainInit ==
  /\ FanInit
  /\ requests = [x \in Apps \cup {Caller} |-> Genesis[Caller]]
  /\ prepared = {}
  /\ delivered = [a \in Apps |-> Genesis[Caller]]
  /\ offered = [a \in Apps |-> NoParams]
  /\ response = NilResponse

-----------------------------------------------------------------------------
DispatchInit ==
  /\ Dispatch(Apps, TRUE)
  /\ UNCHANGED <<requests, prepared, delivered, offered, response>>

\* Variant: the handlers write into the request they are given (req := chain).
SharedRequest(a) == Caller

\* The request object a's handler works on: req := *chain makes it one of its own.
RequestOf(a) == a

\* AbciHandler.InitChain, up to the call: it writes the app's chain id and state.
PrepareRequest(a) ==
  /\ gor[a] = "calling"
  /\ a \notin prepared
  /\ requests' = [requests EXCEPT ![RequestOf(a)] = Genesis[a]]
  /\ prepared' = prepared \cup {a}
  /\ UNCHANGED <<delivered, offered, response, fanVars>>

\* The call itself: the app is initialised from the request as it then is.
AppInits(a, p) ==
  /\ a \in prepared
  /\ Answer(a, "ok")
  /\ delivered' = [delivered EXCEPT ![a] = requests[RequestOf(a)]]
  /\ offered' = [offered EXCEPT ![a] = p]
  /\ UNCHANGED <<requests, prepared, response>>

AppFailsInit(a) ==
  /\ a \in prepared
  /\ Answer(a, "err")
  /\ UNCHANGED <<requests, prepared, delivered, offered, response>>

IsNil(r) == r.first = Caller

\* Variant: a later AppHash replaces the ones before it.
LastHash(r, a) == AppHashOf[a]

\* The AppHash of the response after that of app a has come in.
MergedHash(r, a) == IF IsNil(r) THEN AppHashOf[a] ELSE r.appHash \o AppHashOf[a]

\* Variant: only the last app's validators are kept.
LastValidators(r, a) == ValidatorsOf[a]

\* The validators of app a are appended, also to themselves: the first response
\* has by then become the response.
MergedValidators(r, a) ==
  (IF IsNil(r) THEN ValidatorsOf[a] ELSE r.validators) \o ValidatorsOf[a]

\* One turn of the loop over the channel.  The last consensus parameters that are
\* set win.
MergeInit(r, a, p) ==
  [first |-> IF IsNil(r) THEN a ELSE r.first,
   appHash |-> MergedHash(r, a),
   params |-> IF p # NoParams THEN p ELSE r.params,
   validators |-> MergedValidators(r, a)]

MergeInitResponse ==
  /\ ReceiveOk
  /\ response' = MergeInit(response, Head(chan), offered[Head(chan)])
  /\ UNCHANGED <<requests, prepared, delivered, offered>>

\* Variant: an app's error is logged and the others' responses are used.
SkipFailedInit ==
  /\ main = "collecting"
  /\ chan # <<>>
  /\ answer[Head(chan)] = "err"
  /\ chan' = Tail(chan)
  /\ UNCHANGED <<main, asked, todo, upfront, gor, answer, closer, wg, received>>
  /\ UNCHANGED <<requests, prepared, delivered, offered, response>>

FailOnInit == ReceiveErr /\ UNCHANGED <<requests, prepared, delivered, offered, response>>

ReturnInit == Finish /\ UNCHANGED <<requests, prepared, delivered, offered, response>>

InitFanOutAlone ==
  /\ (\E a \in Apps : Spawn(a)) \/ StartCloser \/ GoroutineStep \/ Rest
  /\ UNCHANGED <<requests, prepared, delivered, offered, response>>

InitChainNext ==
  \/ DispatchInit
  \/ \E a \in Apps : PrepareRequest(a)
  \/ \E a \in Apps, p \in Params \cup {NoParams} : AppInits(a, p)
  \/ \E a \in Apps : AppFailsInit(a)
  \/ MergeInitResponse
  \/ FailOnInit
  \/ ReturnInit
  \/ InitFanOutAlone

InitChainSpec == InitChainInit /\ [][InitChainNext]_initVars

-----------------------------------------------------------------------------
(***************************************************************************)
(* Properties.                                                             *)
(***************************************************************************)

\* No app is initialised with the genesis of another, or with the caller's, while
\* the handlers fill in and send their requests side by side.
EachAppGetsItsGenesis ==
  \A a \in Apps : answer[a] = "ok" => delivered[a] = Genesis[a]

\* The AppHash that InitChain returns is made of the AppHash of every app, each
\* exactly once (in the order in which they arrived).
HashCoversEveryApp ==
  main = "ok" =>
    \E keys \in SetToSeqs(Apps) :
      response.appHash = FlattenSeq([i \in 1..Len(keys) |-> AppHashOf[keys[i]]])

\* No validator is announced that no app announced, none is lost, and the
\* parameters are lost only if no app sets any.
NothingLostInInit ==
  main = "ok" =>
    /\ ToSet(response.validators) = UNION {ToSet(ValidatorsOf[a]) : a \in Apps}
    /\ LET said == {offered[a] : a \in Apps} \ {NoParams}
       IN IF said = {} THEN response.params = NoParams ELSE response.params \in said

\* InitChain announces every validator an app announces once.
ValidatorsListedOnce ==
  main = "ok" =>
    \A i, j \in 1..Len(response.validators) :
      response.validators[i] = response.validators[j] => i = j
=============================================================================
