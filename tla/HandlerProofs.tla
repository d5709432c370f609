--------------------------- MODULE HandlerProofs ---------------------------
(***************************************************************************)
(* ProcessProposal and InitChain for every finite set of apps, all blocks, *)
(* genesis states and answers.  Both are calls of FanOut, whose invariant  *)
(* they inherit; what they fold the answers into is then known from the    *)
(* answers received so far, in whatever order they arrived.                *)
(***************************************************************************)
EXTENDS ProcessProposal, InitChain, BlockRoutingProofs

(***************************************************************************)
(* ProcessProposal.                                                        *)
(***************************************************************************)

\* Every step of ProcessProposal is one of the fan-out or does not concern it.
LEMMA ProposalFanStep ==
  [ProposalNext]_proposalVars => [FanNext \/ Rest]_fanVars
<1> SUFFICES ASSUME [ProposalNext]_proposalVars PROVE [FanNext \/ Rest]_fanVars
  OBVIOUS
<1>1. CASE UNCHANGED proposalVars
  BY <1>1 DEF proposalVars
<1>2. CASE RouteProposalTx
  BY <1>2 DEF RouteProposalTx, RouteTx
<1>3. CASE RefuseProposal
  BY <1>3 DEF RefuseProposal, RefuseBlock, FanNext
<1>4. CASE DispatchConcerned
  <2>1. {a \in Apps : handlerTxs[a] # <<>>} \in SUBSET Apps
    OBVIOUS
  <2> QED
    BY <1>4, <2>1 DEF DispatchConcerned, FanNext
<1>5. ASSUME NEW a \in Apps, NEW v \in Votes, AppVotes(a, v) PROVE FanNext
  BY <1>5 DEF AppVotes, FanNext, Answers
<1>6. ASSUME NEW a \in Apps, AppFailsToVote(a) PROVE FanNext
  BY <1>6 DEF AppFailsToVote, FanNext, Answers
<1>7. CASE MergeVote
  BY <1>7 DEF MergeVote, FanNext
<1>8. CASE FailOnVote
  BY <1>8 DEF FailOnVote, FanNext
<1>9. CASE ReturnStatus
  BY <1>9 DEF ReturnStatus, FanNext
<1>10. CASE FanOutAlone
  BY <1>10 DEF FanOutAlone, FanNext
<1> QED
  BY <1>1, <1>2, <1>3, <1>4, <1>5, <1>6, <1>7, <1>8, <1>9, <1>10 DEF ProposalNext

\* ProcessProposal uses its goroutines, channel and WaitGroup as FanOut describes:
\* what is proved of FanOut holds of it.
THEOREM ProposalImplementsFanOut == ProposalSpec => ImplementsFanOut
<1>1. ProposalInit => FanInit
  BY DEF ProposalInit, RoutingInit
<1> QED
  BY <1>1, ProposalFanStep, PTL DEF ProposalSpec, ImplementsFanOut, FanSpec

\* So the invariant of the fan-out holds.
LEMMA ProposalFanInv == ProposalSpec => []FanInv
  BY ProposalImplementsFanOut, FanInvariance, PTL DEF ImplementsFanOut

\* Every step of ProcessProposal routes as BlockRouting does.
LEMMA ProposalRoutingStep ==
  RoutingInv /\ FanInv' /\ [ProposalNext]_proposalVars => RoutingInv'
<1> SUFFICES ASSUME RoutingInv, FanInv', [ProposalNext]_proposalVars
             PROVE  RoutingInv'
  OBVIOUS
<1>1. CASE RouteProposalTx
  BY <1>1, RouteTxInv DEF RouteProposalTx
<1>2. CASE ~RouteProposalTx
  <2>1. UNCHANGED blockVars
    BY <1>2 DEF ProposalNext, RefuseProposal, RefuseBlock, DispatchConcerned, AppVotes,
       AppFailsToVote, MergeVote, FailOnVote, ReturnStatus, FanOutAlone, proposalVars
  <2>2. main = "routing" /\ main' = "spawning" => idx = Len(block)
    BY <1>2 DEF ProposalNext, RefuseProposal, RefuseBlock, Refuse, DispatchConcerned,
       AppVotes, AppFailsToVote, Answer, MergeVote, ReceiveOk, FailOnVote, ReceiveErr,
       ReturnStatus, Finish, FanOutAlone, Spawn, StartCloser, GoroutineStep, Send, Done,
       Close, Rest, proposalVars, fanVars
  <2> QED
    BY <2>1, <2>2, ProposalFanStep, RoutingStutterInv DEF FanInv
<1> QED
  BY <1>1, <1>2

\* So the invariant of the routing holds.
LEMMA ProposalRoutingInv == ProposalSpec => []RoutingInv
<1>1. ProposalInit => RoutingInv
  BY RoutingInitInv DEF ProposalInit
<1> QED
  BY <1>1, ProposalRoutingStep, ProposalFanInv, PTL DEF ProposalSpec

\* Each app votes on its share of the block, in order, without headers.
THEOREM ProposalSharesHold == ProposalSpec => []EachAppGetsItsShare
  BY ProposalRoutingInv, RoutingInvImplies, PTL

\* No app is asked to vote on a block with a transaction that nobody can handle.
THEOREM ProposalKeepsBadBlocks == ProposalSpec => []NoAppSeesABadBlock
  BY ProposalRoutingInv, RoutingInvImplies, PTL

-----------------------------------------------------------------------------
\* The apps that are asked are those with a transaction; the status is ACCEPT as long
\* as every vote received is.
VotesInv ==
  /\ vote \in [Apps -> Votes \cup {"UNKNOWN"}]
  /\ \A a \in Apps : answer[a] = "ok" => vote[a] \in Votes
  /\ main \notin {"routing", "err"} => asked = {a \in Apps : handlerTxs[a] # <<>>}
  /\ status \in {"ACCEPT", "REJECT"}
  /\ status = "ACCEPT" <=> \A a \in ToSet(received) : vote[a] = "ACCEPT"

\* One more vote: apps have no third status.
LEMMA MergeVoteInv ==
  ASSUME Votes \subseteq {"ACCEPT", "REJECT"}, FanInv, VotesInv, MergeVote
  PROVE  VotesInv'
<1> DEFINE a == Head(chan)
<1>1. /\ a \in Apps /\ vote[a] \in {"ACCEPT", "REJECT"}
      /\ ToSet(received') = ToSet(received) \cup {a}
  BY OneMoreReceived DEF MergeVote, ReceiveOk, VotesInv
<1>2. UNCHANGED <<vote, answer, main, asked, handlerTxs>>
  BY DEF MergeVote, ReceiveOk, blockVars
<1>3. /\ status' \in {"ACCEPT", "REJECT"}
      /\ status' = "ACCEPT" <=> status = "ACCEPT" /\ vote[a] = "ACCEPT"
  BY <1>1 DEF MergeVote, FoldVote, VotesInv
<1> QED
  BY <1>1, <1>2, <1>3 DEF VotesInv

\* Every step keeps the invariant of the votes.
LEMMA VotesStep ==
  ASSUME Votes \subseteq {"ACCEPT", "REJECT"}
  PROVE  FanInv /\ VotesInv /\ [ProposalNext]_proposalVars => VotesInv'
<1> SUFFICES ASSUME FanInv, VotesInv, [ProposalNext]_proposalVars PROVE VotesInv'
  OBVIOUS
<1>1. CASE MergeVote
  BY <1>1, MergeVoteInv
<1>2. ASSUME NEW a \in Apps, NEW v \in Votes, AppVotes(a, v) PROVE VotesInv'
  <2>1. a \notin ToSet(received)
    BY <1>2, CallingNotReceived DEF AppVotes, Answer
  <2>2. /\ vote' = [vote EXCEPT ![a] = v] /\ answer' = [answer EXCEPT ![a] = "ok"]
        /\ UNCHANGED <<main, asked, handlerTxs, status, received>>
    BY <1>2 DEF AppVotes, Answer, blockVars
  <2>3. answer \in [Apps -> Answers \cup {"none"}]
    BY DEF FanInv, FanTypeOK
  <2> QED
    BY <2>1, <2>2, <2>3 DEF VotesInv
<1>3. ASSUME NEW a \in Apps, AppFailsToVote(a) PROVE VotesInv'
  <2>1. /\ answer' = [answer EXCEPT ![a] = "err"]
        /\ UNCHANGED <<main, asked, handlerTxs, vote, status, received>>
    BY <1>3 DEF AppFailsToVote, Answer, blockVars
  <2>2. answer \in [Apps -> Answers \cup {"none"}]
    BY DEF FanInv, FanTypeOK
  <2> QED
    BY <2>1, <2>2 DEF VotesInv
<1>4. CASE DispatchConcerned
  BY <1>4 DEF DispatchConcerned, Dispatch, VotesInv, blockVars
<1>5. CASE RouteProposalTx
  BY <1>5 DEF RouteProposalTx, RouteTx, VotesInv, fanVars
<1>6. CASE RefuseProposal \/ FailOnVote
  BY <1>6 DEF RefuseProposal, RefuseBlock, Refuse, FailOnVote, ReceiveErr, VotesInv,
     blockVars
<1>7. CASE ReturnStatus
  BY <1>7 DEF ReturnStatus, Finish, VotesInv, blockVars
<1>8. CASE FanOutAlone
  BY <1>8 DEF FanOutAlone, Spawn, StartCloser, GoroutineStep, Send, Done, Close, Rest,
     VotesInv, blockVars, fanVars
<1>9. CASE UNCHANGED proposalVars
  BY <1>9 DEF proposalVars, VotesInv, blockVars, fanVars
<1> QED
  BY <1>1, <1>2, <1>3, <1>4, <1>5, <1>6, <1>7, <1>8, <1>9 DEF ProposalNext

\* Of apps that vote ACCEPT or REJECT: a proposal is accepted exactly when every app
\* with a transaction in it accepts, in whatever order the votes arrive.
THEOREM AcceptIsUnanimousHolds ==
  ASSUME Votes \subseteq {"ACCEPT", "REJECT"}
  PROVE  ProposalSpec => []AcceptIsUnanimous
<1>1. ProposalInit => VotesInv
  BY DEF ProposalInit, RoutingInit, FanInit, VotesInv, ToSet
<1>2. RoutingInv /\ FanInv /\ OkMeansEveryoneCounted /\ VotesInv => AcceptIsUnanimous
  <2> SUFFICES ASSUME RoutingInv, FanInv, OkMeansEveryoneCounted, VotesInv, main = "ok"
               PROVE  status = "ACCEPT" <=>
                        \A a \in Apps : PositionsOf(a) # {} => vote[a] = "ACCEPT"
    BY DEF AcceptIsUnanimous
  <2>1. ToSet(received) = {a \in Apps : handlerTxs[a] # <<>>}
    BY DEF OkMeansEveryoneCounted, VotesInv
  <2>2. ASSUME NEW a \in Apps PROVE handlerTxs[a] # <<>> <=> PositionsOf(a) # {}
    <3>1. idx \in Int /\ 1 \in Int
      BY BlocksAreBlocks, LenProperties DEF RoutingInv, RoutingTypeOK
    <3>2. IsFiniteSet(PositionsOf(a))
      BY <3>1, FS_Interval, FS_Subset, PositionsOf(a) \in SUBSET (1..idx) DEF PositionsOf
    <3>3. handlerTxs[a] \in Seq(Seq(Byte)) /\ Len(handlerTxs[a]) = Cardinality(PositionsOf(a))
      BY DEF RoutingInv, RoutingTypeOK, Shares
    <3>4. handlerTxs[a] = <<>> <=> Len(handlerTxs[a]) = 0
      BY <3>3, EmptySeq
    <3> QED
      BY <3>2, <3>3, <3>4, FS_EmptySet
  <2> QED
    BY <2>1, <2>2 DEF VotesInv
<1>3. ProposalSpec => []VotesInv
  BY <1>1, VotesStep, ProposalFanInv, PTL DEF ProposalSpec
<1>4. ProposalSpec => []OkMeansEveryoneCounted
  BY ProposalImplementsFanOut, OkMeansEveryoneCountedHolds, PTL DEF ImplementsFanOut
<1> QED
  BY <1>2, <1>3, <1>4, ProposalFanInv, ProposalRoutingInv, PTL

-----------------------------------------------------------------------------
(***************************************************************************)
(* InitChain.                                                              *)
(***************************************************************************)

\* Every step of InitChain is one of the fan-out or does not concern it.
LEMMA InitFanStep ==
  [InitChainNext]_initVars => [FanNext \/ Rest]_fanVars
<1> SUFFICES ASSUME [InitChainNext]_initVars PROVE [FanNext \/ Rest]_fanVars
  OBVIOUS
<1>1. CASE UNCHANGED initVars
  BY <1>1 DEF initVars
<1>2. CASE DispatchInit
  BY <1>2 DEF DispatchInit, FanNext
<1>3. ASSUME NEW a \in Apps, PrepareRequest(a) PROVE UNCHANGED fanVars
  BY <1>3 DEF PrepareRequest
<1>4. ASSUME NEW a \in Apps, NEW p, AppInits(a, p) PROVE FanNext
  BY <1>4 DEF AppInits, FanNext, Answers
<1>5. ASSUME NEW a \in Apps, AppFailsInit(a) PROVE FanNext
  BY <1>5 DEF AppFailsInit, FanNext, Answers
<1>6. CASE MergeInitResponse
  BY <1>6 DEF MergeInitResponse, FanNext
<1>7. CASE FailOnInit
  BY <1>7 DEF FailOnInit, FanNext
<1>8. CASE ReturnInit
  BY <1>8 DEF ReturnInit, FanNext
<1>9. CASE InitFanOutAlone
  BY <1>9 DEF InitFanOutAlone, FanNext
<1> QED
  BY <1>1, <1>2, <1>3, <1>4, <1>5, <1>6, <1>7, <1>8, <1>9 DEF InitChainNext

\* InitChain uses its goroutines, channel and WaitGroup as FanOut describes.
THEOREM InitImplementsFanOut == InitChainSpec => ImplementsFanOut
<1>1. InitChainInit => FanInit
  BY DEF InitChainInit
<1> QED
  BY <1>1, InitFanStep, PTL DEF InitChainSpec, ImplementsFanOut, FanSpec

\* So the invariant of the fan-out holds.
LEMMA InitFanInv == InitChainSpec => []FanInv
  BY InitImplementsFanOut, FanInvariance, PTL DEF ImplementsFanOut

(***************************************************************************)
(* The requests: each handler writes into its own copy of the caller's.    *)
(***************************************************************************)

RequestsInv ==
  /\ prepared \subseteq Apps
  /\ requests = [x \in Apps \cup {Caller} |->
                   IF x \in prepared THEN Genesis[x] ELSE Genesis[Caller]]
  /\ delivered = [a \in Apps |-> delivered[a]]
  /\ EachAppGetsItsGenesis

\* Every step keeps the invariant of the requests.
LEMMA RequestsStep ==
  FanInv /\ RequestsInv /\ [InitChainNext]_initVars => RequestsInv'
<1> SUFFICES ASSUME FanInv, RequestsInv, [InitChainNext]_initVars PROVE RequestsInv'
  OBVIOUS
<1>0. answer \in [Apps -> Answers \cup {"none"}]
  BY DEF FanInv, FanTypeOK
<1>1. ASSUME NEW a \in Apps, PrepareRequest(a) PROVE RequestsInv'
  <2>1. requests' = [requests EXCEPT ![a] = Genesis[a]] /\ prepared' = prepared \cup {a}
    BY <1>1 DEF PrepareRequest, RequestOf
  <2>2. UNCHANGED <<delivered, answer>>
    BY <1>1 DEF PrepareRequest, fanVars
  <2> QED
    BY <2>1, <2>2 DEF RequestsInv, EachAppGetsItsGenesis
<1>2. ASSUME NEW a \in Apps, NEW p, AppInits(a, p) PROVE RequestsInv'
  <2>1. /\ delivered' = [delivered EXCEPT ![a] = requests[a]] /\ a \in prepared
        /\ answer' = [answer EXCEPT ![a] = "ok"]
        /\ UNCHANGED <<requests, prepared>>
    BY <1>2 DEF AppInits, Answer, RequestOf
  <2>2. requests[a] = Genesis[a]
    BY <2>1 DEF RequestsInv
  <2> QED
    BY <1>0, <2>1, <2>2 DEF RequestsInv, EachAppGetsItsGenesis
<1>3. ASSUME NEW a \in Apps, AppFailsInit(a) PROVE RequestsInv'
  <2>1. answer' = [answer EXCEPT ![a] = "err"] /\ UNCHANGED <<requests, prepared, delivered>>
    BY <1>3 DEF AppFailsInit, Answer
  <2> QED
    BY <1>0, <2>1 DEF RequestsInv, EachAppGetsItsGenesis
<1>4. CASE DispatchInit \/ MergeInitResponse \/ FailOnInit \/ ReturnInit
  BY <1>4 DEF DispatchInit, Dispatch, MergeInitResponse, ReceiveOk, FailOnInit, ReceiveErr,
     ReturnInit, Finish, RequestsInv, EachAppGetsItsGenesis
<1>5. CASE InitFanOutAlone
  BY <1>5 DEF InitFanOutAlone, Spawn, StartCloser, GoroutineStep, Send, Done, Close, Rest,
     fanVars, RequestsInv, EachAppGetsItsGenesis
<1>6. CASE UNCHANGED initVars
  BY <1>6 DEF initVars, fanVars, RequestsInv, EachAppGetsItsGenesis
<1> QED
  BY <1>1, <1>2, <1>3, <1>4, <1>5, <1>6 DEF InitChainNext

\* No app is initialised with another's genesis or with the caller's, however the
\* handlers' writes and calls are interleaved.
THEOREM EachAppGetsItsGenesisHolds == InitChainSpec => []EachAppGetsItsGenesis
<1>1. InitChainInit => RequestsInv
  BY DEF InitChainInit, FanInit, RequestsInv, EachAppGetsItsGenesis
<1>2. InitChainSpec => []RequestsInv
  BY <1>1, RequestsStep, InitFanInv, PTL DEF InitChainSpec
<1> QED
  BY <1>2, PTL DEF RequestsInv

(***************************************************************************)
(* The response: what the answers received so far make of it.              *)
(***************************************************************************)

Hashes(keys) == [i \in 1..Len(keys) |-> AppHashOf[keys[i]]]

\* f is the function by which FlattenSeq joins the sequences of s.
Flattens(f, s) == f = [i \in 1..Len(s) |-> IF i = 1 THEN s[i] ELSE f[i - 1] \o s[i]]

\* The hashes received, joined in the order in which they came.
HashSoFar ==
  /\ received = <<>> => response.appHash = <<>>
  /\ \E f : Flattens(f, Hashes(received))
  /\ \A f : Flattens(f, Hashes(received)) /\ received # <<>> =>
              f[Len(received)] = response.appHash

Announced == UNION {ToSet(ValidatorsOf[a]) : a \in Apps}

ValidatorsSoFar ==
  /\ response.validators \in Seq(Announced)
  /\ ToSet(response.validators) = UNION {ToSet(ValidatorsOf[a]) : a \in ToSet(received)}

ParamsSoFar ==
  LET said == {offered[a] : a \in ToSet(received)} \ {NoParams}
  IN IF said = {} THEN response.params = NoParams ELSE response.params \in said

ResponseInv ==
  /\ main \notin {"routing", "err"} => asked = Apps
  /\ offered = [a \in Apps |-> offered[a]]
  /\ IsNil(response) <=> received = <<>>
  /\ HashSoFar
  /\ ValidatorsSoFar
  /\ ParamsSoFar

\* The invariant of the response holds at first.
LEMMA ResponseInitInv == InitChainInit => ResponseInv
<1> SUFFICES ASSUME InitChainInit PROVE ResponseInv
  OBVIOUS
<1>1. received = <<>> /\ response = NilResponse /\ main = "routing" /\ ToSet(received) = {}
  BY DEF InitChainInit, FanInit, ToSet
<1>2. HashSoFar
  <2>1. Flattens(<<>>, Hashes(received))
    BY <1>1 DEF Flattens, Hashes
  <2> QED
    BY <1>1, <2>1 DEF HashSoFar, NilResponse
<1>3. ValidatorsSoFar
  BY <1>1, EmptySeq DEF ValidatorsSoFar, NilResponse, ToSet
<1> QED
  BY <1>1, <1>2, <1>3 DEF ResponseInv, ParamsSoFar, IsNil, NilResponse, InitChainInit

\* One more hash is joined to those received.
LEMMA OneMoreHash ==
  ASSUME FanInv, ResponseInv, MergeInitResponse
  PROVE  HashSoFar'
<1> DEFINE a == Head(chan)
           n == Len(received)
<1>1. /\ received \in Seq(Apps) /\ n \in Nat /\ a \in Apps
      /\ received' = Append(received, a) /\ Len(received') = n + 1
      /\ \A i \in 1..n : received'[i] = received[i]
      /\ received'[n + 1] = a /\ received' # <<>>
  <2>1. received \in Seq(Apps) /\ a \in Apps /\ received' = Append(received, a)
    BY OneMoreReceived DEF FanInv, FanTypeOK, MergeInitResponse, ReceiveOk
  <2> QED
    BY <2>1, AppendProperties, LenProperties
<1>2. response'.appHash =
        IF received = <<>> THEN AppHashOf[a] ELSE response.appHash \o AppHashOf[a]
  BY DEF MergeInitResponse, MergeInit, MergedHash, ResponseInv
<1>3. /\ Hashes(received) = [i \in 1..n |-> AppHashOf[received[i]]]
      /\ Hashes(received') = [i \in 1..(n + 1) |-> AppHashOf[received'[i]]]
      /\ Len(Hashes(received)) = n /\ Len(Hashes(received')) = n + 1
  BY <1>1 DEF Hashes
<1>4. received = <<>> <=> n = 0
  BY <1>1, EmptySeq
<1>5. ASSUME NEW f, Flattens(f, Hashes(received'))
      PROVE  f[n + 1] = response'.appHash
  <2> DEFINE g == [i \in 1..n |-> f[i]]
  <2>1. f = [i \in 1..(n + 1) |->
               IF i = 1 THEN Hashes(received')[i] ELSE f[i - 1] \o Hashes(received')[i]]
    BY <1>3, <1>5 DEF Flattens
  <2>2. CASE n = 0
    BY <1>1, <1>2, <1>3, <1>4, <2>1, <2>2
  <2>3. CASE n # 0
    <3>1. f[n + 1] = f[n] \o AppHashOf[a]
      <4>1. n + 1 \in 1..(n + 1) /\ n + 1 # 1 /\ (n + 1) - 1 = n
        BY <1>1, <2>3
      <4>2. f[n + 1] = f[(n + 1) - 1] \o Hashes(received')[n + 1]
        BY <2>1, <4>1
      <4>3. Hashes(received')[n + 1] = AppHashOf[a]
        BY <1>1, <1>3, <4>1
      <4> QED
        BY <4>1, <4>2, <4>3
    <3>2. Flattens(g, Hashes(received))
      <4>1. ASSUME NEW i \in 1..n
            PROVE  g[i] = IF i = 1 THEN Hashes(received)[i]
                                   ELSE g[i - 1] \o Hashes(received)[i]
        <5>1. /\ i \in 1..(n + 1) /\ (i = 1 \/ i - 1 \in 1..n)
              /\ Hashes(received)[i] = Hashes(received')[i]
          BY <1>1, <1>3
        <5> QED
          BY <1>1, <2>1, <5>1
      <4> QED
        BY <1>3, <4>1 DEF Flattens
    <3>3. g[n] = response.appHash
      BY <1>4, <2>3, <3>2 DEF ResponseInv, HashSoFar
    <3>4. f[n] = response.appHash
      BY <1>1, <2>3, <3>3
    <3> QED
      BY <1>2, <1>4, <2>3, <3>1, <3>4
  <2> QED
    BY <2>2, <2>3
<1>6. \E f : Flattens(f, Hashes(received'))
  <2>1. PICK g : Flattens(g, Hashes(received))
    BY DEF ResponseInv, HashSoFar
  <2>2. g = [i \in 1..n |-> IF i = 1 THEN Hashes(received)[i]
                                     ELSE g[i - 1] \o Hashes(received)[i]]
    BY <1>3, <2>1 DEF Flattens
  <2> DEFINE f == [i \in 1..(n + 1) |->
                     IF i = n + 1
                     THEN IF i = 1 THEN AppHashOf[a] ELSE g[n] \o AppHashOf[a]
                     ELSE g[i]]
  <2>3. ASSUME NEW i \in 1..(n + 1)
        PROVE  f[i] = IF i = 1 THEN Hashes(received')[i]
                               ELSE f[i - 1] \o Hashes(received')[i]
    <3>1. CASE i = n + 1
      <4>1. Hashes(received')[i] = AppHashOf[a]
        BY <1>1, <1>3, <3>1
      <4>2. i # 1 => f[i - 1] = g[n]
        BY <1>1, <3>1
      <4> QED
        BY <3>1, <4>1, <4>2
    <3>2. CASE i # n + 1
      <4>1. i \in 1..n /\ Hashes(received')[i] = Hashes(received)[i]
        BY <1>1, <1>3, <3>2
      <4>2. i # 1 => f[i - 1] = g[i - 1]
        BY <1>1, <4>1
      <4>3. f[i] = g[i]
        BY <3>2
      <4>4. g[i] = IF i = 1 THEN Hashes(received)[i] ELSE g[i - 1] \o Hashes(received)[i]
        BY <2>2, <4>1
      <4> HIDE DEF f
      <4> QED
        BY <4>1, <4>2, <4>3, <4>4
    <3> QED
      BY <3>1, <3>2
  <2>4. Flattens(f, Hashes(received'))
    BY <1>3, <2>3 DEF Flattens
  <2> QED
    BY <2>4
<1>7. \A f : Flattens(f, Hashes(received')) => f[Len(received')] = response'.appHash
  BY <1>1, <1>5
<1> QED
  BY <1>1, <1>6, <1>7 DEF HashSoFar

\* The elements of a sequence that is joined to another.
LEMMA ToSetOfConcat ==
  ASSUME NEW S, NEW s \in Seq(S), NEW t \in Seq(S)
  PROVE  s \o t \in Seq(S) /\ ToSet(s \o t) = ToSet(s) \cup ToSet(t)
<1>1. s \o t \in Seq(S)
  BY ConcatProperties
<1>2. \A u : ToSet(u) = Range(u)
  BY DEF ToSet, Range
<1> QED
  BY <1>1, <1>2, RangeConcatenation

\* One more response merged keeps the joined hash what it should be.
LEMMA OneMoreResponse ==
  ASSUME FanInv, ResponseInv, MergeInitResponse
  PROVE  ResponseInv'
<1> DEFINE a == Head(chan)
<1>1. /\ a \in Apps /\ ToSet(received') = ToSet(received) \cup {a}
      /\ a \notin ToSet(received) /\ received' # <<>>
  <2>1. received \in Seq(Apps) /\ received' = Append(received, a) /\ a \in Apps
    BY OneMoreReceived DEF FanInv, FanTypeOK, MergeInitResponse, ReceiveOk
  <2> QED
    BY <2>1, OneMoreReceived, AppendProperties DEF MergeInitResponse
<1>2. response' = MergeInit(response, a, offered[a])
      /\ UNCHANGED <<offered, main, asked>>
  BY DEF MergeInitResponse, ReceiveOk
<1>3. ~IsNil(response')
  BY <1>1, <1>2, CallerIsNoApp DEF MergeInit, IsNil
<1>4. ValidatorsSoFar'
  <2>1. ValidatorsOf[a] \in Seq(Announced) /\ response.validators \in Seq(Announced)
    BY <1>1, ValidatorsAreLists DEF Announced, ResponseInv, ValidatorsSoFar
  <2>2. response'.validators = MergedValidators(response, a)
    BY <1>2 DEF MergeInit
  <2>3. IsNil(response) => ToSet(received) = {}
    BY DEF ResponseInv, ToSet
  <2>4. /\ response'.validators \in Seq(Announced)
        /\ ToSet(response'.validators) =
             ToSet(response.validators) \cup ToSet(ValidatorsOf[a])
    <3>1. CASE IsNil(response)
      BY <2>1, <2>2, <2>3, <3>1, ToSetOfConcat
         DEF MergedValidators, ResponseInv, ValidatorsSoFar
    <3>2. CASE ~IsNil(response)
      BY <2>1, <2>2, <3>2, ToSetOfConcat DEF MergedValidators
    <3> QED
      BY <3>1, <3>2
  <2> QED
    BY <1>1, <2>4 DEF ResponseInv, ValidatorsSoFar
<1>5. ParamsSoFar'
  <2>1. response'.params = IF offered[a] # NoParams THEN offered[a] ELSE response.params
    BY <1>2 DEF MergeInit
  <2>2. ParamsSoFar
    BY DEF ResponseInv
  <2> QED
    BY <1>1, <1>2, <2>1, <2>2 DEF ParamsSoFar
<1>6. HashSoFar'
  BY OneMoreHash
<1> QED
  BY <1>1, <1>2, <1>3, <1>4, <1>5, <1>6 DEF ResponseInv

\* Every step keeps the invariant of the response.
LEMMA ResponseStep ==
  FanInv /\ ResponseInv /\ [InitChainNext]_initVars => ResponseInv'
<1> SUFFICES ASSUME FanInv, ResponseInv, [InitChainNext]_initVars PROVE ResponseInv'
  OBVIOUS
<1> USE DEF ResponseInv, HashSoFar, ValidatorsSoFar, ParamsSoFar, Hashes
<1>1. CASE MergeInitResponse
  BY <1>1, OneMoreResponse
<1>2. ASSUME NEW a \in Apps, NEW p, AppInits(a, p) PROVE ResponseInv'
  <2>1. a \notin ToSet(received)
    BY <1>2, CallingNotReceived DEF AppInits, Answer
  <2>2. /\ offered' = [offered EXCEPT ![a] = p]
        /\ UNCHANGED <<main, asked, received, response>>
    BY <1>2 DEF AppInits, Answer
  <2>3. \A b \in ToSet(received) : offered'[b] = offered[b]
    <3>1. ToSet(received) \subseteq Apps
      BY RangeOfSeq DEF FanInv, FanTypeOK, ToSet, Range
    <3> QED
      BY <2>1, <2>2, <3>1
  <2>4. {offered'[b] : b \in ToSet(received)} = {offered[b] : b \in ToSet(received)}
    BY <2>3
  <2> QED
    BY <2>2, <2>4
<1>3. CASE DispatchInit
  BY <1>3 DEF DispatchInit, Dispatch
<1>4. ASSUME NEW a \in Apps, PrepareRequest(a) \/ AppFailsInit(a) PROVE ResponseInv'
  <2>1. UNCHANGED <<main, asked, received, offered, response>>
    BY <1>4 DEF PrepareRequest, AppFailsInit, Answer, fanVars
  <2> QED
    BY <2>1
<1>5. CASE FailOnInit \/ ReturnInit
  BY <1>5 DEF FailOnInit, ReceiveErr, ReturnInit, Finish
<1>6. CASE InitFanOutAlone
  BY <1>6 DEF InitFanOutAlone, Spawn, StartCloser, GoroutineStep, Send, Done, Close, Rest,
     fanVars
<1>7. CASE UNCHANGED initVars
  BY <1>7 DEF initVars, fanVars
<1> QED
  BY <1>1, <1>2, <1>3, <1>4, <1>5, <1>6, <1>7 DEF InitChainNext

\* The invariant of the response holds.
LEMMA ResponseInvariance == InitChainSpec => []ResponseInv
  BY ResponseInitInv, ResponseStep, InitFanInv, PTL DEF InitChainSpec

\* A response that is returned has counted every app.
LEMMA InitCountsEveryone == InitChainSpec => []OkMeansEveryoneCounted
  BY InitImplementsFanOut, OkMeansEveryoneCountedHolds, PTL DEF ImplementsFanOut

\* The AppHash returned is made of every app's, each exactly once, whatever the
\* number of apps and the order of their answers.
THEOREM HashCoversEveryAppHolds == InitChainSpec => []HashCoversEveryApp
<1>1. FanInv /\ ResponseInv /\ OkMeansEveryoneCounted => HashCoversEveryApp
  <2> SUFFICES ASSUME FanInv, ResponseInv, OkMeansEveryoneCounted, main = "ok"
               PROVE  \E keys \in SetToSeqs(Apps) :
                        response.appHash =
                          FlattenSeq([i \in 1..Len(keys) |-> AppHashOf[keys[i]]])
    BY DEF HashCoversEveryApp
  <2>1. /\ received \in Seq(Apps) /\ Len(received) \in Nat
        /\ received \in [1..Len(received) -> Apps]
        /\ Len(received) = Cardinality(Apps)
    BY LenProperties DEF FanInv, FanTypeOK, OkMeansEveryoneCounted, ResponseInv
  <2>2. received \in SetToSeqs(Apps)
    BY <2>1 DEF SetToSeqs, FanInv, Accounted
  <2>3. Len(Hashes(received)) = Len(received)
    BY <2>1 DEF Hashes
  <2>4. response.appHash = FlattenSeq(Hashes(received))
    <3>1. CASE received = <<>>
      <4>1. Hashes(received) = <<>> /\ Len(<<>>) = 0
        BY <2>1, <3>1, EmptySeq DEF Hashes
      <4> QED
        BY <3>1, <4>1 DEF FlattenSeq, ResponseInv, HashSoFar
    <3>2. CASE received # <<>>
      <4> DEFINE F == CHOOSE f : Flattens(f, Hashes(received))
      <4>1. Flattens(F, Hashes(received))
        BY DEF ResponseInv, HashSoFar
      <4>2. Len(received) # 0
        BY <2>1, <3>2, EmptySeq
      <4>3. FlattenSeq(Hashes(received)) = F[Len(received)]
        BY <2>3, <4>2 DEF FlattenSeq, Flattens
      <4> HIDE DEF F
      <4> QED
        BY <3>2, <4>1, <4>3 DEF ResponseInv, HashSoFar
    <3> QED
      BY <3>1, <3>2
  <2> QED
    BY <2>2, <2>4 DEF Hashes
<1> QED
  BY <1>1, InitFanInv, ResponseInvariance, InitCountsEveryone, PTL

\* All validators that an app announces are announced, no other, and consensus
\* parameters are those of an app that sets some.
THEOREM NothingLostInInitHolds == InitChainSpec => []NothingLostInInit
<1>1. ResponseInv /\ OkMeansEveryoneCounted => NothingLostInInit
  BY DEF ResponseInv, OkMeansEveryoneCounted, NothingLostInInit, ValidatorsSoFar, ParamsSoFar
<1> QED
  BY <1>1, ResponseInvariance, InitCountsEveryone, PTL
=============================================================================
