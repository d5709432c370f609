------------------------ MODULE FinalizeBlockProofs ------------------------
(***************************************************************************)
(* FinalizeBlock for every finite set of apps, all blocks and all answers: *)
(* the invariants are built in layers, each proved with the ones before    *)
(* it: the fan-out, the routing loop, the response slots, the merge.       *)
(***************************************************************************)
EXTENDS FinalizeBlock, BlockRoutingProofs

(***************************************************************************)
(* First layer: the handler is a FanOut call.                              *)
(***************************************************************************)

LEMMA FinalizeFanStep ==
  [FinalizeNext]_finalizeVars => [FanNext \/ Rest]_fanVars
<1> SUFFICES ASSUME [FinalizeNext]_finalizeVars PROVE [FanNext \/ Rest]_fanVars
  OBVIOUS
<1>1. CASE UNCHANGED finalizeVars
  BY <1>1 DEF finalizeVars
<1>2. CASE RouteFinalizeTx
  BY <1>2 DEF RouteFinalizeTx, RouteTx
<1>3. CASE RefuseFinalize
  BY <1>3 DEF RefuseFinalize, RefuseBlock, FanNext
<1>4. CASE DispatchAll
  BY <1>4 DEF DispatchAll, FanNext
<1>5. ASSUME NEW a \in Apps, NEW n, NEW p, AppFinalizes(a, n, p) PROVE FanNext
  BY <1>5 DEF AppFinalizes, FanNext, Answers
<1>6. ASSUME NEW a \in Apps, AppFails(a) PROVE FanNext
  BY <1>6 DEF AppFails, FanNext, Answers
<1>7. CASE MergeReply
  BY <1>7 DEF MergeReply, FanNext
<1>8. CASE FailOnReply
  BY <1>8 DEF FailOnReply, FanNext
<1>9. CASE FinishBlock
  BY <1>9 DEF FinishBlock, FanNext
<1>10. CASE FanOutAlone
  BY <1>10 DEF FanOutAlone, FanNext
<1> QED
  BY <1>1, <1>2, <1>3, <1>4, <1>5, <1>6, <1>7, <1>8, <1>9, <1>10 DEF FinalizeNext

\* FinalizeBlock uses its goroutines, channel and WaitGroup as FanOut describes:
\* what is proved of FanOut holds of it.
THEOREM FinalizeImplementsFanOut == FinalizeSpec => ImplementsFanOut
<1>1. FinalizeInit => FanInit
  BY DEF FinalizeInit, RoutingInit
<1> QED
  BY <1>1, FinalizeFanStep, PTL DEF FinalizeSpec, ImplementsFanOut, FanSpec

LEMMA FinalizeFanInv == FinalizeSpec => []FanInv
  BY FinalizeImplementsFanOut, FanInvariance, PTL DEF ImplementsFanOut

(***************************************************************************)
(* Second layer: the routing loop.                                         *)
(***************************************************************************)

LEMMA FinalizeRoutingStep ==
  RoutingInv /\ FanInv' /\ [FinalizeNext]_finalizeVars => RoutingInv'
<1> SUFFICES ASSUME RoutingInv, FanInv', [FinalizeNext]_finalizeVars
             PROVE  RoutingInv'
  OBVIOUS
<1>1. CASE RouteFinalizeTx
  BY <1>1, RouteTxInv DEF RouteFinalizeTx
<1>2. CASE ~RouteFinalizeTx
  <2>1. UNCHANGED blockVars
    BY <1>2 DEF FinalizeNext, RefuseFinalize, RefuseBlock, DispatchAll, AppFinalizes,
       AppFails, MergeReply, FailOnReply, FinishBlock, FanOutAlone, finalizeVars
  <2>2. main = "routing" /\ main' = "spawning" => idx = Len(block)
    BY <1>2 DEF FinalizeNext, RefuseFinalize, RefuseBlock, Refuse, DispatchAll,
       AppFinalizes, AppFails, Answer, MergeReply, ReceiveOk, FailOnReply, ReceiveErr,
       FinishBlock, Finish, FanOutAlone, Spawn, StartCloser, GoroutineStep, Send, Done,
       Close, Rest, finalizeVars, fanVars
  <2> QED
    BY <2>1, <2>2, FinalizeFanStep, RoutingStutterInv DEF FanInv
<1> QED
  BY <1>1, <1>2

LEMMA FinalizeRoutingInv == FinalizeSpec => []RoutingInv
<1>1. FinalizeInit => RoutingInv
  BY RoutingInitInv DEF FinalizeInit
<1> QED
  BY <1>1, FinalizeRoutingStep, FinalizeFanInv, PTL DEF FinalizeSpec

\* Each app executes its share of the block, in order, without headers.
THEOREM FinalizeSharesHold == FinalizeSpec => []EachAppGetsItsShare
  BY FinalizeRoutingInv, RoutingInvImplies, PTL

\* A block with an unroutable transaction is executed by no app.
THEOREM FinalizeKeepsBadBlocks == FinalizeSpec => []NoAppSeesABadBlock
  BY FinalizeRoutingInv, RoutingInvImplies, PTL

(***************************************************************************)
(* Third layer: the response slots.                                        *)
(***************************************************************************)

\* Slot k of an app is the position of its kth transaction.
SlotsInv ==
  /\ responseSlots \in [Apps -> Seq(1..Len(block))]
  /\ \A a \in Apps :
       /\ Len(responseSlots[a]) = Cardinality(PositionsOf(a))
       /\ \A k \in 1..Len(responseSlots[a]) :
            responseSlots[a][k] \in PositionsOf(a) /\ Rank(responseSlots[a][k]) = k
       /\ \A i \in PositionsOf(a) : responseSlots[a][Rank(i)] = i

LEMMA SlotsInitInv == FinalizeInit => SlotsInv
<1> SUFFICES ASSUME FinalizeInit PROVE SlotsInv
  OBVIOUS
<1>1. <<>> \in Seq(1..Len(block)) /\ Len(<<>>) = 0
  BY EmptySeq
<1>2. ASSUME NEW a \in Apps
      PROVE  /\ PositionsOf(a) = {} /\ responseSlots[a] = <<>>
             /\ Cardinality(PositionsOf(a)) = 0
  <2>1. PositionsOf(a) = {} /\ responseSlots[a] = <<>>
    BY DEF PositionsOf, FinalizeInit, RoutingInit
  <2> QED
    BY <2>1, FS_EmptySet
<1>3. \A a \in Apps : Len(responseSlots[a]) = 0
  BY <1>1, <1>2
<1>4. responseSlots \in [Apps -> Seq(1..Len(block))]
  BY <1>1 DEF FinalizeInit
<1> QED
  BY <1>2, <1>3, <1>4 DEF SlotsInv

LEMMA RouteSlotsInv ==
  RoutingInv /\ SlotsInv /\ RouteFinalizeTx => SlotsInv'
<1> SUFFICES ASSUME RoutingInv, SlotsInv, RouteFinalizeTx PROVE SlotsInv'
  OBVIOUS
<1>0. PICK i, id : i = idx + 1 /\ id = HeaderId(block[i])
  OBVIOUS
<1>1. /\ block \in Seq(Seq(Byte)) /\ Len(block) \in Nat /\ idx \in Nat
      /\ i \in 1..Len(block) /\ id \in Apps
      /\ idx' = i /\ block' = block
  BY <1>0, BlocksAreBlocks, LenProperties
     DEF RoutingInv, RoutingTypeOK, RouteFinalizeTx, RouteTx, HasHandler
<1>2. /\ responseSlots'[id] = Append(responseSlots[id], i)
      /\ responseSlots'[id] \in Seq(1..Len(block))
      /\ Len(responseSlots[id]) \in Nat
      /\ Len(responseSlots'[id]) = Len(responseSlots[id]) + 1
      /\ \A k \in 1..Len(responseSlots[id]) : responseSlots'[id][k] = responseSlots[id][k]
      /\ responseSlots'[id][Len(responseSlots[id]) + 1] = i
  <2>1. /\ responseSlots[id] \in Seq(1..Len(block))
        /\ responseSlots'[id] = Append(responseSlots[id], i)
    BY <1>0, <1>1 DEF SlotsInv, RouteFinalizeTx
  <2> QED
    BY <1>1, <2>1, AppendProperties, LenProperties
<1>3. /\ \A a \in Apps : a # id => responseSlots'[a] = responseSlots[a]
      /\ responseSlots' \in [Apps -> Seq(1..Len(block'))]
  BY <1>0, <1>1, <1>2 DEF SlotsInv, RouteFinalizeTx
<1>4. \A j : Rank(j)' = Rank(j)
  BY <1>1 DEF Rank
<1>5. ASSUME NEW a \in Apps, a # id
      PROVE  (/\ Len(responseSlots[a]) = Cardinality(PositionsOf(a))
              /\ \A k \in 1..Len(responseSlots[a]) :
                   responseSlots[a][k] \in PositionsOf(a) /\ Rank(responseSlots[a][k]) = k
              /\ \A j \in PositionsOf(a) : responseSlots[a][Rank(j)] = j)'
  <2>1. PositionsOf(a)' = PositionsOf(a)
    BY <1>0, <1>1, <1>5 DEF PositionsOf
  <2> QED
    BY <1>3, <1>4, <1>5, <2>1 DEF SlotsInv
<1>6. (/\ Len(responseSlots[id]) = Cardinality(PositionsOf(id))
       /\ \A k \in 1..Len(responseSlots[id]) :
            responseSlots[id][k] \in PositionsOf(id) /\ Rank(responseSlots[id][k]) = k
       /\ \A j \in PositionsOf(id) : responseSlots[id][Rank(j)] = j)'
  <2>1. /\ Len(responseSlots[id]) = Cardinality(PositionsOf(id))
        /\ \A k \in 1..Len(responseSlots[id]) :
             responseSlots[id][k] \in PositionsOf(id) /\ Rank(responseSlots[id][k]) = k
        /\ \A j \in PositionsOf(id) : responseSlots[id][Rank(j)] = j
    BY <1>1 DEF SlotsInv
  <2>2. PositionsOf(id)' = PositionsOf(id) \cup {i} /\ i \notin PositionsOf(id)
    BY <1>0, <1>1 DEF PositionsOf
  <2>3. Rank(i) = Cardinality(PositionsOf(id)) + 1
    BY <1>0, <1>1, RankOfNext
  <2>4. Cardinality(PositionsOf(id)') = Cardinality(PositionsOf(id)) + 1
    <3>1. PositionsOf(id) \in SUBSET (1..idx)
      BY DEF PositionsOf
    <3>2. 1 \in Int /\ idx \in Int
      BY <1>1
    <3>3. IsFiniteSet(1..idx)
      BY <3>2, FS_Interval
    <3>4. IsFiniteSet(PositionsOf(id))
      BY <3>1, <3>3, FS_Subset
    <3> QED
      BY <2>2, <3>4, FS_AddElement
  <2>5. ASSUME NEW j \in PositionsOf(id)
        PROVE  responseSlots'[id][Rank(j)] = j
    <3>1. Rank(j) \in 1..Len(responseSlots[id])
      BY <1>1, <2>1, RankProperties
    <3> QED
      BY <1>2, <2>1, <3>1
  <2>6. ASSUME NEW k \in 1..Len(responseSlots'[id])
        PROVE  responseSlots'[id][k] \in PositionsOf(id)' /\ Rank(responseSlots'[id][k]) = k
    <3>1. k = Len(responseSlots[id]) + 1 \/ k \in 1..Len(responseSlots[id])
      BY <1>2
    <3> QED
      BY <1>2, <2>1, <2>2, <2>3, <3>1
  <2>7. responseSlots'[id][Rank(i)] = i
    BY <1>2, <2>1, <2>3
  <2>8. Len(responseSlots'[id]) = Cardinality(PositionsOf(id)')
    BY <1>2, <2>1, <2>4
  <2> QED
    BY <1>4, <2>2, <2>5, <2>6, <2>7, <2>8
<1> QED
  BY <1>3, <1>5, <1>6 DEF SlotsInv

LEMMA SlotsStep ==
  RoutingInv /\ SlotsInv /\ [FinalizeNext]_finalizeVars => SlotsInv'
<1> SUFFICES ASSUME RoutingInv, SlotsInv, [FinalizeNext]_finalizeVars
             PROVE  SlotsInv'
  OBVIOUS
<1>1. CASE RouteFinalizeTx
  BY <1>1, RouteSlotsInv
<1>2. CASE ~RouteFinalizeTx
  <2>1. UNCHANGED <<blockVars, responseSlots>>
    BY <1>2 DEF FinalizeNext, RefuseFinalize, RefuseBlock, DispatchAll, AppFinalizes,
       AppFails, MergeReply, FailOnReply, FinishBlock, FanOutAlone, finalizeVars
  <2>2. block' = block /\ idx' = idx /\ responseSlots' = responseSlots
    BY <2>1 DEF blockVars
  <2>3. \A a : PositionsOf(a)' = PositionsOf(a)
    BY <2>2 DEF PositionsOf
  <2>4. \A i : Rank(i)' = Rank(i)
    BY <2>2 DEF Rank
  <2> QED
    BY <2>2, <2>3, <2>4 DEF SlotsInv
<1> QED
  BY <1>1, <1>2

LEMMA FinalizeSlotsInv == FinalizeSpec => []SlotsInv
  BY SlotsInitInv, SlotsStep, FinalizeRoutingInv, PTL DEF FinalizeSpec

(***************************************************************************)
(* Fourth layer: the merge.                                                *)
(***************************************************************************)

\* What belongs at position i: the result of its transaction, if the app's reply
\* has been merged and holds it.
Due(i) ==
  LET a == HeaderId(block[i])
  IN IF a \in ToSet(received) /\ Rank(i) <= reply[a].results
     THEN [app |-> a, nth |-> Rank(i)]
     ELSE NoResult

\* The parameters are those of one of the apps whose reply has been merged.
ParamsSaid ==
  LET said == {reply[a].params : a \in ToSet(received)} \ {NoParams}
  IN IF said = {} THEN params = NoParams ELSE params \in said

MergeInv ==
  /\ reply \in [Apps -> [results : Nat, params : Params \cup {NoParams}]]
  /\ txResults = [i \in 1..Len(block) |-> Due(i)]
  /\ ParamsSaid
  /\ kept = [a \in ToSet(received) |-> Part[a]]
  /\ DOMAIN merged = Fields
  /\ main \notin {"routing", "err"} => asked = Apps
  /\ main = "ok" => \E keys \in SortChainAppIDs(Apps) :
                      merged = [f \in Fields |-> Join(Part, keys, f)]

LEMMA MergeInitInv == FinalizeInit => MergeInv
<1> SUFFICES ASSUME FinalizeInit PROVE MergeInv
  OBVIOUS
<1>1. main = "routing" /\ received = <<>> /\ ToSet(received) = {}
  BY DEF FinalizeInit, RoutingInit, FanInit, ToSet
<1>2. reply \in [Apps -> [results : Nat, params : Params \cup {NoParams}]]
  BY DEF FinalizeInit, NoReply
<1>3. txResults = [i \in 1..Len(block) |-> Due(i)]
  BY <1>1 DEF FinalizeInit, Due
<1>4. ParamsSaid
  BY <1>1 DEF FinalizeInit, ParamsSaid
<1>5. kept = [a \in ToSet(received) |-> Part[a]] /\ DOMAIN merged = Fields
  BY <1>1 DEF FinalizeInit
<1> QED
  BY <1>1, <1>2, <1>3, <1>4, <1>5 DEF MergeInv

\* PlaceResults puts an app's results where its transactions stand, and leaves
\* the other positions alone.
LEMMA PlacedWhereDue ==
  ASSUME RoutingInv, SlotsInv, idx = Len(block), NEW a \in Apps, NEW n \in Nat,
         NEW results, DOMAIN results = 1..Len(block), NEW i \in 1..Len(block)
  PROVE  PlaceResults(results, a, responseSlots[a], n)[i] =
           IF HeaderId(block[i]) = a /\ Rank(i) <= n
           THEN [app |-> a, nth |-> Rank(i)]
           ELSE results[i]
<1> DEFINE Here(k) == k <= Len(responseSlots[a]) /\ responseSlots[a][k] = i
<1>1. PlaceResults(results, a, responseSlots[a], n)[i] =
        IF \E k \in 1..n : Here(k)
        THEN [app |-> a, nth |-> CHOOSE k \in 1..n : Here(k)]
        ELSE results[i]
  BY DEF PlaceResults
<1>2. /\ responseSlots[a] \in Seq(1..Len(block)) /\ Len(responseSlots[a]) \in Nat
      /\ Len(responseSlots[a]) = Cardinality(PositionsOf(a))
      /\ \A k \in 1..Len(responseSlots[a]) :
           responseSlots[a][k] \in PositionsOf(a) /\ Rank(responseSlots[a][k]) = k
      /\ \A j \in PositionsOf(a) : responseSlots[a][Rank(j)] = j
  BY LenProperties DEF SlotsInv
<1>3. block \in Seq(Seq(Byte)) /\ Len(block) \in Nat /\ idx \in Nat
  BY BlocksAreBlocks, LenProperties DEF RoutingInv, RoutingTypeOK
<1>4. \A k \in 1..n : Here(k) => HeaderId(block[i]) = a /\ Rank(i) = k
  BY <1>2 DEF PositionsOf
<1>5. ASSUME HeaderId(block[i]) = a, Rank(i) <= n
      PROVE  Rank(i) \in 1..n /\ Here(Rank(i))
  <2>1. i \in PositionsOf(a)
    BY <1>5 DEF PositionsOf
  <2>2. Rank(i) \in 1..Len(responseSlots[a])
    BY <1>2, <1>3, <2>1, RankProperties
  <2> QED
    BY <1>2, <1>5, <2>1, <2>2
<1>6. CASE HeaderId(block[i]) = a /\ Rank(i) <= n
  <2> HIDE DEF Here
  <2>1. \E k \in 1..n : Here(k)
    BY <1>5, <1>6
  <2>2. (CHOOSE k \in 1..n : Here(k)) = Rank(i)
    BY <1>4, <2>1
  <2> QED
    BY <1>1, <1>6, <2>1, <2>2
<1>7. CASE ~(HeaderId(block[i]) = a /\ Rank(i) <= n)
  <2>1. ~\E k \in 1..n : Here(k)
    BY <1>4, <1>7
  <2> QED
    BY <1>1, <1>7, <2>1
<1> QED
  BY <1>6, <1>7

\* A transaction counts itself.
LEMMA RankIsPositive ==
  ASSUME NEW i \in Nat \ {0}
  PROVE  Rank(i) \in Nat \ {0}
<1> DEFINE same == {j \in 1..i : HeaderId(block[j]) = HeaderId(block[i])}
<1>1. 1 \in Int /\ i \in Int
  OBVIOUS
<1>2. IsFiniteSet(1..i)
  BY <1>1, FS_Interval
<1>3. same \in SUBSET (1..i) /\ i \in same
  OBVIOUS
<1>4. IsFiniteSet(same)
  BY <1>2, <1>3, FS_Subset
<1>5. Cardinality(same) \in Nat /\ Cardinality(same) # 0
  BY <1>3, <1>4, FS_CardinalityType, FS_EmptySet
<1> QED
  BY <1>5 DEF Rank

LEMMA MergeReplyInv ==
  FanInv /\ RoutingInv /\ SlotsInv /\ MergeInv /\ MergeReply => MergeInv'
<1> SUFFICES ASSUME FanInv, RoutingInv, SlotsInv, MergeInv, MergeReply
             PROVE  MergeInv'
  OBVIOUS
<1>0. PICK a, n : a = Head(chan) /\ n = reply[a].results
  OBVIOUS
<1>1. /\ a \in Apps /\ a \notin ToSet(received)
      /\ ToSet(received') = ToSet(received) \cup {a}
      /\ ToSet(received) \in SUBSET Apps
  BY <1>0, OneMoreReceived DEF MergeReply
<1>2. /\ main = "collecting" /\ main' = "collecting" /\ asked' = asked
      /\ block' = block /\ idx' = idx /\ reply' = reply /\ merged' = merged
  BY DEF MergeReply, ReceiveOk, blockVars
<1>3. idx = Len(block) /\ n \in Nat
  BY <1>0, <1>1, <1>2 DEF RoutingInv, RoutedFirst, MergeInv
<1>4. txResults' = [i \in 1..Len(block') |-> Due(i)']
  <2>1. /\ txResults = [i \in 1..Len(block) |-> Due(i)]
        /\ txResults' = PlaceResults(txResults, a, responseSlots[a], n)
    BY <1>0 DEF MergeInv, MergeReply
  <2>2. /\ DOMAIN txResults = 1..Len(block)
        /\ txResults' = [i \in 1..Len(block) |-> txResults'[i]]
    BY <2>1 DEF PlaceResults
  <2>3. ASSUME NEW i \in 1..Len(block) PROVE txResults'[i] = Due(i)'
    <3>1. txResults'[i] = IF HeaderId(block[i]) = a /\ Rank(i) <= n
                          THEN [app |-> a, nth |-> Rank(i)]
                          ELSE Due(i)
      BY <1>1, <1>3, <2>1, <2>2, PlacedWhereDue
    <3>2. Rank(i)' = Rank(i)
      BY <1>2 DEF Rank
    <3> QED
      BY <1>0, <1>1, <1>2, <3>1, <3>2 DEF Due
  <2> QED
    BY <1>2, <2>2, <2>3
<1>5. ParamsSaid'
  <2>1. params' = IF params = NoParams THEN reply[a].params ELSE params
    BY <1>0 DEF MergeReply
  <2>2. {reply'[b].params : b \in ToSet(received')} =
          {reply[b].params : b \in ToSet(received)} \cup {reply[a].params}
    BY <1>1, <1>2
  <2> QED
    BY <1>2, <2>1, <2>2 DEF ParamsSaid, MergeInv
<1>6. kept' = [b \in ToSet(received') |-> Part[b]]
  <2>1. /\ kept = [b \in ToSet(received) |-> Part[b]]
        /\ kept' = [b \in DOMAIN kept \cup {a} |-> IF b = a THEN Part[a] ELSE kept[b]]
    BY <1>0 DEF MergeInv, MergeReply
  <2> QED
    BY <1>1, <2>1
<1> QED
  BY <1>2, <1>4, <1>5, <1>6 DEF MergeInv

LEMMA AppFinalizesMergeInv ==
  ASSUME FanInv, MergeInv, NEW a \in Apps, NEW p \in Params \cup {NoParams},
         NEW n \in 0..(Len(handlerTxs[a]) + MaxExtra), RoutingInv, AppFinalizes(a, n, p)
  PROVE  MergeInv'
<1>1. /\ reply' = [reply EXCEPT ![a] = [results |-> n, params |-> p]]
      /\ a \notin ToSet(received)
      /\ received' = received /\ main' = main /\ asked' = asked
      /\ block' = block /\ txResults' = txResults /\ params' = params
      /\ kept' = kept /\ merged' = merged
  BY CallingNotReceived DEF AppFinalizes, Answer, blockVars, responseVars
<1>2. n \in Nat
  <2>1. Len(handlerTxs[a]) \in Nat
    BY LenProperties DEF RoutingInv, RoutingTypeOK
  <2> QED
    BY <2>1, MaxExtraIsNat
<1>3. reply' \in [Apps -> [results : Nat, params : Params \cup {NoParams}]]
  BY <1>1, <1>2 DEF MergeInv
<1>4. \A b \in ToSet(received) : reply'[b] = reply[b]
  <2>1. ToSet(received) \in SUBSET Apps
    <3>1. received \in Seq(Apps) /\ DOMAIN received = 1..Len(received)
      BY LenProperties DEF FanInv, FanTypeOK
    <3> QED
      BY <3>1, ElementOfSeq DEF ToSet
  <2> QED
    BY <1>1, <2>1 DEF MergeInv
<1>5. \A i \in 1..Len(block) : Due(i)' = Due(i)
  <2>1. \A i : Rank(i)' = Rank(i)
    BY <1>1 DEF Rank
  <2> QED
    BY <1>1, <1>4, <2>1 DEF Due
<1>6. {reply'[b].params : b \in ToSet(received')} = {reply[b].params : b \in ToSet(received)}
  BY <1>1, <1>4
<1>7. ParamsSaid'
  BY <1>1, <1>6 DEF ParamsSaid, MergeInv
<1> QED
  BY <1>1, <1>3, <1>5, <1>7 DEF MergeInv

LEMMA FinishMergeInv ==
  FanInv /\ MergeInv /\ OkMeansEveryoneCounted' /\ FinishBlock => MergeInv'
<1> SUFFICES ASSUME FanInv, MergeInv, OkMeansEveryoneCounted', FinishBlock
             PROVE  MergeInv'
  OBVIOUS
<1>1. /\ main = "collecting" /\ main' = "ok" /\ asked' = asked /\ received' = received
      /\ block' = block /\ reply' = reply /\ txResults' = txResults
      /\ params' = params /\ kept' = kept
  BY DEF FinishBlock, Finish, blockVars
<1>2. ToSet(received) = Apps
  BY <1>1 DEF OkMeansEveryoneCounted, MergeInv
<1>3. kept = [a \in Apps |-> Part[a]]
  BY <1>2 DEF MergeInv
<1>4. PICK keys \in SortChainAppIDs(Apps) :
        merged' = [f \in Fields |-> Join(kept, keys, f)]
  BY <1>3 DEF FinishBlock
<1>5. \A f \in Fields : Join(kept, keys, f) = Join(Part, keys, f)
  <2>1. \A j \in 1..Len(keys) : keys[j] \in Apps
    <3>1. Cardinality(Apps) \in Nat /\ keys \in [1..Cardinality(Apps) -> Apps]
      BY AppsFinite, FS_CardinalityType DEF SortChainAppIDs, SetToSeqs
    <3>2. Len(keys) = Cardinality(Apps)
      BY <3>1
    <3> QED
      BY <3>1, <3>2
  <2>2. \A f : [j \in 1..Len(keys) |-> kept[keys[j]][f]] =
               [j \in 1..Len(keys) |-> Part[keys[j]][f]]
    BY <1>3, <2>1
  <2> QED
    BY <2>2 DEF Join
<1>6. \A i : Due(i)' = Due(i)
  BY <1>1 DEF Due, Rank
<1>7. ParamsSaid'
  BY <1>1 DEF MergeInv, ParamsSaid
<1> QED
  BY <1>1, <1>4, <1>5, <1>6, <1>7 DEF MergeInv

LEMMA MergeStep ==
  /\ FanInv /\ RoutingInv /\ SlotsInv /\ MergeInv
  /\ OkMeansEveryoneCounted' /\ [FinalizeNext]_finalizeVars
  => MergeInv'
<1> SUFFICES ASSUME FanInv, RoutingInv, SlotsInv, MergeInv,
                    OkMeansEveryoneCounted', [FinalizeNext]_finalizeVars
             PROVE  MergeInv'
  OBVIOUS
<1>1. CASE MergeReply
  BY <1>1, MergeReplyInv
<1>2. ASSUME NEW a \in Apps, NEW p \in Params \cup {NoParams},
             NEW n \in 0..(Len(handlerTxs[a]) + MaxExtra), AppFinalizes(a, n, p)
      PROVE  MergeInv'
  BY <1>2, AppFinalizesMergeInv
<1>3. CASE FinishBlock
  BY <1>3, FinishMergeInv
<1>4. CASE RouteFinalizeTx \/ RefuseFinalize \/ DispatchAll \/ FailOnReply
             \/ FanOutAlone \/ (\E a \in Apps : AppFails(a)) \/ UNCHANGED finalizeVars
  <2>1. UNCHANGED <<reply, responseVars>> /\ block' = block /\ received' = received
    BY <1>4 DEF RouteFinalizeTx, RouteTx, RefuseFinalize, RefuseBlock, Refuse, DispatchAll,
       Dispatch, AppFails, Answer, FailOnReply, ReceiveErr, FanOutAlone, Spawn, StartCloser,
       GoroutineStep, Send, Done, Close, Rest, finalizeVars, fanVars, blockVars
  <2>2. main' = "ok" => main = "ok"
    BY <1>4 DEF RouteFinalizeTx, RouteTx, RefuseFinalize, RefuseBlock, Refuse, DispatchAll,
       Dispatch, AppFails, Answer, FailOnReply, ReceiveErr, FanOutAlone, Spawn, StartCloser,
       GoroutineStep, Send, Done, Close, Rest, finalizeVars, fanVars, blockVars
  <2>3. main' \notin {"routing", "err"} =>
          asked' = Apps \/ (main \notin {"routing", "err"} /\ asked' = asked)
    BY <1>4 DEF RouteFinalizeTx, RouteTx, RefuseFinalize, RefuseBlock, Refuse, DispatchAll,
       Dispatch, AppFails, Answer, FailOnReply, ReceiveErr, FanOutAlone, Spawn, StartCloser,
       GoroutineStep, Send, Done, Close, Rest, finalizeVars, fanVars, blockVars
  <2>4. /\ reply' = reply /\ txResults' = txResults /\ params' = params
        /\ kept' = kept /\ merged' = merged
    BY <2>1 DEF responseVars
  <2>5. \A i : Due(i)' = Due(i)
    BY <2>1, <2>4 DEF Due, Rank
  <2>6. ParamsSaid'
    <3>1. ParamsSaid /\ reply' = reply /\ params' = params /\ received' = received
      BY <2>1, <2>4 DEF MergeInv
    <3>2. {reply'[a].params : a \in ToSet(received')} = {reply[a].params : a \in ToSet(received)}
      BY <3>1
    <3> QED
      BY <3>1, <3>2 DEF ParamsSaid
  <2> QED
    BY <2>1, <2>2, <2>3, <2>4, <2>5, <2>6 DEF MergeInv
<1> QED
  BY <1>1, <1>2, <1>3, <1>4 DEF FinalizeNext

LEMMA FinalizeMergeInv == FinalizeSpec => []MergeInv
<1>1. FinalizeSpec => []OkMeansEveryoneCounted
  BY FinalizeImplementsFanOut, OkMeansEveryoneCountedHolds, PTL DEF ImplementsFanOut
<1> QED
  BY <1>1, MergeInitInv, MergeStep, FinalizeFanInv, FinalizeRoutingInv, FinalizeSlotsInv, PTL
     DEF FinalizeSpec

-----------------------------------------------------------------------------
(***************************************************************************)
(* What the caller may rely on.                                            *)
(***************************************************************************)

\* When the handler returns without an error every transaction has its app's
\* result at its place, whatever the order of the apps, the answers, the merge.
THEOREM ResultsMatchTransactionsHolds == FinalizeSpec => []ResultsMatchTransactions
<1>1. FinalizeSpec => []OkMeansEveryoneCounted
  BY FinalizeImplementsFanOut, OkMeansEveryoneCountedHolds, PTL DEF ImplementsFanOut
<1>2. OkMeansEveryoneCounted /\ RoutingInv /\ MergeInv => ResultsMatchTransactions
  <2> SUFFICES ASSUME OkMeansEveryoneCounted, RoutingInv, MergeInv, main = "ok",
                      NEW i \in 1..Len(block)
               PROVE  LET a == HeaderId(block[i])
                      IN txResults[i] = IF Rank(i) <= reply[a].results
                                        THEN [app |-> a, nth |-> Rank(i)]
                                        ELSE NoResult
    BY DEF ResultsMatchTransactions
  <2>1. ToSet(received) = Apps
    BY DEF OkMeansEveryoneCounted, MergeInv
  <2>2. HeaderId(block[i]) \in Apps
    BY DEF RoutingInv, RoutedFirst, HasHandler
  <2> QED
    BY <2>1, <2>2 DEF MergeInv, Due
<1> QED
  BY <1>1, <1>2, FinalizeRoutingInv, FinalizeMergeInv, PTL

\* The joined fields depend on the apps' answers alone: one sorted order exists.
THEOREM JoinIsDeterministicHolds == FinalizeSpec => []JoinIsDeterministic
<1>1. MergeInv => JoinIsDeterministic
  <2> SUFFICES ASSUME MergeInv, main = "ok",
                      NEW keys \in SortChainAppIDs(Apps), NEW f \in Fields
               PROVE  merged[f] = Join(Part, keys, f)
    BY DEF JoinIsDeterministic
  <2>1. PICK s \in SortChainAppIDs(Apps) : merged = [g \in Fields |-> Join(Part, s, g)]
    BY DEF MergeInv
  <2>2. s = keys
    BY AppsFinite, AppsAreIdentifiers, SortIsUnique
  <2> QED
    BY <2>1, <2>2
<1> QED
  BY <1>1, FinalizeMergeInv, PTL

\* Consensus parameters are neither lost nor invented.
THEOREM ParamsComeFromTheAppsHolds == FinalizeSpec => []ParamsComeFromTheApps
<1>1. FinalizeSpec => []OkMeansEveryoneCounted
  BY FinalizeImplementsFanOut, OkMeansEveryoneCountedHolds, PTL DEF ImplementsFanOut
<1>2. OkMeansEveryoneCounted /\ MergeInv => ParamsComeFromTheApps
  BY DEF OkMeansEveryoneCounted, MergeInv, ParamsSaid, ParamsComeFromTheApps
<1> QED
  BY <1>1, <1>2, FinalizeMergeInv, PTL

\* The variables have their types.
THEOREM FinalizeTypeCorrect == FinalizeSpec => []FinalizeTypeOK
<1>1. FanInv /\ RoutingInv /\ SlotsInv /\ MergeInv => FinalizeTypeOK
  <2> SUFFICES ASSUME FanInv, RoutingInv, SlotsInv, MergeInv PROVE FinalizeTypeOK
    OBVIOUS
  <2>1. block \in Seq(Seq(Byte)) /\ Len(block) \in Nat /\ idx \in 0..Len(block)
    BY BlocksAreBlocks, LenProperties DEF RoutingInv, RoutingTypeOK
  <2>2. ToSet(received) \in SUBSET Apps
    <3>1. received \in Seq(Apps) /\ DOMAIN received = 1..Len(received)
      BY LenProperties DEF FanInv, FanTypeOK
    <3> QED
      BY <3>1, ElementOfSeq DEF ToSet
  <2>3. ASSUME NEW i \in 1..Len(block) PROVE Due(i) \in Result \cup {NoResult}
    <3>1. CASE HeaderId(block[i]) \in ToSet(received)
      <4>1. HeaderId(block[i]) \in Apps /\ Rank(i) \in Nat \ {0}
        BY <2>1, <2>2, <3>1, RankIsPositive, i \in Nat \ {0}
      <4> QED
        BY <4>1 DEF Due, Result
    <3>2. CASE HeaderId(block[i]) \notin ToSet(received)
      BY <3>2 DEF Due
    <3> QED
      BY <3>1, <3>2
  <2>4. txResults \in [1..Len(block) -> Result \cup {NoResult}]
    BY <2>3 DEF MergeInv
  <2>5. params \in Params \cup {NoParams}
    <3>1. \A a \in ToSet(received) : reply[a].params \in Params \cup {NoParams}
      BY <2>2 DEF MergeInv
    <3> QED
      BY <3>1 DEF MergeInv, ParamsSaid
  <2>6. DOMAIN kept = ToSet(received) /\ kept = [a \in DOMAIN kept |-> Part[a]]
    BY DEF MergeInv
  <2>7. DOMAIN kept \subseteq Apps
    BY <2>2, <2>6
  <2>8. RoutingTypeOK /\ responseSlots \in [Apps -> Seq(1..Len(block))]
    BY DEF RoutingInv, SlotsInv
  <2>9. /\ reply \in [Apps -> [results : Nat, params : Params \cup {NoParams}]]
        /\ DOMAIN merged = Fields
    BY DEF MergeInv
  <2> QED
    BY <2>4, <2>5, <2>6, <2>7, <2>8, <2>9 DEF FinalizeTypeOK
<1> QED
  BY <1>1, FinalizeFanInv, FinalizeRoutingInv, FinalizeSlotsInv, FinalizeMergeInv, PTL
=============================================================================
