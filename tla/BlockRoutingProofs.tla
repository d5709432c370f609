------------------------- MODULE BlockRoutingProofs -------------------------
(***************************************************************************)
(* The routing loop, for every finite set of apps and all blocks: what     *)
(* each app is given is its share of the block, and a block that cannot be *)
(* routed reaches no app.  The lemmas are about the state and the steps    *)
(* that ProcessProposal and FinalizeBlock have in common; the modules of   *)
(* their proofs cite them.                                                 *)
(***************************************************************************)
EXTENDS BlockRouting, FanOutProofs, RoutingProofs

(***************************************************************************)
(* Ranks: the places of an app's transactions in its own list.             *)
(***************************************************************************)

\* The positions up to i of transactions for the same app.
UpTo(i) == {j \in 1..i : HeaderId(block[j]) = HeaderId(block[i])}

LEMMA RankProperties ==
  ASSUME idx \in Nat, NEW a, NEW i \in PositionsOf(a)
  PROVE  /\ IsFiniteSet(PositionsOf(a))
         /\ Rank(i) \in 1..Cardinality(PositionsOf(a))
         /\ \A j \in PositionsOf(a) : Rank(i) = Rank(j) => i = j
<1>1. /\ PositionsOf(a) \in SUBSET (1..idx) /\ IsFiniteSet(1..idx)
      /\ \A j \in PositionsOf(a) : j \in Nat /\ HeaderId(block[j]) = a
  BY FS_Interval DEF PositionsOf
<1>2. IsFiniteSet(PositionsOf(a)) /\ Cardinality(PositionsOf(a)) \in Nat
  BY <1>1, FS_Subset, FS_CardinalityType
<1>3. ASSUME NEW j \in PositionsOf(a)
      PROVE  /\ UpTo(j) \in SUBSET PositionsOf(a) /\ j \in UpTo(j)
             /\ IsFiniteSet(UpTo(j)) /\ Rank(j) = Cardinality(UpTo(j))
  <2>1. UpTo(j) \in SUBSET PositionsOf(a) /\ j \in UpTo(j)
    BY <1>1 DEF UpTo, PositionsOf
  <2> QED
    BY <1>2, <2>1, FS_Subset DEF Rank, UpTo
<1>4. Rank(i) \in 1..Cardinality(PositionsOf(a))
  <2>1. Cardinality(UpTo(i)) \in Nat /\ Cardinality(UpTo(i)) # 0
    BY <1>3, FS_CardinalityType, FS_EmptySet
  <2>2. Cardinality(UpTo(i)) <= Cardinality(PositionsOf(a))
    BY <1>2, <1>3, FS_Subset
  <2> QED
    BY <1>2, <1>3, <2>1, <2>2
<1>5. ASSUME NEW j \in PositionsOf(a), NEW k \in PositionsOf(a), j < k
      PROVE  Rank(j) # Rank(k)
  <2>1. UpTo(j) \in SUBSET UpTo(k) /\ k \in UpTo(k) /\ k \notin UpTo(j)
    BY <1>1, <1>5 DEF UpTo
  <2> QED
    BY <1>3, <2>1, FS_Subset
<1>6. \A j \in PositionsOf(a) : Rank(i) = Rank(j) => i = j
  <2> SUFFICES ASSUME NEW j \in PositionsOf(a), Rank(i) = Rank(j), i # j PROVE FALSE
    OBVIOUS
  <2>1. i < j \/ j < i
    BY <1>1
  <2> QED
    BY <1>5, <2>1
<1> QED
  BY <1>2, <1>4, <1>6

\* The next transaction to be routed is the last of its app's so far.
LEMMA RankOfNext ==
  ASSUME idx \in Nat, NEW a, a = HeaderId(block[idx + 1])
  PROVE  /\ Cardinality(PositionsOf(a)) \in Nat
         /\ Rank(idx + 1) = Cardinality(PositionsOf(a)) + 1
<1>1. UpTo(idx + 1) = PositionsOf(a) \cup {idx + 1} /\ idx + 1 \notin PositionsOf(a)
  BY DEF UpTo, PositionsOf
<1>2. IsFiniteSet(PositionsOf(a)) /\ Cardinality(PositionsOf(a)) \in Nat
  <2>1. PositionsOf(a) \in SUBSET (1..idx) /\ IsFiniteSet(1..idx)
    BY FS_Interval DEF PositionsOf
  <2> QED
    BY <2>1, FS_Subset, FS_CardinalityType
<1>3. Cardinality(UpTo(idx + 1)) = Cardinality(PositionsOf(a)) + 1
  BY <1>1, <1>2, FS_AddElement
<1> QED
  BY <1>2, <1>3 DEF Rank, UpTo

-----------------------------------------------------------------------------
(***************************************************************************)
(* The invariant of the routing loop.                                      *)
(***************************************************************************)

\* Each app's list is the routed part of its share.
Shares ==
  \A a \in Apps :
    /\ Len(handlerTxs[a]) = Cardinality(PositionsOf(a))
    /\ \A i \in PositionsOf(a) : handlerTxs[a][Rank(i)] = Strip(block[i])

\* Everything is routed before anyone is asked.
RoutedFirst ==
  /\ main \notin {"routing", "err"} => idx = Len(block)
  /\ (\E a \in Apps : gor[a] # "none") => idx = Len(block)

RoutingInv ==
  /\ RoutingTypeOK
  /\ RoutedFirst
  /\ \A i \in 1..idx : HasHandler(Apps, block[i])
  /\ Shares

\* The loop starts with empty lists.
LEMMA RoutingInitInv == RoutingInit => RoutingInv
<1> SUFFICES ASSUME RoutingInit PROVE RoutingInv
  OBVIOUS
<1>1. FanTypeOK /\ main = "routing" /\ \A a \in Apps : gor[a] = "none"
  BY FanInitInv DEF RoutingInit, FanInv, FanInit
<1>2. block \in Seq(Seq(Byte)) /\ Len(block) \in Nat
  BY BlocksAreBlocks, LenProperties DEF RoutingInit
<1>3. <<>> \in Seq(Seq(Byte)) /\ Len(<<>>) = 0
  BY EmptySeq
<1>4. RoutingTypeOK
  BY <1>1, <1>2, <1>3 DEF RoutingTypeOK, RoutingInit
<1>5. \A a \in Apps : PositionsOf(a) = {}
  BY DEF PositionsOf, RoutingInit
<1>6. Shares
  BY <1>3, <1>5, FS_EmptySet DEF Shares, RoutingInit
<1> QED
  BY <1>1, <1>4, <1>6 DEF RoutingInv, RoutedFirst, RoutingInit

\* One turn of the loop keeps the lists right.
LEMMA RouteTxInv == RoutingInv /\ RouteTx => RoutingInv'
<1> SUFFICES ASSUME RoutingInv, RouteTx PROVE RoutingInv'
  OBVIOUS
<1>0. PICK i, tx, id : i = idx + 1 /\ tx = block[i] /\ id = HeaderId(tx)
  OBVIOUS
<1>1. /\ block \in Seq(Seq(Byte)) /\ Len(block) \in Nat /\ idx \in 0..Len(block)
      /\ idx < Len(block) /\ i \in 1..Len(block) /\ idx \in Nat
      /\ idx' = i /\ block' = block
  BY <1>0, BlocksAreBlocks, LenProperties DEF RoutingInv, RoutingTypeOK, RouteTx
<1>2. tx \in Seq(Byte) /\ HasHandler(Apps, tx) /\ id \in Apps /\ Strip(tx) \in Seq(Byte)
  <2>1. tx \in Seq(Byte)
    BY <1>0, <1>1, ElementOfSeq
  <2>2. HasHandler(Apps, tx) /\ id \in Apps /\ CheckHeader(tx)
    BY <1>0 DEF RouteTx, HasHandler
  <2> QED
    BY <2>1, <2>2, HeaderAndStrip
<1>3. /\ handlerTxs \in [Apps -> Seq(Seq(Byte))]
      /\ handlerTxs' = [handlerTxs EXCEPT ![id] = Append(@, Strip(tx))]
  BY <1>0 DEF RoutingInv, RoutingTypeOK, RouteTx
<1>4. /\ handlerTxs'[id] = Append(handlerTxs[id], Strip(tx))
      /\ handlerTxs'[id] \in Seq(Seq(Byte)) /\ Len(handlerTxs[id]) \in Nat
      /\ Len(handlerTxs'[id]) = Len(handlerTxs[id]) + 1
      /\ \A k \in 1..Len(handlerTxs[id]) : handlerTxs'[id][k] = handlerTxs[id][k]
      /\ handlerTxs'[id][Len(handlerTxs[id]) + 1] = Strip(tx)
  <2>1. /\ handlerTxs[id] \in Seq(Seq(Byte))
        /\ handlerTxs'[id] = Append(handlerTxs[id], Strip(tx))
    BY <1>2, <1>3
  <2> QED
    BY <1>2, <2>1, AppendProperties, LenProperties
<1>5. main = "routing" /\ UNCHANGED fanVars
  BY DEF RouteTx
<1>6. RoutingTypeOK'
  <2>1. FanTypeOK'
    BY <1>5 DEF RoutingInv, RoutingTypeOK, FanTypeOK, fanVars
  <2>2. handlerTxs' \in [Apps -> Seq(Seq(Byte))]
    BY <1>2, <1>3, <1>4
  <2>3. block' \in Blocks /\ idx' \in 0..Len(block')
    BY <1>1 DEF RoutingInv, RoutingTypeOK
  <2> QED
    BY <2>1, <2>2, <2>3 DEF RoutingTypeOK
<1>7. RoutedFirst'
  <2>1. \A a \in Apps : gor[a] = "none"
    BY <1>1, <1>5 DEF RoutingInv, RoutedFirst
  <2> QED
    BY <1>5, <2>1 DEF RoutedFirst, fanVars
<1>8. (\A j \in 1..idx : HasHandler(Apps, block[j]))'
  <2>1. \A j \in 1..i : j = i \/ j \in 1..idx
    BY <1>0, <1>1
  <2> QED
    BY <1>0, <1>1, <1>2, <2>1 DEF RoutingInv
<1>9. \A j : Rank(j)' = Rank(j)
  BY <1>1 DEF Rank
<1>10. ASSUME NEW a \in Apps, a # id
       PROVE  (/\ Len(handlerTxs[a]) = Cardinality(PositionsOf(a))
               /\ \A j \in PositionsOf(a) : handlerTxs[a][Rank(j)] = Strip(block[j]))'
  <2>1. PositionsOf(a)' = PositionsOf(a)
    BY <1>0, <1>1, <1>10 DEF PositionsOf
  <2>2. handlerTxs'[a] = handlerTxs[a]
    BY <1>3, <1>10
  <2> QED
    BY <1>1, <1>9, <2>1, <2>2 DEF RoutingInv, Shares
<1>11. (/\ Len(handlerTxs[id]) = Cardinality(PositionsOf(id))
        /\ \A j \in PositionsOf(id) : handlerTxs[id][Rank(j)] = Strip(block[j]))'
  <2>1. /\ Len(handlerTxs[id]) = Cardinality(PositionsOf(id))
        /\ \A j \in PositionsOf(id) : handlerTxs[id][Rank(j)] = Strip(block[j])
    BY <1>2 DEF RoutingInv, Shares
  <2>2. PositionsOf(id)' = PositionsOf(id) \cup {i} /\ i \notin PositionsOf(id)
    BY <1>0, <1>1 DEF PositionsOf
  <2>3. Rank(i) = Cardinality(PositionsOf(id)) + 1
    BY <1>0, <1>1, RankOfNext
  <2>4. Cardinality(PositionsOf(id)') = Cardinality(PositionsOf(id)) + 1
    <3>1. IsFiniteSet(PositionsOf(id))
      <4>1. PositionsOf(id) \in SUBSET (1..idx) /\ IsFiniteSet(1..idx)
        BY <1>1, FS_Interval DEF PositionsOf
      <4> QED
        BY <4>1, FS_Subset
    <3> QED
      BY <2>2, <3>1, FS_AddElement
  <2>5. Len(handlerTxs'[id]) = Cardinality(PositionsOf(id)')
    BY <1>4, <2>1, <2>4
  <2>6. ASSUME NEW j \in PositionsOf(id)
        PROVE  handlerTxs'[id][Rank(j)] = Strip(block[j])
    <3>1. Rank(j) \in 1..Len(handlerTxs[id])
      BY <1>1, <2>1, RankProperties
    <3> QED
      BY <1>4, <2>1, <3>1
  <2>7. handlerTxs'[id][Rank(i)] = Strip(block[i])
    BY <1>0, <1>4, <2>1, <2>3
  <2> QED
    BY <1>1, <1>9, <2>2, <2>5, <2>6, <2>7
<1>12. Shares'
  BY <1>10, <1>11 DEF Shares
<1> QED
  BY <1>6, <1>7, <1>8, <1>12 DEF RoutingInv

\* No other step touches the lists, and the loop is over before an app is asked.
LEMMA RoutingStutterInv ==
  ASSUME RoutingInv, UNCHANGED blockVars, FanTypeOK', [FanNext \/ Rest]_fanVars,
         main = "routing" /\ main' = "spawning" => idx = Len(block)
  PROVE  RoutingInv'
<1>1. RoutingTypeOK'
  BY DEF RoutingInv, RoutingTypeOK, blockVars
<1>2. main' \notin {"routing", "err"} /\ main \in {"routing", "err"} => idx = Len(block)
  BY DEF FanNext, Refuse, Dispatch, Spawn, StartCloser, Answer, GoroutineStep, Send,
     Done, Close, ReceiveOk, ReceiveErr, Finish, Rest, fanVars
<1>3. ASSUME NEW a \in Apps, gor'[a] # "none", gor[a] = "none"
      PROVE  main = "spawning"
  BY <1>3 DEF FanNext, Refuse, Dispatch, Spawn, StartCloser, Answer, GoroutineStep, Send,
     Done, Close, ReceiveOk, ReceiveErr, Finish, Rest, fanVars, RoutingInv,
     RoutingTypeOK, FanTypeOK
<1>4. RoutedFirst'
  BY <1>2, <1>3 DEF RoutedFirst, RoutingInv, blockVars
<1>5. Shares' /\ (\A i \in 1..idx : HasHandler(Apps, block[i]))'
  BY DEF RoutingInv, Shares, PositionsOf, Rank, blockVars
<1> QED
  BY <1>1, <1>4, <1>5 DEF RoutingInv

\* The invariant gives each app its share and keeps bad blocks from all of them.
LEMMA RoutingInvImplies == RoutingInv => EachAppGetsItsShare /\ NoAppSeesABadBlock
<1> SUFFICES ASSUME RoutingInv PROVE EachAppGetsItsShare /\ NoAppSeesABadBlock
  OBVIOUS
<1>1. block \in Seq(Seq(Byte)) /\ Len(block) \in Nat /\ idx \in 0..Len(block)
  BY BlocksAreBlocks, LenProperties DEF RoutingInv, RoutingTypeOK
<1>2. ASSUME NEW a \in Apps, NEW i \in PositionsOf(a)
      PROVE  CreateMegablocksHeader(a) \o handlerTxs[a][Rank(i)] = block[i]
  <2>1. i \in 1..idx /\ HeaderId(block[i]) = a
    BY DEF PositionsOf
  <2>2. block[i] \in Seq(Byte)
    BY <1>1, <2>1, ElementOfSeq
  <2>3. CheckHeader(block[i])
    BY <2>1 DEF RoutingInv, HasHandler
  <2> QED
    BY <2>1, <2>2, <2>3, HeaderAndStrip DEF RoutingInv, Shares
<1>3. EachAppGetsItsShare
  BY <1>2 DEF EachAppGetsItsShare, RoutingInv, Shares
<1>4. NoAppSeesABadBlock
  BY DEF NoAppSeesABadBlock, RoutingInv, RoutedFirst
<1> QED
  BY <1>3, <1>4
=============================================================================
