---------------------------- MODULE MuxNodeProofs ----------------------------
(***************************************************************************)
(* Commit through the multiplexer, for any set of apps, any number of      *)
(* blocks and any number of crashes: what one app commits every app has    *)
(* executed.                                                               *)
(***************************************************************************)
EXTENDS MuxNode, WellFoundedInduction, TLAPS

\* The block the call is about is in the block store.
BlockIsStored ==
  phase \in {"finalizing", "committing", "halted"} => done < store

\* An app that has answered without an error has executed the block, and holds it
\* as long as its connection lives; where that is made again the block may be lost.
AnswersAreTrue ==
  phase = "finalizing" =>
    /\ asked = Apps
    /\ outcome = "pending"
    /\ \A a \in Apps : answer[a] = "ok" =>
         /\ ThisBlock \in executed[a]
         /\ link[a] => pending[a] = ThisBlock \/ (a \in Reconnecting /\ pending[a] = 0)

\* Commit is called only when all have answered so.
AllHaveExecuted ==
  phase = "committing" => \A a \in Apps : ThisBlock \in executed[a]

\* The apps that the loop in Commit has been to have committed the block.
CommittedSoFar ==
  phase = "committing" => \A a \in Apps \ todo : ThisBlock \in applied[a]

\* An app without a connection has died since it had one, and has nothing open.
NothingBehindALostLink == \A a \in Apps : ~link[a] => pending[a] = 0

\* An SDK chain has executed nothing beyond the block after its last.
NothingSkipped ==
  \A a \in Reporting : \A k \in executed[a] : k - 1 \in applied[a] \cup {0}

MuxInv ==
  /\ MuxTypeOK
  /\ NothingSkipped
  /\ BlockIsStored
  /\ AnswersAreTrue
  /\ AllHaveExecuted
  /\ CommittedSoFar
  /\ NothingBehindALostLink
  /\ CommitFindsTheBlock
  /\ CommittedOnlyIfAllExecuted

-----------------------------------------------------------------------------
\* A set of block numbers has a greatest element, or it is empty: CHOOSE finds the
\* height of an app.
LEMMA HeightExists ==
  ASSUME NEW n \in Nat, NEW S \in SUBSET (1..n)
  PROVE  \E h \in S \cup {0} : \A k \in S : k <= h
<1> DEFINE U == {m \in Nat : \A k \in S : k <= m}
<1>1. n \in U
  OBVIOUS
<1>2. PICK h \in U : \A m \in U : h <= m
  <2> DEFINE R == OpToRel(<, Nat)
  <2>1. IsWellFoundedOn(R, Nat)
    BY NatLessThanWellFounded
  <2>2. U \subseteq Nat /\ U # {}
    BY <1>1
  <2>3. \A j, k \in Nat : <<j, k>> \in R <=> j < k
    BY DEF OpToRel
  <2> HIDE DEF R, U
  <2>4. PICK h \in U : \A m \in U : ~ (<<m, h>> \in R)
    BY <2>1, <2>2, WFMin
  <2>5. ASSUME NEW m \in U
        PROVE  h <= m
    <3>1. m \in Nat /\ h \in Nat
      BY <2>2, <2>4
    <3>2. ~ (m < h)
      BY <2>3, <2>4, <3>1, Zenon
    <3> QED
      BY <3>1, <3>2
  <2> QED
    BY <2>4, <2>5
<1>3. h \in S \cup {0}
  <2> SUFFICES ASSUME h \notin S, h # 0
               PROVE  FALSE
    OBVIOUS
  <2>1. h - 1 \in Nat /\ h \in Nat
    BY <1>2
  <2>2. \A k \in S : k <= h - 1
    <3> SUFFICES ASSUME NEW k \in S
                 PROVE  k <= h - 1
      OBVIOUS
    <3>1. k \in Int /\ k <= h /\ k # h
      BY <1>2
    <3> QED
      BY <2>1, <3>1
  <2>3. h <= h - 1
    BY <1>2, <2>1, <2>2
  <2> QED
    BY <2>1, <2>3
<1> QED
  BY <1>2, <1>3

LEMMA HeightIsGreatest ==
  ASSUME MuxTypeOK, NEW a \in Apps
  PROVE  /\ Height(a) \in applied[a] \cup {0}
         /\ \A k \in applied[a] : k <= Height(a)
         /\ Height(a) \in Nat
<1>1. store \in Nat /\ applied[a] \in SUBSET (1..store)
  BY NodeBounds DEF MuxTypeOK
<1>2. /\ Height(a) \in applied[a] \cup {0}
      /\ \A k \in applied[a] : k <= Height(a)
  BY <1>1, HeightExists DEF Height
<1> QED
  BY <1>1, <1>2

LEMMA InfoHeightIsNat ==
  ASSUME MuxTypeOK, NEW a \in Apps
  PROVE  InfoHeight(a) \in Nat
BY HeightIsGreatest DEF InfoHeight

-----------------------------------------------------------------------------
LEMMA MuxInvInit ==
  ASSUME MuxInit
  PROVE  MuxInv
BY NodeBounds, ReportingApps
DEF MuxInit, Call!GatherInit, MuxInv, MuxTypeOK, NothingSkipped, BlockIsStored,
    AnswersAreTrue, AllHaveExecuted, CommittedSoFar, NothingBehindALostLink,
    CommitFindsTheBlock, CommittedOnlyIfAllExecuted

LEMMA StartKeeps ==
  ASSUME MuxInv, NEW a \in Apps, StartNode(a)
  PROVE  MuxInv'
<1>1. InfoHeight(a) \in Nat
  BY InfoHeightIsNat DEF MuxInv
<1>2. MuxTypeOK'
  BY <1>1, NodeBounds DEF StartNode, MuxInv, MuxTypeOK, appVars, callVars
<1> QED
  BY <1>2 DEF StartNode, MuxInv, NothingSkipped, BlockIsStored, AnswersAreTrue,
              AllHaveExecuted, CommittedSoFar, NothingBehindALostLink,
              CommitFindsTheBlock, CommittedOnlyIfAllExecuted, appVars

LEMMA DecideKeeps ==
  ASSUME MuxInv, Decide
  PROVE  MuxInv'
<1>1. MuxTypeOK'
  BY NodeBounds DEF Decide, MuxInv, MuxTypeOK, appVars, callVars
<1> QED
  BY <1>1 DEF Decide, MuxInv, NothingSkipped, BlockIsStored, AnswersAreTrue,
              AllHaveExecuted, CommittedSoFar, NothingBehindALostLink,
              CommitFindsTheBlock, CommittedOnlyIfAllExecuted, appVars

LEMMA CallKeeps ==
  ASSUME MuxInv, CallFinalize
  PROVE  MuxInv'
<1>1. MuxTypeOK'
  BY DEF CallFinalize, MuxInv, MuxTypeOK, appVars, AskedApps
<1> QED
  BY <1>1 DEF CallFinalize, AskedApps, MuxInv, NothingSkipped, BlockIsStored,
              AnswersAreTrue, AllHaveExecuted, CommittedSoFar,
              NothingBehindALostLink, CommitFindsTheBlock,
              CommittedOnlyIfAllExecuted, appVars

\* An app's answer is true when it is given.
LEMMA ExecuteKeeps ==
  ASSUME MuxInv, NEW a \in Apps, AppExecutes(a)
  PROVE  MuxInv'
<1> USE DEF AppExecutes, Call!Reply, cometVars
<1>1. phase \in {"finalizing", "halted"} /\ phase' = phase /\ ThisBlock' = ThisBlock
  BY DEF ThisBlock
<1>2. ThisBlock \in 1..store
  BY <1>1, NodeBounds DEF MuxInv, MuxTypeOK, BlockIsStored, ThisBlock
<1>3. MuxTypeOK'
  BY <1>2 DEF MuxInv, MuxTypeOK
<1>4. AnswersAreTrue'
  BY <1>1 DEF MuxInv, MuxTypeOK, AnswersAreTrue
<1>5. CommittedOnlyIfAllExecuted'
  BY DEF MuxInv, MuxTypeOK, CommittedOnlyIfAllExecuted
<1>6. NothingSkipped'
  <2> SUFFICES ASSUME NEW b \in Reporting, NEW k \in executed'[b]
               PROVE  k - 1 \in applied[b] \cup {0}
    BY DEF NothingSkipped
  <2>1. CASE k \in executed[b]
    BY <2>1 DEF MuxInv, NothingSkipped
  <2>2. CASE b = a /\ k = ThisBlock
    <3>1. Height(a) = done /\ Height(a) \in applied[a] \cup {0} /\ Height(a) \in Nat
      BY <2>2, HeightIsGreatest, ReportingApps DEF MuxInv, Accepts
    <3> QED
      BY <2>2, <3>1 DEF ThisBlock
  <2> QED
    BY <2>1, <2>2, ReportingApps DEF MuxInv, MuxTypeOK
<1> QED
  BY <1>1, <1>3, <1>4, <1>5, <1>6
  DEF MuxInv, BlockIsStored, AllHaveExecuted, CommittedSoFar, NothingBehindALostLink,
      CommitFindsTheBlock

LEMMA RefuseKeeps ==
  ASSUME MuxInv, NEW a \in Apps, AppRefuses(a)
  PROVE  MuxInv'
<1> USE DEF AppRefuses, Call!Reply, cometVars, appVars
<1>1. phase' = phase /\ ThisBlock' = ThisBlock
  BY DEF ThisBlock
<1>2. MuxTypeOK'
  BY DEF MuxInv, MuxTypeOK
<1>3. AnswersAreTrue'
  BY <1>1 DEF MuxInv, MuxTypeOK, AnswersAreTrue
<1> QED
  BY <1>1, <1>2, <1>3
  DEF MuxInv, NothingSkipped, BlockIsStored, AllHaveExecuted, CommittedSoFar,
      NothingBehindALostLink, CommitFindsTheBlock, CommittedOnlyIfAllExecuted

\* A call that succeeds has the answers of all apps, and they are true.
LEMMA FinalizedKeeps ==
  ASSUME MuxInv, BlockFinalized
  PROVE  MuxInv'
<1> USE DEF BlockFinalized, Call!Succeed, appVars
<1>1. MuxTypeOK'
  BY DEF MuxInv, MuxTypeOK
<1>2. \A a \in Apps :
        /\ ThisBlock \in executed[a]
        /\ link[a] => pending[a] = ThisBlock \/ (a \in Reconnecting /\ pending[a] = 0)
  BY DEF MuxInv, AnswersAreTrue
<1> QED
  BY <1>1, <1>2
  DEF MuxInv, NothingSkipped, BlockIsStored, AnswersAreTrue, AllHaveExecuted,
      CommittedSoFar, NothingBehindALostLink, CommitFindsTheBlock,
      CommittedOnlyIfAllExecuted, ThisBlock

LEMMA FailKeeps ==
  ASSUME MuxInv, FinalizeFails \/ \E a \in Apps : CommitFails(a)
  PROVE  MuxInv'
<1> USE DEF FinalizeFails, CommitFails, Call!Fail, appVars, callVars
<1>1. MuxTypeOK'
  BY DEF MuxInv, MuxTypeOK
<1> QED
  BY <1>1
  DEF MuxInv, NothingSkipped, BlockIsStored, AnswersAreTrue, AllHaveExecuted,
      CommittedSoFar, NothingBehindALostLink, CommitFindsTheBlock,
      CommittedOnlyIfAllExecuted

\* What an app commits is the block of this call, which all have executed.
LEMMA CommitKeeps ==
  ASSUME MuxInv, NEW a \in Apps, CommitApp(a)
  PROVE  MuxInv'
<1> USE DEF CommitApp, cometVars, callVars
<1>1. /\ phase = "committing" /\ phase' = phase /\ ThisBlock' = ThisBlock
      /\ pending[a] = ThisBlock
  BY DEF MuxInv, CommitFindsTheBlock, ThisBlock
<1>2. ThisBlock \in 1..store
  BY <1>1, NodeBounds DEF MuxInv, MuxTypeOK, BlockIsStored, ThisBlock
<1>3. MuxTypeOK'
  BY <1>1, <1>2 DEF MuxInv, MuxTypeOK
<1>4. \A b \in Apps : applied'[b] \subseteq applied[b] \cup {ThisBlock}
  BY <1>1 DEF MuxInv, MuxTypeOK
<1>5. CommittedOnlyIfAllExecuted'
  BY <1>1, <1>4 DEF MuxInv, AllHaveExecuted, CommittedOnlyIfAllExecuted
<1>6. CommitFindsTheBlock'
  BY DEF MuxInv, MuxTypeOK, CommitFindsTheBlock
<1>7. NothingSkipped'
  BY ReportingApps DEF MuxInv, MuxTypeOK, NothingSkipped
<1>8. CommittedSoFar' /\ NothingBehindALostLink'
  BY <1>1, <1>4 DEF MuxInv, MuxTypeOK, CommittedSoFar, NothingBehindALostLink
<1> QED
  BY <1>1, <1>3, <1>5, <1>6, <1>7, <1>8
  DEF MuxInv, BlockIsStored, AnswersAreTrue, AllHaveExecuted

LEMMA ReturnKeeps ==
  ASSUME MuxInv, CommitReturns
  PROVE  MuxInv'
<1>1. MuxTypeOK'
  BY NodeBounds
  DEF CommitReturns, MuxInv, MuxTypeOK, BlockIsStored, appVars, callVars
<1> QED
  BY <1>1
  DEF CommitReturns, MuxInv, NothingSkipped, BlockIsStored, AnswersAreTrue,
      AllHaveExecuted, CommittedSoFar, NothingBehindALostLink, CommitFindsTheBlock,
      CommittedOnlyIfAllExecuted, appVars

\* A crash takes away what the app has open and with it the connection.
LEMMA CrashKeeps ==
  ASSUME MuxInv, NEW a \in Apps, AppCrash(a)
  PROVE  MuxInv'
<1> USE DEF AppCrash, cometVars, callVars
<1>1. phase' = phase /\ ThisBlock' = ThisBlock
  BY DEF ThisBlock
<1>2. MuxTypeOK'
  BY NodeBounds DEF MuxInv, MuxTypeOK
<1>3. \A b \in Apps : link'[b] => link[b] /\ pending'[b] = pending[b]
  BY DEF MuxInv, MuxTypeOK
<1>4. NothingBehindALostLink'
  BY DEF MuxInv, MuxTypeOK, NothingBehindALostLink
<1> QED
  BY <1>1, <1>2, <1>3, <1>4
  DEF MuxInv, NothingSkipped, BlockIsStored, AnswersAreTrue, AllHaveExecuted,
      CommittedSoFar, NothingBehindALostLink, CommitFindsTheBlock,
      CommittedOnlyIfAllExecuted

\* A new connection leads to an app that has nothing open, or had it all along.
LEMMA ReconnectKeeps ==
  ASSUME MuxInv, NEW a \in Apps, Reconnect(a)
  PROVE  MuxInv'
<1> USE DEF Reconnect, cometVars, appVars, callVars
<1>1. phase' = phase /\ ThisBlock' = ThisBlock
  BY DEF ThisBlock
<1>2. MuxTypeOK'
  BY NodeBounds DEF MuxInv, MuxTypeOK
<1> QED
  BY <1>1, <1>2
  DEF MuxInv, NothingSkipped, BlockIsStored, AnswersAreTrue, AllHaveExecuted,
      CommittedSoFar, NothingBehindALostLink, CommitFindsTheBlock,
      CommittedOnlyIfAllExecuted

LEMMA DownKeeps ==
  ASSUME MuxInv, NodeCrash \/ EndNode
  PROVE  MuxInv'
<1> USE DEF NodeCrash, EndNode, appVars, callVars
<1>1. MuxTypeOK'
  BY NodeBounds DEF MuxInv, MuxTypeOK
<1> QED
  BY <1>1
  DEF MuxInv, NothingSkipped, BlockIsStored, AnswersAreTrue, AllHaveExecuted,
      CommittedSoFar, NothingBehindALostLink, CommitFindsTheBlock,
      CommittedOnlyIfAllExecuted

LEMMA StutterKeeps ==
  ASSUME MuxInv, UNCHANGED muxVars
  PROVE  MuxInv'
BY DEF MuxInv, MuxTypeOK, NothingSkipped, BlockIsStored, AnswersAreTrue,
       AllHaveExecuted, CommittedSoFar, NothingBehindALostLink, CommitFindsTheBlock,
       CommittedOnlyIfAllExecuted, ThisBlock, muxVars, cometVars, appVars, callVars

-----------------------------------------------------------------------------
\* The inductive invariant.  That a commit concerns a block all apps have executed is
\* not inductive by itself: it rests on what an app holds between the two calls, which
\* after a crash and a new connection may be nothing, but never another block.
THEOREM MuxInvariance == MuxSpec => []MuxInv
<1>1. MuxInit => MuxInv
  BY MuxInvInit
<1>2. MuxInv /\ [MuxNext]_muxVars => MuxInv'
  <2> SUFFICES ASSUME MuxInv, [MuxNext]_muxVars
               PROVE  MuxInv'
    OBVIOUS
  <2>1. ASSUME NEW a \in Apps,
               \/ StartNode(a) \/ AppExecutes(a) \/ AppRefuses(a)
               \/ CommitApp(a) \/ AppCrash(a) \/ Reconnect(a)
        PROVE  MuxInv'
    BY <2>1, StartKeeps, ExecuteKeeps, RefuseKeeps, CommitKeeps, CrashKeeps,
       ReconnectKeeps
  <2>2. CASE Decide \/ CallFinalize \/ BlockFinalized \/ CommitReturns
    BY <2>2, DecideKeeps, CallKeeps, FinalizedKeeps, ReturnKeeps
  <2>3. CASE FinalizeFails \/ \E a \in Apps : CommitFails(a)
    BY <2>3, FailKeeps
  <2>4. CASE NodeCrash \/ EndNode
    BY <2>4, DownKeeps
  <2>5. CASE UNCHANGED muxVars
    BY <2>5, StutterKeeps
  <2> QED
    BY <2>1, <2>2, <2>3, <2>4, <2>5 DEF MuxNext, BoundReached
<1> QED
  BY <1>1, <1>2, PTL DEF MuxSpec

\* A block that some app cannot execute is committed by none, whatever crashes and
\* whenever.
THEOREM CommittedOnlyIfAllExecutedHolds == MuxSpec => []CommittedOnlyIfAllExecuted
<1>1. MuxInv => CommittedOnlyIfAllExecuted
  BY DEF MuxInv
<1> QED
  BY <1>1, MuxInvariance, PTL

\* Commit never reaches an app that holds another block, and over a socket none that
\* has lost the block.
THEOREM CommitFindsTheBlockHolds == MuxSpec => []CommitFindsTheBlock
<1>1. MuxInv => CommitFindsTheBlock
  BY DEF MuxInv
<1> QED
  BY <1>1, MuxInvariance, PTL

\* The heights of two SDK chains differ by one block at most: the one that is ahead
\* has committed a block that the other has executed, on top of the one before it.
THEOREM HeightsStayCloseHolds == MuxSpec => []HeightsStayClose
<1>1. MuxInv => HeightsStayClose
  <2> SUFFICES ASSUME MuxInv, NEW a \in Reporting, NEW b \in Reporting
               PROVE  Height(a) <= Height(b) + 1
    BY DEF HeightsStayClose
  <2>1. /\ Height(a) \in applied[a] \cup {0} /\ Height(a) \in Nat
        /\ \A k \in applied[b] : k <= Height(b)
        /\ Height(b) \in Nat
    BY HeightIsGreatest, ReportingApps DEF MuxInv
  <2>2. CASE Height(a) = 0
    BY <2>1, <2>2
  <2>3. CASE Height(a) \in applied[a]
    <3>1. Height(a) \in executed[b]
      BY <2>3, ReportingApps DEF MuxInv, CommittedOnlyIfAllExecuted
    <3>2. Height(a) - 1 \in applied[b] \cup {0}
      BY <3>1 DEF MuxInv, NothingSkipped
    <3>3. Height(a) - 1 <= Height(b)
      BY <2>1, <3>2
    <3> QED
      BY <2>1, <3>3
  <2> QED
    BY <2>1, <2>2, <2>3
<1> QED
  BY <1>1, MuxInvariance, PTL

\* Commit returns without an error only when every app has committed the block it is
\* about, whatever has crashed while the loop was running.
THEOREM GoesOnTogetherHolds == MuxSpec => GoesOnTogether
<1>1. MuxInv /\ [MuxNext]_muxVars =>
        [phase = "committing" /\ phase' = "ready" =>
           \A a \in Apps : done' \in applied[a]]_muxVars
  <2> SUFFICES ASSUME MuxInv, MuxNext, phase = "committing", phase' = "ready"
               PROVE  \A a \in Apps : done' \in applied[a]
    BY DEF muxVars
  <2>1. CommitReturns
    BY DEF MuxNext, StartNode, AppExecutes, AppRefuses, CommitApp, CommitFails, AppCrash,
           Reconnect, Decide, CallFinalize, BlockFinalized, FinalizeFails, NodeCrash,
           EndNode, BoundReached, cometVars
  <2> QED
    BY <2>1 DEF CommitReturns, MuxInv, CommittedSoFar, ThisBlock
<1> QED
  BY <1>1, MuxInvariance, PTL DEF MuxSpec, GoesOnTogether

\* Type correctness; in particular no app is told of a block that is not in the store.
THEOREM MuxTypeCorrect == MuxSpec => []MuxTypeOK
<1>1. MuxInv => MuxTypeOK
  BY DEF MuxInv
<1> QED
  BY <1>1, MuxInvariance, PTL
=============================================================================
