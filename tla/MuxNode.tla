------------------------------ MODULE MuxNode ------------------------------
(***************************************************************************)
(* The life of a node with several apps behind the multiplexer: Info at    *)
(* its start, FinalizeBlock and Commit for each block, with crashes of the *)
(* apps and of the node (CometBFT and the multiplexer are one process) and *)
(* the replay of blocks after a restart.                                   *)
(*                                                                         *)
(* CometBFT is external: it stores a block before it has it executed, and  *)
(* stops for good when FinalizeBlock or Commit fails.  When it starts it   *)
(* continues above the height that Info reports; a block that is committed *)
(* according to Info counts as such also if Commit had not returned.  It   *)
(* refuses an AppHash from Info that is not the one it knows.  The apps    *)
(* are external, too: one that reports its height is an SDK chain, which   *)
(* executes only the block after its last; one that does not is a          *)
(* key-value store, which executes any.  So are the clients of CometBFT:   *)
(* that of a socket has stopped when its app is gone, that of gRPC, which  *)
(* the configuration may ask for as well, connects again by itself.        *)
(*                                                                         *)
(* InitChain is left out.  CometBFT has it called at a start at which Info *)
(* reports height 0, also again; it changes none of the variables here, as *)
(* an SDK chain that has a block refuses the first one all the same.       *)
(*                                                                         *)
(* FinalizeBlock appears here as what it is shown to implement: a Gather.  *)
(***************************************************************************)
EXTENDS Integers, FiniteSets

CONSTANTS
  Apps,            \* the registered apps
  Reporting,       \* those that report their height in Info
  Reconnecting,    \* those whose connection type is "grpc"
  MaxHeight,       \* bound: no more blocks than this
  MaxCrashes       \* bound: crashes of apps and of the node

ASSUME ReportingApps == Reporting \subseteq Apps
ASSUME ReconnectingApps == Reconnecting \subseteq Apps
ASSUME NodeBounds == MaxHeight \in Nat /\ MaxCrashes \in Nat

VARIABLES
  phase,           \* "down", "ready", "finalizing", "committing" or "halted"
  store,           \* CometBFT: blocks in its store
  saved,           \* CometBFT: blocks it knows to be committed
  done,            \* the height it has come to since its start
  link,            \* whether the multiplexer's connection to the app is alive
  pending,         \* the block an app has executed and not committed, or 0
  executed,        \* the blocks an app has ever executed
  applied,         \* the blocks an app has committed
  todo,            \* apps the loop in Commit has not come to
  crashes,         \* crashes so far
  asked, answer, outcome   \* the current call of FinalizeBlock: see Gather

callVars == <<asked, answer, outcome>>
cometVars == <<phase, store, saved, done>>
appVars == <<pending, executed, applied>>
muxVars == <<cometVars, appVars, link, todo, crashes, callVars>>

Call == INSTANCE Gather

MuxInit ==
  /\ phase = "down"
  /\ store = 0 /\ saved = 0 /\ done = 0
  /\ link = [a \in Apps |-> FALSE]
  /\ pending = [a \in Apps |-> 0]
  /\ executed = [a \in Apps |-> {}]
  /\ applied = [a \in Apps |-> {}]
  /\ todo = {}
  /\ crashes = 0
  /\ Call!GatherInit

-----------------------------------------------------------------------------
Height(a) == CHOOSE h \in applied[a] \cup {0} : \A k \in applied[a] : k <= h

\* What app a answers to Info.
InfoHeight(a) == IF a \in Reporting THEN Height(a) ELSE 0

\* The response to FinalizeBlock has joined the hashes of all apps that have one;
\* the response to Info holds the hash of one app.
HashIsKnown(a) == InfoHeight(a) = saved /\ saved > 0 => Reporting = {a}

\* The process starts, connects to every app and asks every app for Info; the map
\* decides whose answer comes last.
StartNode(last) ==
  /\ phase = "down"
  /\ InfoHeight(last) <= store
  /\ InfoHeight(last) = store => HashIsKnown(last)
  /\ phase' = "ready"
  /\ done' = InfoHeight(last)
  /\ saved' = IF InfoHeight(last) = store THEN store ELSE saved
  /\ link' = [a \in Apps |-> TRUE]
  /\ UNCHANGED <<store, appVars, todo, crashes, callVars>>

\* Consensus decides a block and stores it.
Decide ==
  /\ phase = "ready"
  /\ done = store
  /\ store < MaxHeight
  /\ store' = store + 1
  /\ UNCHANGED <<phase, saved, done, appVars, link, todo, crashes, callVars>>

\* Variant: only some apps are asked, such as those with transactions in the block.
AskedOfSome == CHOOSE S \in SUBSET Apps : Cardinality(S) + 1 = Cardinality(Apps)

\* FinalizeBlock asks every app.
AskedApps == Apps

CallFinalize ==
  /\ phase = "ready"
  /\ done < store
  /\ phase' = "finalizing"
  /\ asked' = AskedApps
  /\ answer' = [a \in Apps |-> "none"]
  /\ outcome' = "pending"
  /\ UNCHANGED <<store, saved, done, appVars, link, todo, crashes>>

\* Variant: the app is told the height of the block after this one.
NextBlock == done + 2

\* The height in the request.
ThisBlock == done + 1

Accepts(a) == a \in Reporting => Height(a) = done

\* An app executes the block, also when the handler has given up meanwhile.
AppExecutes(a) ==
  /\ phase \in {"finalizing", "halted"}
  /\ link[a] /\ Accepts(a)
  /\ Call!Reply(a, "ok")
  /\ pending' = [pending EXCEPT ![a] = ThisBlock]
  /\ executed' = [executed EXCEPT ![a] = @ \cup {ThisBlock}]
  /\ UNCHANGED <<cometVars, applied, link, todo, crashes>>

AppRefuses(a) ==
  /\ phase \in {"finalizing", "halted"}
  /\ ~link[a] \/ ~Accepts(a)
  /\ Call!Reply(a, "err")
  /\ UNCHANGED <<cometVars, appVars, link, todo, crashes>>

\* FinalizeBlock returns without an error: Commit is called.
BlockFinalized ==
  /\ phase = "finalizing"
  /\ Call!Succeed
  /\ phase' = "committing"
  /\ todo' = Apps
  /\ UNCHANGED <<store, saved, done, appVars, link, crashes>>

\* Variant: the error of an app is logged and not returned.
FinalizeAnyway ==
  /\ phase = "finalizing"
  /\ \A a \in Apps : answer[a] # "none"
  /\ Call!Fail
  /\ phase' = "committing"
  /\ todo' = Apps
  /\ UNCHANGED <<store, saved, done, appVars, link, crashes>>

FinalizeFails ==
  /\ phase = "finalizing"
  /\ Call!Fail
  /\ phase' = "halted"
  /\ UNCHANGED <<store, saved, done, appVars, link, todo, crashes>>

\* One turn of the loop in Commit: the app commits what it has open.
CommitApp(a) ==
  /\ phase = "committing"
  /\ a \in todo
  /\ link[a] /\ pending[a] # 0
  /\ applied' = [applied EXCEPT ![a] = @ \cup {pending[a]}]
  /\ pending' = [pending EXCEPT ![a] = 0]
  /\ todo' = todo \ {a}
  /\ UNCHANGED <<cometVars, executed, link, crashes, callVars>>

\* Variant: the error is logged and the loop goes on.
SkipApp(a) ==
  /\ phase = "committing"
  /\ a \in todo
  /\ ~link[a] \/ pending[a] = 0
  /\ todo' = todo \ {a}
  /\ UNCHANGED <<cometVars, appVars, link, crashes, callVars>>

\* The first error ends the loop; the apps it has not come to hear nothing.
CommitFails(a) ==
  /\ phase = "committing"
  /\ a \in todo
  /\ ~link[a] \/ pending[a] = 0
  /\ phase' = "halted"
  /\ todo' = {}
  /\ UNCHANGED <<store, saved, done, appVars, link, crashes, callVars>>

CommitReturns ==
  /\ phase = "committing"
  /\ todo = {}
  /\ phase' = "ready"
  /\ done' = done + 1
  /\ saved' = IF done + 1 > saved THEN done + 1 ELSE saved
  /\ UNCHANGED <<store, appVars, link, todo, crashes, callVars>>

-----------------------------------------------------------------------------
\* An app dies and is started again, without the block it had open.
AppCrash(a) ==
  /\ crashes < MaxCrashes
  /\ crashes' = crashes + 1
  /\ pending' = [pending EXCEPT ![a] = 0]
  /\ link' = [link EXCEPT ![a] = FALSE]
  /\ UNCHANGED <<cometVars, executed, applied, todo, callVars>>

\* The multiplexer has made its client once; it depends on the client's type whether
\* there is ever a connection again.
Reconnect(a) ==
  /\ phase # "down"
  /\ a \in Reconnecting
  /\ ~link[a]
  /\ link' = [link EXCEPT ![a] = TRUE]
  /\ UNCHANGED <<cometVars, appVars, todo, crashes, callVars>>

\* The node dies; the apps keep running.
NodeCrash ==
  /\ crashes < MaxCrashes
  /\ phase # "down"
  /\ crashes' = crashes + 1
  /\ phase' = "down"
  /\ todo' = {}
  /\ UNCHANGED <<store, saved, done, appVars, link, callVars>>

\* A node that has stopped is ended.
EndNode ==
  /\ phase = "halted"
  /\ phase' = "down"
  /\ UNCHANGED <<store, saved, done, appVars, link, todo, crashes, callVars>>

\* No more blocks are decided within the bound.
BoundReached ==
  /\ phase = "ready"
  /\ done = MaxHeight
  /\ UNCHANGED muxVars

MuxNext ==
  \/ \E a \in Apps :
       \/ StartNode(a)
       \/ AppExecutes(a) \/ AppRefuses(a)
       \/ CommitApp(a) \/ CommitFails(a)
       \/ AppCrash(a) \/ Reconnect(a)
  \/ Decide
  \/ CallFinalize
  \/ BlockFinalized
  \/ FinalizeFails
  \/ CommitReturns
  \/ NodeCrash
  \/ EndNode
  \/ BoundReached

MuxSpec == MuxInit /\ [][MuxNext]_muxVars

\* What CometBFT and the multiplexer do by themselves they do in the end: a block in
\* the store is executed, and a handler returns when it has what it waits for.  Nothing
\* is assumed of apps and clients: no call has a deadline, an app may stay silent, and so
\* may a client that has lost its app.  Nobody needs to restart a stopped node.
MuxFairness ==
  /\ WF_muxVars(CallFinalize)
  /\ WF_muxVars(BlockFinalized) /\ WF_muxVars(FinalizeFails)
  /\ WF_muxVars(CommitReturns)

FairMuxSpec == MuxSpec /\ MuxFairness

-----------------------------------------------------------------------------
(***************************************************************************)
(* Properties.                                                             *)
(***************************************************************************)

\* The variables have their types.
MuxTypeOK ==
  /\ phase \in {"down", "ready", "finalizing", "committing", "halted"}
  /\ store \in 0..MaxHeight /\ saved \in 0..store /\ done \in 0..store
  /\ link \in [Apps -> BOOLEAN]
  /\ pending \in [Apps -> 0..store]
  /\ executed \in [Apps -> SUBSET (1..store)]
  /\ applied \in [Apps -> SUBSET (1..store)]
  /\ todo \in SUBSET Apps
  /\ crashes \in 0..MaxCrashes
  /\ asked \in SUBSET Apps
  /\ answer \in [Apps -> {"none", "ok", "err"}]
  /\ outcome \in {"pending", "ok", "err"}

\* No app commits a block that some app has not executed, whoever crashed when: a
\* block that one app cannot execute is committed nowhere.
CommittedOnlyIfAllExecuted ==
  \A a, b \in Apps : applied[a] \subseteq executed[b]

\* The heights of SDK chains never differ by more than one block, although Commit
\* reaches them one after the other and crashes can stop it between them.
HeightsStayClose ==
  \A a, b \in Reporting : Height(a) <= Height(b) + 1

\* An app that Commit reaches over a living connection has executed exactly the
\* block that is committed; it has neither lost it nor holds an older one.  Where a
\* connection is made again after a crash it may have lost the block, and then has
\* nothing to commit.
CommitFindsTheBlock ==
  phase = "committing" =>
    \A a \in todo : link[a] =>
      pending[a] = done + 1 \/ (a \in Reconnecting /\ pending[a] = 0)

\* The node gets from a block to the next without a stop only when every app has
\* committed this very block: no app is left out of Commit silently.
GoesOnTogether ==
  [][phase = "committing" /\ phase' = "ready" =>
       \A a \in Apps : done' \in applied[a]]_muxVars

\* FinalizeBlock or Commit is waiting for the answer of app a or of its client.
Awaited(a) ==
  \/ phase = "finalizing" /\ answer[a] = "none"
  \/ phase = "committing" /\ a \in todo

\* What becomes of a block that the node is to execute: it is committed by every app, or
\* the node stops, for which there must have been a crash, or the node waits for one app
\* for ever; and until it stops it takes up no other block before every app has committed
\* this one.  What comes after a stop is not part of this: a restart can then skip the
\* block for some apps (EveryAppHasEveryBlock).
DecidedBlocksAreCommitted ==
  /\ GoesOnTogether
  /\ \A h \in 1..MaxHeight :
       phase = "ready" /\ done + 1 = h /\ h <= store ~>
         \/ \A a \in Apps : h \in applied[a]
         \/ phase \in {"halted", "down"} /\ crashes > 0
         \/ \E a \in Apps : <>[]Awaited(a)

\* Commit sends commit to all apps: a block that CometBFT knows to be committed is
\* committed by every app.
EveryAppHasEveryBlock == \A a \in Apps : 1..saved \subseteq applied[a]
=============================================================================
