------------------------------- MODULE FanOut -------------------------------
(***************************************************************************)
(* The concurrency skeleton that InitChain, ProcessProposal and            *)
(* FinalizeBlock of cosmux/multiplexer.go share.  The handler starts one   *)
(* goroutine per app it asks; each goroutine makes the ABCI call, sends    *)
(* the result on a buffered channel and, through its deferred call, does   *)
(* wg.Done().  One more goroutine waits for the WaitGroup and closes the   *)
(* channel.  The handler ranges over the channel and returns as soon as it *)
(* meets an error, leaving the other goroutines behind.                    *)
(*                                                                         *)
(* One behaviour is one call of a handler: its channel, WaitGroup and      *)
(* goroutines are locals of that call.  The handlers extend this module,   *)
(* conjoin their own state to these actions and replace Refuse and         *)
(* Dispatch by the code that decides whom to ask.                          *)
(***************************************************************************)
EXTENDS Integers, Sequences, FiniteSets, SequencesExt

CONSTANT Apps      \* identifiers of the registered apps: the keys of mux.clients

ASSUME AppsFinite == IsFiniteSet(Apps)

VARIABLES
  main,            \* where the handler is: see MainStates
  asked,           \* the apps that get a goroutine
  todo,            \* apps of asked the loop has not yet started one for
  upfront,         \* wg.Add(len(mux.clients)) before the loop, or wg.Add(1) in it
  gor,             \* each app's goroutine: see GorStates
  answer,          \* how the app's ABCI call ended: "none", "ok" or "err"
  chan,            \* the buffered channel: whose results are in it
  closer,          \* the closing goroutine: "none", "waiting" or "closed"
  wg,              \* the WaitGroup's counter
  received         \* apps whose successful results were taken off the channel, in order

fanVars == <<main, asked, todo, upfront, gor, answer, chan, closer, wg, received>>

MainStates == {"routing", "spawning", "collecting", "ok", "err"}
GorStates == {"none", "calling", "answered", "sent", "done"}
Answers == {"ok", "err"}

\* Variant: a buffer for one result, as if the handler always received them all.
OnePlace == 1

\* make(chan ..., len(mux.clients)).
ChanCap == Cardinality(Apps)

FanInit ==
  /\ main = "routing"
  /\ asked = {}
  /\ todo = {}
  /\ upfront = FALSE
  /\ gor = [a \in Apps |-> "none"]
  /\ answer = [a \in Apps |-> "none"]
  /\ chan = <<>>
  /\ closer = "none"
  /\ wg = 0
  /\ received = <<>>

(***************************************************************************)
(* The handler, up to its loop over the channel.                           *)
(***************************************************************************)

\* The handler returns an error before it has started anything.
Refuse ==
  /\ main = "routing"
  /\ main' = "err"
  /\ UNCHANGED <<asked, todo, upfront, gor, answer, chan, closer, wg, received>>

\* The channel and the WaitGroup are made; S are the apps to ask.
Dispatch(S, before) ==
  /\ main = "routing"
  /\ main' = "spawning"
  /\ asked' = S
  /\ todo' = S
  /\ upfront' = before
  /\ wg' = IF before THEN Cardinality(Apps) ELSE 0
  /\ UNCHANGED <<gor, answer, chan, closer, received>>

\* Variant: wg.Add(1) is left out of the loop.
SpawnWithoutAdd(a) ==
  /\ main = "spawning"
  /\ a \in todo
  /\ todo' = todo \ {a}
  /\ gor' = [gor EXCEPT ![a] = "calling"]
  /\ UNCHANGED <<main, asked, upfront, answer, chan, closer, wg, received>>

\* One turn of the loop that starts the goroutines: the map's order is random.
Spawn(a) ==
  /\ main = "spawning"
  /\ a \in todo
  /\ todo' = todo \ {a}
  /\ gor' = [gor EXCEPT ![a] = "calling"]
  /\ wg' = IF upfront THEN wg ELSE wg + 1
  /\ UNCHANGED <<main, asked, upfront, answer, chan, closer, received>>

\* Variant: the handler waits for the WaitGroup itself.
WaitFirst ==
  /\ main = "spawning"
  /\ todo = {}
  /\ wg = 0
  /\ main' = "collecting"
  /\ closer' = "closed"
  /\ UNCHANGED <<asked, todo, upfront, gor, answer, chan, wg, received>>

\* All are started: start the closing goroutine and range over the channel.
StartCloser ==
  /\ main = "spawning"
  /\ todo = {}
  /\ main' = "collecting"
  /\ closer' = "waiting"
  /\ UNCHANGED <<asked, todo, upfront, gor, answer, chan, wg, received>>

(***************************************************************************)
(* A goroutine, and the app's ABCI client it calls.                        *)
(***************************************************************************)

\* The client returns the app's response, or an error (from the app, or
\* because the connection is gone).
Answer(a, r) ==
  /\ gor[a] = "calling"
  /\ answer' = [answer EXCEPT ![a] = r]
  /\ gor' = [gor EXCEPT ![a] = "answered"]
  /\ UNCHANGED <<main, asked, todo, upfront, chan, closer, wg, received>>

\* A send blocks while the buffer is full.  A send on the closed channel would
\* be a Go panic: NoSendAfterClose says that it cannot happen.
Send(a) ==
  /\ gor[a] = "answered"
  /\ Len(chan) < ChanCap
  /\ chan' = Append(chan, a)
  /\ gor' = [gor EXCEPT ![a] = "sent"]
  /\ UNCHANGED <<main, asked, todo, upfront, answer, closer, wg, received>>

\* The deferred wg.Done().
Done(a) ==
  /\ gor[a] = "sent"
  /\ wg' = wg - 1
  /\ gor' = [gor EXCEPT ![a] = "done"]
  /\ UNCHANGED <<main, asked, todo, upfront, answer, chan, closer, received>>

\* Variant: the channel is closed without waiting.
CloseAtOnce ==
  /\ closer = "waiting"
  /\ closer' = "closed"
  /\ UNCHANGED <<main, asked, todo, upfront, gor, answer, chan, wg, received>>

\* wg.Wait(); close(ch).
Close ==
  /\ closer = "waiting"
  /\ wg = 0
  /\ closer' = "closed"
  /\ UNCHANGED <<main, asked, todo, upfront, gor, answer, chan, wg, received>>

(***************************************************************************)
(* The handler's loop over the channel.                                    *)
(***************************************************************************)

\* A result without an error is merged into the response (by the handlers).
ReceiveOk ==
  /\ main = "collecting"
  /\ chan # <<>>
  /\ answer[Head(chan)] = "ok"
  /\ chan' = Tail(chan)
  /\ received' = Append(received, Head(chan))
  /\ UNCHANGED <<main, asked, todo, upfront, gor, answer, closer, wg>>

\* Variant: an error is logged and the loop goes on.
SkipErr ==
  /\ main = "collecting"
  /\ chan # <<>>
  /\ answer[Head(chan)] = "err"
  /\ chan' = Tail(chan)
  /\ UNCHANGED <<main, asked, todo, upfront, gor, answer, closer, wg, received>>

\* A result with an error ends the call at once.
ReceiveErr ==
  /\ main = "collecting"
  /\ chan # <<>>
  /\ answer[Head(chan)] = "err"
  /\ chan' = Tail(chan)
  /\ main' = "err"
  /\ UNCHANGED <<asked, todo, upfront, gor, answer, closer, wg, received>>

\* The channel is closed and drained: the loop ends and the handler returns.
Finish ==
  /\ main = "collecting"
  /\ chan = <<>>
  /\ closer = "closed"
  /\ main' = "ok"
  /\ UNCHANGED <<asked, todo, upfront, gor, answer, chan, closer, wg, received>>

Returned == main \in {"ok", "err"}

\* Nothing of the call is left: no goroutine is running.
WoundDown ==
  /\ Returned
  /\ \A a \in Apps : gor[a] \in {"none", "done"}
  /\ closer # "waiting"

Rest == WoundDown /\ UNCHANGED fanVars

-----------------------------------------------------------------------------
\* The steps of the goroutines themselves, the same in every handler.
GoroutineStep ==
  \/ \E a \in Apps : Send(a) \/ Done(a)
  \/ Close

FanNext ==
  \/ Refuse
  \/ Dispatch(Apps, TRUE)
  \/ \E S \in SUBSET Apps : Dispatch(S, FALSE)
  \/ \E a \in Apps : Spawn(a)
  \/ StartCloser
  \/ \E a \in Apps, r \in Answers : Answer(a, r)
  \/ GoroutineStep
  \/ ReceiveOk
  \/ ReceiveErr
  \/ Finish

FanSpec == FanInit /\ [][FanNext \/ Rest]_fanVars

(***************************************************************************)
(* Go runs every goroutine that can run.  Nothing is assumed about the     *)
(* apps: the handlers pass the context on without a deadline, and an app   *)
(* that keeps its connection open may never answer.                        *)
(***************************************************************************)
FanFairness ==
  /\ WF_fanVars(Refuse \/ \E S \in SUBSET Apps : Dispatch(S, FALSE))
  /\ WF_fanVars(\E a \in Apps : Spawn(a))
  /\ WF_fanVars(StartCloser)
  /\ \A a \in Apps : WF_fanVars(Send(a)) /\ WF_fanVars(Done(a))
  /\ WF_fanVars(Close)
  /\ WF_fanVars(ReceiveOk \/ ReceiveErr \/ Finish)

FairFanSpec == FanSpec /\ FanFairness

-----------------------------------------------------------------------------
(***************************************************************************)
(* Properties.                                                             *)
(***************************************************************************)

\* The variables have their types; in particular the WaitGroup's counter is never
\* negative, which would be a panic of wg.Done().
FanTypeOK ==
  /\ main \in MainStates
  /\ asked \in SUBSET Apps
  /\ todo \in SUBSET asked
  /\ upfront \in BOOLEAN
  /\ gor \in [Apps -> GorStates]
  /\ answer \in [Apps -> Answers \cup {"none"}]
  /\ chan \in Seq(Apps)
  /\ closer \in {"none", "waiting", "closed"}
  /\ wg \in Nat
  /\ received \in Seq(Apps)

\* Goroutines that have been started and whose wg.Done() is still to come.
Running == {a \in Apps : gor[a] \in {"calling", "answered", "sent"}}

\* The channel is closed only when no goroutine has its result still to send,
\* whatever the order in which they are started, finish and are waited for: a
\* send on the closed channel would panic the whole node.
NoSendAfterClose ==
  closer = "closed" =>
    /\ todo = {}
    /\ \A a \in Apps : gor[a] \notin {"calling", "answered"}

\* A goroutine never has to wait for room in the channel, not even after the
\* handler has returned early and nobody receives any more.
SendNeverBlocks ==
  \A a \in Apps : gor[a] = "answered" => Len(chan) < ChanCap

\* When the handler's loop ends without an error it has merged the result of
\* every app it asked, each of them exactly once, and none was an error.
OkMeansEveryoneCounted ==
  main = "ok" =>
    /\ ToSet(received) = asked
    /\ Len(received) = Cardinality(asked)
    /\ \A a \in asked : answer[a] = "ok"

\* The handler returns an error only if it asked nobody or an app's call failed:
\* no interleaving of goroutines, early closing or late answers looks like one.
ErrMeansAnAppFailed ==
  main = "err" => asked = {} \/ \E a \in asked : answer[a] = "err"

\* Every call returns, and after it has returned, early or not, all of its
\* goroutines end and the channel is closed: nothing leaks.  The one thing that can
\* prevent it is an app that stays silent for ever.
EveryCallWindsDown == <>[]WoundDown \/ <>[](\E a \in Apps : gor[a] = "calling")

\* An app's error reaches the caller also when other apps never answer: no early
\* return waits for them.
ErrorsAreNotHeldUp ==
  \A a \in Apps : (gor[a] = "sent" /\ answer[a] = "err") ~> main = "err"

\* This module implements what Gather promises the caller.
Outcome == IF Returned THEN main ELSE "pending"
G == INSTANCE Gather WITH outcome <- Outcome
ImplementsGather == G!GatherSpec

\* A call of a handler that extends this module is a call of this module: its
\* goroutines, channel and WaitGroup are used the way it describes.
ImplementsFanOut == FanSpec
=============================================================================
