---------------------------- MODULE FanOutProofs ----------------------------
(***************************************************************************)
(* What module FanOut's runs show for three apps, for every finite set of  *)
(* apps: the invariant that holds the concurrency skeleton together, the   *)
(* safety properties that follow from it, and that a call implements       *)
(* Gather.                                                                 *)
(***************************************************************************)
EXTENDS FanOut, FiniteSetTheorems, SequenceTheorems, TLAPS

(***************************************************************************)
(* The inductive invariant.                                                *)
(***************************************************************************)

\* Which goroutines and which closer there can be, by where the handler is.
Phases ==
  /\ main = "routing" => asked = {} /\ received = <<>> /\ chan = <<>>
  /\ main \in {"routing", "spawning"} => closer = "none"
  /\ main \in {"collecting", "ok"} => todo = {} /\ closer # "none"
  /\ closer # "none" => todo = {}
  /\ main = "ok" => closer = "closed" /\ chan = <<>>

\* The apps with a goroutine are those of asked that the loop has come to; the
\* call has ended where the goroutine is past it.
Started ==
  \A a \in Apps :
    /\ gor[a] # "none" <=> a \in asked \ todo
    /\ answer[a] # "none" <=> gor[a] \in {"answered", "sent", "done"}

\* The counter is what is running plus, if it was raised before the loop, what
\* the loop has still to start.
WgCounts ==
  wg = Cardinality(Running) + (IF upfront THEN Cardinality(todo) ELSE 0)

\* The channel is closed when nothing is left to run.
ClosedMeansNoneRunning == closer = "closed" => Running = {}

\* Past its send a goroutine's result is in the channel or was merged, and until
\* the handler meets an error none is missing; nothing is there twice.
Sent(a) == gor[a] \in {"sent", "done"}

Accounted ==
  /\ \A i \in 1..Len(chan) : Sent(chan[i])
  /\ \A i \in 1..Len(received) : Sent(received[i]) /\ answer[received[i]] = "ok"
  /\ \A i, j \in 1..Len(chan) : chan[i] = chan[j] => i = j
  /\ \A i, j \in 1..Len(received) : received[i] = received[j] => i = j
  /\ \A i \in 1..Len(received), j \in 1..Len(chan) : received[i] # chan[j]
  /\ main # "err" =>
       \A a \in Apps : Sent(a) =>
         \/ \E i \in 1..Len(chan) : chan[i] = a
         \/ \E i \in 1..Len(received) : received[i] = a

\* What holds in every state of a call, whatever the goroutines' order: the counter,
\* the channel, the closer and the handler's loop agree on who is still to come.
FanInv ==
  /\ FanTypeOK
  /\ Phases
  /\ Started
  /\ WgCounts
  /\ ClosedMeansNoneRunning
  /\ Accounted
  /\ ErrMeansAnAppFailed

-----------------------------------------------------------------------------
(***************************************************************************)
(* Counting.                                                               *)
(***************************************************************************)

\* Running and todo are finite and have a number of elements.
LEMMA RunningFinite ==
  ASSUME FanTypeOK
  PROVE  /\ IsFiniteSet(Running) /\ Cardinality(Running) \in Nat
         /\ IsFiniteSet(todo) /\ Cardinality(todo) \in Nat
         /\ IsFiniteSet(asked) /\ Cardinality(asked) \in Nat
         /\ Cardinality(Apps) \in Nat
<1>1. Running \in SUBSET Apps /\ todo \in SUBSET Apps /\ asked \in SUBSET Apps
  BY DEF FanTypeOK, Running
<1>2. IsFiniteSet(Apps)
  BY AppsFinite
<1> QED
  BY <1>1, <1>2, FS_Subset, FS_CardinalityType

\* A sequence whose elements are all in T is a sequence over T.
LEMMA IsASeqOf ==
  ASSUME NEW S, NEW T, NEW s \in Seq(S), \A i \in 1..Len(s) : s[i] \in T
  PROVE  s \in Seq(T)
<1>1. Len(s) \in Nat /\ s \in [1..Len(s) -> S]
  BY LenProperties
<1>2. s \in [1..Len(s) -> T]
  BY <1>1
<1> QED
  BY <1>1, <1>2

\* A sequence without repetitions is as long as the set it lists.
LEMMA ListLength ==
  ASSUME NEW S, NEW s \in Seq(S), IsFiniteSet(S),
         \A i, j \in 1..Len(s) : s[i] = s[j] => i = j,
         \A x \in S : \E i \in 1..Len(s) : s[i] = x
  PROVE  Len(s) = Cardinality(S)
<1>1. Len(s) \in Nat /\ s \in [1..Len(s) -> S]
  BY LenProperties
<1>2. s \in Bijection(1..Len(s), S)
  BY <1>1 DEF Bijection, Injection, Surjection, IsInjective
<1>3. IsFiniteSet(1..Len(s)) /\ Cardinality(1..Len(s)) = Len(s)
  BY <1>1, FS_Interval
<1>4. Cardinality(S) = Cardinality(1..Len(s))
  BY <1>2, <1>3, FS_Bijection DEF ExistsBijection
<1> QED
  BY <1>3, <1>4

\* A sequence without repetitions is no longer than the set it draws from.
LEMMA ListBound ==
  ASSUME NEW S, NEW s \in Seq(S), IsFiniteSet(S),
         \A i, j \in 1..Len(s) : s[i] = s[j] => i = j
  PROVE  Len(s) <= Cardinality(S)
<1>1. Len(s) \in Nat /\ s \in [1..Len(s) -> S]
  BY LenProperties
<1>2. s \in Injection(1..Len(s), S)
  BY <1>1 DEF Injection, IsInjective
<1>3. IsFiniteSet(1..Len(s)) /\ Cardinality(1..Len(s)) = Len(s)
  BY <1>1, FS_Interval
<1> QED
  BY <1>2, <1>3, FS_Injection

-----------------------------------------------------------------------------
(***************************************************************************)
(* The invariant is inductive.                                             *)
(***************************************************************************)

\* A call starts with nothing asked, running or in the channel.
LEMMA FanInitInv == FanInit => FanInv
<1> SUFFICES ASSUME FanInit PROVE FanInv
  OBVIOUS
<1> USE DEF FanInit
<1>0. <<>> \in Seq(Apps)
  BY EmptySeq
<1>1. FanTypeOK
  BY <1>0 DEF FanTypeOK, MainStates, GorStates, Answers
<1>2. Running = {} /\ todo = {}
  BY DEF Running
<1>3. WgCounts
  BY <1>2, FS_EmptySet DEF WgCounts
<1> QED
  BY <1>1, <1>2, <1>3 DEF FanInv, Phases, Started, ClosedMeansNoneRunning,
     Accounted, Sent, ErrMeansAnAppFailed

\* The steps of the handler before it listens.
LEMMA RefuseInv == FanInv /\ Refuse => FanInv'
<1> SUFFICES ASSUME FanInv, Refuse PROVE FanInv'
  OBVIOUS
<1> USE DEF Refuse, FanInv
<1>1. FanTypeOK'
  BY DEF FanTypeOK, MainStates
<1>2. WgCounts'
  BY DEF WgCounts, Running
<1>3. (Phases /\ Started /\ ClosedMeansNoneRunning /\ ErrMeansAnAppFailed)'
  BY DEF Phases, Started, ClosedMeansNoneRunning, Running, ErrMeansAnAppFailed
<1>4. Accounted'
  BY DEF Accounted, Sent
<1> QED
  BY <1>1, <1>2, <1>3, <1>4

LEMMA DispatchInv ==
  ASSUME NEW S \in SUBSET Apps, NEW before \in BOOLEAN, before => S = Apps,
         FanInv, Dispatch(S, before)
  PROVE  FanInv'
<1> USE DEF Dispatch, FanInv
<1>0. Cardinality(Apps) \in Nat /\ IsFiniteSet(S)
  BY RunningFinite, AppsFinite, FS_Subset
<1>1. FanTypeOK'
  BY <1>0 DEF FanTypeOK, MainStates
<1>2. asked = {} /\ closer = "none" /\ received = <<>> /\ chan = <<>>
  BY DEF Phases
<1>3. Running = {} /\ Running' = {} /\ \A a \in Apps : gor[a] = "none"
  BY <1>2 DEF Started, Running
<1>4. WgCounts'
  BY <1>0, <1>3, FS_EmptySet DEF WgCounts
<1>5. (Phases /\ Started /\ ClosedMeansNoneRunning /\ ErrMeansAnAppFailed)'
  BY <1>2, <1>3 DEF Phases, Started, ClosedMeansNoneRunning, ErrMeansAnAppFailed
<1>6. Accounted'
  BY <1>2, <1>3 DEF Accounted, Sent
<1> QED
  BY <1>1, <1>4, <1>5, <1>6

LEMMA SpawnInv ==
  ASSUME NEW a \in Apps, FanInv, Spawn(a)
  PROVE  FanInv'
<1> USE DEF Spawn, FanInv
<1>0. /\ IsFiniteSet(Running) /\ Cardinality(Running) \in Nat
      /\ IsFiniteSet(todo) /\ Cardinality(todo) \in Nat
  BY RunningFinite
<1>1. FanTypeOK'
  BY DEF FanTypeOK, GorStates
<1>2. gor[a] = "none" /\ a \notin Running
  BY DEF Started, Running
<1>3. Running' = Running \cup {a}
  BY <1>2 DEF Running, FanTypeOK
<1>4. Cardinality(Running') = Cardinality(Running) + 1
  BY <1>0, <1>2, <1>3, FS_AddElement
<1>5. Cardinality(todo') = Cardinality(todo) - 1
  BY <1>0, FS_RemoveElement
<1>6. WgCounts'
  BY <1>0, <1>4, <1>5 DEF WgCounts
<1>7. (Phases /\ Started /\ ClosedMeansNoneRunning /\ ErrMeansAnAppFailed)'
  BY <1>2 DEF Phases, Started, ClosedMeansNoneRunning, ErrMeansAnAppFailed, FanTypeOK
<1>8. \A b \in Apps : Sent(b)' <=> Sent(b)
  BY <1>2 DEF Sent, FanTypeOK
<1>9. Accounted'
  BY <1>8, ElementOfSeq DEF Accounted, FanTypeOK
<1> QED
  BY <1>1, <1>6, <1>7, <1>9

LEMMA StartCloserInv == FanInv /\ StartCloser => FanInv'
<1> SUFFICES ASSUME FanInv, StartCloser PROVE FanInv'
  OBVIOUS
<1> USE DEF StartCloser, FanInv
<1>1. FanTypeOK'
  BY DEF FanTypeOK, MainStates
<1>2. WgCounts'
  BY DEF WgCounts, Running
<1>3. (Phases /\ Started /\ ClosedMeansNoneRunning /\ ErrMeansAnAppFailed)'
  BY DEF Phases, Started, ClosedMeansNoneRunning, Running, ErrMeansAnAppFailed
<1>4. Accounted'
  BY DEF Accounted, Sent
<1> QED
  BY <1>1, <1>2, <1>3, <1>4

\* The steps of the goroutines.
LEMMA AnswerInv ==
  ASSUME NEW a \in Apps, NEW r \in Answers, FanInv, Answer(a, r)
  PROVE  FanInv'
<1> USE DEF Answer, FanInv
<1>1. FanTypeOK'
  BY DEF FanTypeOK, GorStates
<1>2. Running' = Running
  BY DEF Running, FanTypeOK
<1>3. WgCounts'
  BY <1>2 DEF WgCounts
<1>4. (Phases /\ ClosedMeansNoneRunning)'
  BY <1>2 DEF Phases, ClosedMeansNoneRunning
<1>5. Started'
  BY DEF Started, FanTypeOK, Answers
<1>6. answer[a] = "none" /\ ~Sent(a) /\ \A b \in Apps : Sent(b)' <=> Sent(b)
  BY DEF Sent, Started, FanTypeOK
<1>7. Accounted'
  BY <1>6, ElementOfSeq DEF Accounted, FanTypeOK
<1>8. ErrMeansAnAppFailed'
  BY <1>6 DEF ErrMeansAnAppFailed, FanTypeOK
<1> QED
  BY <1>1, <1>3, <1>4, <1>5, <1>7, <1>8

LEMMA SendInv ==
  ASSUME NEW a \in Apps, FanInv, Send(a)
  PROVE  FanInv'
<1> USE DEF Send, FanInv
<1>1. /\ chan \in Seq(Apps) /\ chan' \in Seq(Apps) /\ Len(chan) \in Nat
      /\ Len(chan') = Len(chan) + 1
      /\ \A i \in 1..Len(chan) : chan'[i] = chan[i]
      /\ chan'[Len(chan) + 1] = a
  BY DEF FanTypeOK
<1>2. FanTypeOK'
  BY <1>1 DEF FanTypeOK, GorStates
<1>3. Running' = Running
  BY DEF Running, FanTypeOK
<1>4. WgCounts'
  BY <1>3 DEF WgCounts
<1>5. a \in Running
  BY DEF Running
<1>6. closer # "closed" /\ main \notin {"routing", "ok"}
  BY <1>5 DEF ClosedMeansNoneRunning, Phases, Started, Running
<1>7. (Phases /\ ClosedMeansNoneRunning /\ ErrMeansAnAppFailed)'
  BY <1>3, <1>6 DEF Phases, ClosedMeansNoneRunning, ErrMeansAnAppFailed
<1>8. Started'
  BY DEF Started, FanTypeOK
<1>9. ~Sent(a) /\ \A b \in Apps : Sent(b)' <=> Sent(b) \/ b = a
  BY DEF Sent, FanTypeOK
<1>10. \A i \in 1..Len(chan) : chan[i] \in Apps /\ chan[i] # a
  BY <1>1, <1>9, ElementOfSeq DEF Accounted
<1>11. \A i \in 1..Len(received) : received[i] \in Apps /\ received[i] # a
  BY <1>9, ElementOfSeq DEF Accounted, FanTypeOK
<1>12. Accounted'
  <2>1. \A i \in 1..Len(chan') : i = Len(chan) + 1 \/ i \in 1..Len(chan)
    BY <1>1
  <2>2. (/\ \A i \in 1..Len(chan) : Sent(chan[i])
         /\ \A i \in 1..Len(received) : Sent(received[i]) /\ answer[received[i]] = "ok")'
    BY <1>1, <1>9, <1>10, <1>11, <2>1 DEF Accounted
  <2>3. (/\ \A i, j \in 1..Len(chan) : chan[i] = chan[j] => i = j
         /\ \A i, j \in 1..Len(received) : received[i] = received[j] => i = j
         /\ \A i \in 1..Len(received), j \in 1..Len(chan) : received[i] # chan[j])'
    BY <1>1, <1>10, <1>11, <2>1 DEF Accounted
  <2>4. (main # "err" =>
          \A b \in Apps : Sent(b) =>
            \/ \E i \in 1..Len(chan) : chan[i] = b
            \/ \E i \in 1..Len(received) : received[i] = b)'
    BY <1>1, <1>9 DEF Accounted
  <2> QED
    BY <2>2, <2>3, <2>4 DEF Accounted
<1> QED
  BY <1>2, <1>4, <1>7, <1>8, <1>12

LEMMA DoneInv ==
  ASSUME NEW a \in Apps, FanInv, Done(a)
  PROVE  FanInv'
<1> USE DEF Done, FanInv
<1>0. /\ IsFiniteSet(Running) /\ Cardinality(Running) \in Nat
      /\ IsFiniteSet(todo) /\ Cardinality(todo) \in Nat
  BY RunningFinite
<1>1. a \in Running /\ Running' = Running \ {a}
  BY DEF Running, FanTypeOK
<1>2. IsFiniteSet(Running') /\ Cardinality(Running') = Cardinality(Running) - 1
  BY <1>0, <1>1, FS_RemoveElement
<1>3. Cardinality(Running') \in Nat
  BY <1>2, FS_CardinalityType
<1>4. WgCounts'
  BY <1>0, <1>2 DEF WgCounts
<1>5. FanTypeOK'
  BY <1>0, <1>3, <1>4 DEF FanTypeOK, GorStates, WgCounts
<1>6. (Phases /\ ClosedMeansNoneRunning /\ ErrMeansAnAppFailed)'
  BY <1>1 DEF Phases, ClosedMeansNoneRunning, ErrMeansAnAppFailed
<1>7. Started'
  BY DEF Started, FanTypeOK
<1>8. \A b \in Apps : Sent(b)' <=> Sent(b)
  BY DEF Sent, FanTypeOK
<1>9. Accounted'
  BY <1>8, ElementOfSeq DEF Accounted, FanTypeOK
<1> QED
  BY <1>4, <1>5, <1>6, <1>7, <1>9

LEMMA CloseInv == FanInv /\ Close => FanInv'
<1> SUFFICES ASSUME FanInv, Close PROVE FanInv'
  OBVIOUS
<1> USE DEF Close, FanInv
<1>0. /\ IsFiniteSet(Running) /\ Cardinality(Running) \in Nat
      /\ Cardinality(todo) \in Nat
  BY RunningFinite
<1>1. FanTypeOK'
  BY DEF FanTypeOK
<1>2. WgCounts' /\ Running' = Running
  BY DEF WgCounts, Running
<1>3. Cardinality(Running) = 0
  BY <1>0 DEF WgCounts
<1>4. Running = {}
  BY <1>0, <1>3, FS_EmptySet
<1>5. (Phases /\ Started /\ ClosedMeansNoneRunning /\ ErrMeansAnAppFailed)'
  BY <1>2, <1>4 DEF Phases, Started, ClosedMeansNoneRunning, ErrMeansAnAppFailed
<1>6. Accounted'
  BY DEF Accounted, Sent
<1> QED
  BY <1>1, <1>2, <1>5, <1>6

-----------------------------------------------------------------------------
\* The steps of the loop over the channel.
LEMMA ReceiveOkInv == FanInv /\ ReceiveOk => FanInv'
<1> SUFFICES ASSUME FanInv, ReceiveOk PROVE FanInv'
  OBVIOUS
<1> USE DEF ReceiveOk, FanInv
<1>1. /\ chan \in Seq(Apps) /\ chan # <<>> /\ Len(chan) \in Nat \ {0}
      /\ Head(chan) = chan[1] /\ chan[1] \in Apps
      /\ chan' \in Seq(Apps) /\ Len(chan') = Len(chan) - 1
      /\ \A i \in 1..Len(chan') : chan'[i] = chan[i + 1]
  BY HeadTailProperties, EmptySeq DEF FanTypeOK
<1>2. /\ received' \in Seq(Apps) /\ Len(received) \in Nat
      /\ Len(received') = Len(received) + 1
      /\ \A i \in 1..Len(received) : received'[i] = received[i]
      /\ received'[Len(received) + 1] = chan[1]
  BY <1>1 DEF FanTypeOK
<1>3. FanTypeOK'
  BY <1>1, <1>2 DEF FanTypeOK
<1>4. WgCounts' /\ Running' = Running
  BY DEF WgCounts, Running
<1>5. (Phases /\ Started /\ ClosedMeansNoneRunning /\ ErrMeansAnAppFailed)'
  BY <1>4 DEF Phases, Started, ClosedMeansNoneRunning, ErrMeansAnAppFailed
<1>6. Accounted'
  <2>1. \A i \in 1..Len(received') : i = Len(received) + 1 \/ i \in 1..Len(received)
    BY <1>2
  <2>2. \A i \in 1..Len(chan') : i + 1 \in 1..Len(chan) /\ i + 1 # 1
    BY <1>1
  <2>3. 1 \in 1..Len(chan) /\ \A i \in 1..Len(chan) : i = 1 \/ i - 1 \in 1..Len(chan')
    BY <1>1
  <2>4. (/\ \A i \in 1..Len(chan) : Sent(chan[i])
         /\ \A i \in 1..Len(received) : Sent(received[i]) /\ answer[received[i]] = "ok")'
    BY <1>1, <1>2, <2>1, <2>2, <2>3 DEF Accounted, Sent
  <2>5. (\A i, j \in 1..Len(chan) : chan[i] = chan[j] => i = j)'
    <3> SUFFICES ASSUME NEW i \in 1..Len(chan'), NEW j \in 1..Len(chan'),
                        chan'[i] = chan'[j]
                 PROVE  i = j
      OBVIOUS
    <3>1. chan[i + 1] = chan[j + 1]
      BY <1>1
    <3>2. i + 1 = j + 1
      BY <2>2, <3>1 DEF Accounted
    <3> QED
      BY <3>2
  <2>6. (\A i, j \in 1..Len(received) : received[i] = received[j] => i = j)'
    BY <1>2, <2>1, <2>3 DEF Accounted
  <2>7. (\A i \in 1..Len(received), j \in 1..Len(chan) : received[i] # chan[j])'
    <3> SUFFICES ASSUME NEW i \in 1..Len(received'), NEW j \in 1..Len(chan')
                 PROVE  received'[i] # chan'[j]
      OBVIOUS
    <3>1. chan'[j] = chan[j + 1]
      BY <1>1
    <3>2. CASE i = Len(received) + 1
      BY <1>2, <2>2, <2>3, <3>1, <3>2 DEF Accounted
    <3>3. CASE i \in 1..Len(received)
      BY <1>2, <2>2, <3>1, <3>3 DEF Accounted
    <3> QED
      BY <2>1, <3>2, <3>3
  <2>8. (main # "err" =>
          \A b \in Apps : Sent(b) =>
            \/ \E i \in 1..Len(chan) : chan[i] = b
            \/ \E i \in 1..Len(received) : received[i] = b)'
    <3> SUFFICES ASSUME NEW b \in Apps, Sent(b),
                        ~(\E i \in 1..Len(chan') : chan'[i] = b)
                 PROVE  \E i \in 1..Len(received') : received'[i] = b
      BY DEF Sent
    <3>1. CASE \E i \in 1..Len(received) : received[i] = b
      BY <1>2, <3>1
    <3>2. CASE \E i \in 1..Len(chan) : chan[i] = b
      <4>1. PICK i \in 1..Len(chan) : chan[i] = b
        BY <3>2
      <4>2. CASE i = 1
        BY <1>2, <4>1, <4>2
      <4>3. CASE i - 1 \in 1..Len(chan')
        <5>1. chan'[i - 1] = chan[(i - 1) + 1] /\ (i - 1) + 1 = i
          BY <1>1, <4>3
        <5> QED
          BY <4>1, <4>3, <5>1
      <4> QED
        BY <2>3, <4>2, <4>3
    <3> QED
      BY <3>1, <3>2 DEF Accounted
  <2> QED
    BY <2>4, <2>5, <2>6, <2>7, <2>8 DEF Accounted
<1> QED
  BY <1>3, <1>4, <1>5, <1>6

LEMMA ReceiveErrInv == FanInv /\ ReceiveErr => FanInv'
<1> SUFFICES ASSUME FanInv, ReceiveErr PROVE FanInv'
  OBVIOUS
<1> USE DEF ReceiveErr, FanInv
<1>1. /\ chan \in Seq(Apps) /\ chan # <<>> /\ Len(chan) \in Nat \ {0}
      /\ Head(chan) = chan[1] /\ chan[1] \in Apps
      /\ chan' \in Seq(Apps) /\ Len(chan') = Len(chan) - 1
      /\ \A i \in 1..Len(chan') : i + 1 \in 1..Len(chan) /\ chan'[i] = chan[i + 1]
  BY HeadTailProperties, EmptySeq DEF FanTypeOK
<1>2. FanTypeOK'
  BY <1>1 DEF FanTypeOK, MainStates
<1>3. WgCounts' /\ Running' = Running
  BY DEF WgCounts, Running
<1>4. (Phases /\ Started /\ ClosedMeansNoneRunning)'
  BY <1>3 DEF Phases, Started, ClosedMeansNoneRunning
<1>5. chan[1] \in asked
  BY <1>1 DEF Accounted, Sent, Started
<1>6. ErrMeansAnAppFailed'
  BY <1>1, <1>5 DEF ErrMeansAnAppFailed
<1>7. Accounted'
  <2>1. (\A i, j \in 1..Len(chan) : chan[i] = chan[j] => i = j)'
    <3> SUFFICES ASSUME NEW i \in 1..Len(chan'), NEW j \in 1..Len(chan'),
                        chan'[i] = chan'[j]
                 PROVE  i = j
      OBVIOUS
    <3>1. i + 1 = j + 1
      BY <1>1 DEF Accounted
    <3> QED
      BY <3>1
  <2>2. (\A i \in 1..Len(received), j \in 1..Len(chan) : received[i] # chan[j])'
    BY <1>1 DEF Accounted
  <2> QED
    BY <1>1, <2>1, <2>2 DEF Accounted, Sent
<1> QED
  BY <1>2, <1>3, <1>4, <1>6, <1>7

LEMMA FinishInv == FanInv /\ Finish => FanInv'
<1> SUFFICES ASSUME FanInv, Finish PROVE FanInv'
  OBVIOUS
<1> USE DEF Finish, FanInv
<1>1. FanTypeOK'
  BY DEF FanTypeOK, MainStates
<1>2. WgCounts' /\ Running' = Running
  BY DEF WgCounts, Running
<1>3. (Phases /\ Started /\ ClosedMeansNoneRunning /\ ErrMeansAnAppFailed)'
  BY <1>2 DEF Phases, Started, ClosedMeansNoneRunning, ErrMeansAnAppFailed
<1>4. Accounted'
  BY DEF Accounted, Sent
<1> QED
  BY <1>1, <1>2, <1>3, <1>4

-----------------------------------------------------------------------------
(***************************************************************************)
(* The theorems.                                                           *)
(***************************************************************************)

\* Every step, and every stutter, keeps the invariant.
LEMMA FanStepInv == FanInv /\ [FanNext \/ Rest]_fanVars => FanInv'
<1> SUFFICES ASSUME FanInv, [FanNext \/ Rest]_fanVars
             PROVE  FanInv'
  OBVIOUS
<1>1. CASE Refuse
  BY <1>1, RefuseInv
<1>2. CASE Dispatch(Apps, TRUE)
  BY <1>2, DispatchInv
<1>3. ASSUME NEW S \in SUBSET Apps, Dispatch(S, FALSE) PROVE FanInv'
  BY <1>3, DispatchInv
<1>4. ASSUME NEW a \in Apps, Spawn(a) PROVE FanInv'
  BY <1>4, SpawnInv
<1>5. CASE StartCloser
  BY <1>5, StartCloserInv
<1>6. ASSUME NEW a \in Apps, NEW r \in Answers, Answer(a, r) PROVE FanInv'
  BY <1>6, AnswerInv
<1>7. ASSUME NEW a \in Apps, Send(a) PROVE FanInv'
  BY <1>7, SendInv
<1>8. ASSUME NEW a \in Apps, Done(a) PROVE FanInv'
  BY <1>8, DoneInv
<1>9. CASE Close
  BY <1>9, CloseInv
<1>10. CASE ReceiveOk
  BY <1>10, ReceiveOkInv
<1>11. CASE ReceiveErr
  BY <1>11, ReceiveErrInv
<1>12. CASE Finish
  BY <1>12, FinishInv
<1>13. CASE UNCHANGED fanVars
  BY <1>13 DEF fanVars, FanInv, FanTypeOK, Phases, Started, WgCounts, Running,
     ClosedMeansNoneRunning, Accounted, Sent, ErrMeansAnAppFailed
<1>14. Rest => UNCHANGED fanVars
  BY DEF Rest
<1> QED
  BY <1>1, <1>2, <1>3, <1>4, <1>5, <1>6, <1>7, <1>8, <1>9, <1>10, <1>11, <1>12,
     <1>13, <1>14 DEF FanNext, GoroutineStep

\* FanInv holds throughout every call, whatever the number of apps.
THEOREM FanInvariance == FanSpec => []FanInv
<1>1. FanInit => FanInv
  BY FanInitInv
<1>2. FanInv /\ [FanNext \/ Rest]_fanVars => FanInv'
  BY FanStepInv
<1> QED
  BY <1>1, <1>2, PTL DEF FanSpec

\* The variables keep their types; the WaitGroup's counter is never negative.
THEOREM FanTypeCorrect == FanSpec => []FanTypeOK
<1>1. FanInv => FanTypeOK
  BY DEF FanInv
<1> QED
  BY <1>1, FanInvariance, PTL

\* No goroutine ever sends on the closed channel.
THEOREM NoSendAfterCloseHolds == FanSpec => []NoSendAfterClose
<1>1. FanInv => NoSendAfterClose
  BY DEF FanInv, NoSendAfterClose, ClosedMeansNoneRunning, Phases, Running
<1> QED
  BY <1>1, FanInvariance, PTL

\* A buffer of one place per app is enough: nobody ever waits to send.
THEOREM SendNeverBlocksHolds == FanSpec => []SendNeverBlocks
<1>1. FanInv => SendNeverBlocks
  <2> SUFFICES ASSUME FanInv, NEW a \in Apps, gor[a] = "answered"
               PROVE  Len(chan) < ChanCap
    BY DEF SendNeverBlocks
  <2>1. chan \in Seq(Apps) /\ Len(chan) \in Nat
    BY DEF FanInv, FanTypeOK
  <2>2. \A i \in 1..Len(chan) : chan[i] \in Apps \ {a}
    BY <2>1, ElementOfSeq DEF FanInv, Accounted, Sent
  <2>3. chan \in Seq(Apps \ {a})
    BY <2>1, <2>2, IsASeqOf
  <2>4. /\ IsFiniteSet(Apps \ {a}) /\ Cardinality(Apps \ {a}) = Cardinality(Apps) - 1
        /\ Cardinality(Apps) \in Nat
    BY AppsFinite, FS_RemoveElement, FS_CardinalityType
  <2>5. Len(chan) <= Cardinality(Apps \ {a})
    BY <2>3, <2>4, ListBound DEF FanInv, Accounted
  <2> QED
    BY <2>1, <2>4, <2>5 DEF ChanCap
<1> QED
  BY <1>1, FanInvariance, PTL

\* A call that succeeds has merged every asked app's result exactly once.
THEOREM OkMeansEveryoneCountedHolds == FanSpec => []OkMeansEveryoneCounted
<1>1. FanInv => OkMeansEveryoneCounted
  <2> SUFFICES ASSUME FanInv, main = "ok"
               PROVE  /\ ToSet(received) = asked
                      /\ Len(received) = Cardinality(asked)
                      /\ \A a \in asked : answer[a] = "ok"
    BY DEF OkMeansEveryoneCounted
  <2>1. /\ received \in Seq(Apps) /\ DOMAIN received = 1..Len(received)
        /\ asked \subseteq Apps /\ IsFiniteSet(asked) /\ Len(chan) = 0
    BY RunningFinite, EmptySeq DEF FanInv, FanTypeOK, Phases
  <2>2. \A a \in asked : Sent(a)
    BY <2>1 DEF FanInv, Phases, Started, ClosedMeansNoneRunning, Running, Sent,
       FanTypeOK, GorStates
  <2>3. \A a \in asked : \E i \in 1..Len(received) : received[i] = a
    BY <2>1, <2>2 DEF FanInv, Accounted
  <2>4. \A i \in 1..Len(received) : received[i] \in asked
    BY <2>1, ElementOfSeq DEF FanInv, Accounted, Started, Sent
  <2>5. received \in Seq(asked)
    BY <2>1, <2>4, IsASeqOf
  <2>6. Len(received) = Cardinality(asked)
    BY <2>1, <2>3, <2>5, ListLength DEF FanInv, Accounted
  <2>7. ToSet(received) = asked
    BY <2>1, <2>3, <2>4 DEF ToSet
  <2>8. \A a \in asked : answer[a] = "ok"
    BY <2>3 DEF FanInv, Accounted
  <2> QED
    BY <2>6, <2>7, <2>8
<1> QED
  BY <1>1, FanInvariance, PTL

-----------------------------------------------------------------------------
(***************************************************************************)
(* The results that the handlers merge.                                    *)
(***************************************************************************)

\* The apps whose results are merged, before and after one more is.
LEMMA OneMoreReceived ==
  ASSUME FanInv, ReceiveOk
  PROVE  /\ Head(chan) \in Apps
         /\ Head(chan) \notin ToSet(received)
         /\ ToSet(received') = ToSet(received) \cup {Head(chan)}
         /\ ToSet(received) \in SUBSET Apps
<1>1. /\ chan \in Seq(Apps) /\ received \in Seq(Apps) /\ chan # <<>>
      /\ received' = Append(received, Head(chan))
  BY DEF FanInv, FanTypeOK, ReceiveOk
<1>2. /\ Head(chan) \in Apps /\ Len(chan) \in Nat /\ 1 \in 1..Len(chan)
      /\ Head(chan) = chan[1]
  BY <1>1, HeadTailProperties, LenProperties
<1>3. /\ Len(received) \in Nat /\ DOMAIN received = 1..Len(received)
      /\ received' \in Seq(Apps)
      /\ Len(received') = Len(received) + 1
      /\ \A i \in 1..Len(received) : received'[i] = received[i]
      /\ received'[Len(received) + 1] = Head(chan)
  BY <1>1, <1>2, AppendProperties, LenProperties
<1>4. DOMAIN received' = 1..(Len(received) + 1)
  BY <1>3, LenProperties
<1>5. ToSet(received) = {received[i] : i \in 1..Len(received)}
  BY <1>3 DEF ToSet
<1>6. ToSet(received') = {received'[i] : i \in 1..(Len(received) + 1)}
  BY <1>4 DEF ToSet
<1>7. \A i \in 1..Len(received) : received[i] # Head(chan)
  BY <1>2 DEF FanInv, Accounted
<1>8. ToSet(received') = ToSet(received) \cup {Head(chan)}
  <2>1. \A i \in 1..(Len(received) + 1) : i \in 1..Len(received) \/ i = Len(received) + 1
    BY <1>3
  <2>2. Len(received) + 1 \in 1..(Len(received) + 1)
        /\ \A i \in 1..Len(received) : i \in 1..(Len(received) + 1)
    BY <1>3
  <2> QED
    BY <1>3, <1>5, <1>6, <2>1, <2>2
<1>9. ToSet(received) \in SUBSET Apps
  BY <1>1, <1>5, ElementOfSeq
<1> QED
  BY <1>2, <1>5, <1>7, <1>8, <1>9

\* An app that is still answering has not been merged.
LEMMA CallingNotReceived ==
  ASSUME FanInv, NEW a \in Apps, gor[a] = "calling"
  PROVE  a \notin ToSet(received)
<1>1. DOMAIN received = 1..Len(received)
  BY LenProperties DEF FanInv, FanTypeOK
<1>2. \A i \in 1..Len(received) : gor[received[i]] \in {"sent", "done"}
  BY DEF FanInv, Accounted, Sent
<1> QED
  BY <1>1, <1>2 DEF ToSet

-----------------------------------------------------------------------------
(***************************************************************************)
(* A call implements Gather.                                               *)
(***************************************************************************)

\* Each step of a call is a step of Gather or leaves what Gather sees alone.
LEMMA GatherStep ==
  FanInv /\ FanInv' /\ OkMeansEveryoneCounted' /\ [FanNext \/ Rest]_fanVars
    => [G!GatherNext]_G!gatherVars
<1> SUFFICES ASSUME FanInv, FanInv', OkMeansEveryoneCounted',
                    [FanNext \/ Rest]_fanVars
             PROVE  [G!GatherNext]_G!gatherVars
  OBVIOUS
<1> USE DEF G!GatherNext, G!gatherVars, Outcome, Returned
<1>1. CASE Refuse
  <2>1. asked = {} /\ Outcome = "pending" /\ Outcome' = "err"
    BY <1>1 DEF Refuse, FanInv, Phases
  <2> QED
    BY <1>1, <2>1 DEF Refuse, G!Fail
<1>2. ASSUME NEW S \in SUBSET Apps, NEW before, Dispatch(S, before)
      PROVE  G!Ask(S)
  BY <1>2 DEF Dispatch, G!Ask, FanInv, Phases
<1>3. ASSUME NEW a \in Apps, NEW r \in Answers, Answer(a, r)
      PROVE  G!Reply(a, r) /\ r \in {"ok", "err"}
  <2>1. a \in asked /\ answer[a] = "none"
    BY <1>3 DEF Answer, FanInv, Started
  <2> QED
    BY <1>3, <2>1 DEF Answer, G!Reply, Answers
<1>4. CASE ReceiveErr
  <2>1. \E a \in asked : answer[a] = "err"
    <3>1. Head(chan) = chan[1] /\ 1 \in 1..Len(chan) /\ chan[1] \in Apps
      BY <1>4, HeadTailProperties, EmptySeq DEF ReceiveErr, FanInv, FanTypeOK
    <3> QED
      BY <1>4, <3>1 DEF ReceiveErr, FanInv, Accounted, Sent, Started
  <2> QED
    BY <1>4, <2>1 DEF ReceiveErr, G!Fail
<1>5. CASE Finish
  BY <1>5 DEF Finish, G!Succeed, OkMeansEveryoneCounted
<1>6. CASE \/ \E a \in Apps : Spawn(a) \/ Send(a) \/ Done(a)
           \/ StartCloser \/ Close \/ ReceiveOk
  BY <1>6 DEF Spawn, Send, Done, StartCloser, Close, ReceiveOk
<1>7. CASE Rest \/ UNCHANGED fanVars
  BY <1>7 DEF Rest, fanVars
<1>8. Apps \in SUBSET Apps
  OBVIOUS
<1> QED
  BY <1>1, <1>2, <1>3, <1>4, <1>5, <1>6, <1>7, <1>8 DEF FanNext, GoroutineStep

\* Whatever the goroutines do, the caller sees the abstract call: one outcome,
\* a success only after every app that was asked has answered without error.
THEOREM GatherRefinement == FanSpec => ImplementsGather
<1>1. FanInit => G!GatherInit
  BY DEF FanInit, G!GatherInit, Outcome, Returned
<1>2. FanInv /\ FanInv' /\ OkMeansEveryoneCounted' /\ [FanNext \/ Rest]_fanVars
        => [G!GatherNext]_G!gatherVars
  BY GatherStep
<1> QED
  BY <1>1, <1>2, FanInvariance, OkMeansEveryoneCountedHolds, PTL
     DEF FanSpec, ImplementsGather, G!GatherSpec

-----------------------------------------------------------------------------
(***************************************************************************)
(* A call comes to an end: it has a bounded number of steps, and before it *)
(* has wound down there is always a next one, if only an app's answer.     *)
(***************************************************************************)

\* The apps whose goroutine is at one of these places.
StillAt(places) == {a \in Apps : gor[a] \in places}

\* The steps that can be left: those of the handler and of the closer, four of each
\* goroutine, and one to receive each result that is sent or is still to be.
MainSteps ==
  CASE main = "routing" -> 3 [] main = "spawning" -> 2 [] main = "collecting" -> 1
    [] OTHER -> 0

CloserSteps == CASE closer = "none" -> 2 [] closer = "waiting" -> 1 [] OTHER -> 0

StepsLeft ==
  MainSteps + CloserSteps + Len(chan)
    + Cardinality(StillAt({"none"}))
    + Cardinality(StillAt({"none", "calling"}))
    + 2 * Cardinality(StillAt({"none", "calling", "answered"}))
    + Cardinality(StillAt({"none", "calling", "answered", "sent"}))

\* One goroutine leaves the places, or stays in them.
LEMMA OneMovesOn ==
  ASSUME FanTypeOK, NEW places, NEW a \in Apps, NEW r, r \in places => gor[a] \in places,
         gor' = [gor EXCEPT ![a] = r]
  PROVE  /\ Cardinality(StillAt(places)) \in Nat /\ Cardinality(StillAt(places)') \in Nat
         /\ Cardinality(StillAt(places)') =
              Cardinality(StillAt(places)) -
                (IF gor[a] \in places /\ r \notin places THEN 1 ELSE 0)
<1>1. IsFiniteSet(StillAt(places)) /\ Cardinality(StillAt(places)) \in Nat
  BY AppsFinite, FS_Subset, FS_CardinalityType, StillAt(places) \in SUBSET Apps DEF StillAt
<1>2. StillAt(places)' = IF r \in places THEN StillAt(places) ELSE StillAt(places) \ {a}
  BY DEF StillAt, FanTypeOK
<1>3. a \in StillAt(places) <=> gor[a] \in places
  BY DEF StillAt
<1>4. CASE r \in places
  BY <1>1, <1>2, <1>4
<1>5. CASE r \notin places
  <2>1. /\ IsFiniteSet(StillAt(places) \ {a})
        /\ Cardinality(StillAt(places) \ {a}) =
             IF a \in StillAt(places) THEN Cardinality(StillAt(places)) - 1
                                      ELSE Cardinality(StillAt(places))
    BY <1>1, FS_RemoveElement
  <2>2. Cardinality(StillAt(places) \ {a}) \in Nat
    BY <2>1, FS_CardinalityType
  <2> QED
    BY <1>1, <1>2, <1>3, <1>5, <2>1, <2>2
<1> QED
  BY <1>4, <1>5

\* A step of the handler or the closer moves no goroutine.
LEMMA NoneMovesOn ==
  ASSUME FanTypeOK, NEW places, gor' = gor
  PROVE  /\ Cardinality(StillAt(places)) \in Nat
         /\ Cardinality(StillAt(places)') = Cardinality(StillAt(places))
<1>1. Cardinality(StillAt(places)) \in Nat
  BY AppsFinite, FS_Subset, FS_CardinalityType, StillAt(places) \in SUBSET Apps DEF StillAt
<1> QED
  BY <1>1 DEF StillAt

\* Sums of steps of which one part gets smaller.
LEMMA SmallerSum ==
  ASSUME NEW m \in Nat, NEW w1 \in Nat, NEW w2 \in Nat, NEW w3 \in Nat, NEW w4 \in Nat,
         NEW k \in Nat, NEW u1 \in Nat, NEW u2 \in Nat, NEW u3 \in Nat, NEW u4 \in Nat,
         \/ k < m /\ u1 = w1 /\ u2 = w2 /\ u3 = w3 /\ u4 = w4
         \/ k = m /\ u1 = w1 - 1 /\ u2 = w2 /\ u3 = w3 /\ u4 = w4
         \/ k = m /\ u1 = w1 /\ u2 = w2 - 1 /\ u3 = w3 /\ u4 = w4
         \/ k = m + 1 /\ u1 = w1 /\ u2 = w2 /\ u3 = w3 - 1 /\ u4 = w4
         \/ k = m /\ u1 = w1 /\ u2 = w2 /\ u3 = w3 /\ u4 = w4 - 1
  PROVE  k + u1 + u2 + 2 * u3 + u4 < m + w1 + w2 + 2 * w3 + w4
  OBVIOUS

\* A goroutine's move from one place to the next, with what it means for the channel.
LEMMA GoroutineCounts ==
  ASSUME FanTypeOK, NEW a \in Apps, NEW r, UNCHANGED <<main, closer>>,
         gor' = [gor EXCEPT ![a] = r],
         \/ gor[a] = "none" /\ r = "calling" /\ chan' = chan
         \/ gor[a] = "calling" /\ r = "answered" /\ chan' = chan
         \/ gor[a] = "answered" /\ r = "sent" /\ Len(chan') = Len(chan) + 1
         \/ gor[a] = "sent" /\ r = "done" /\ chan' = chan
  PROVE  StepsLeft' < StepsLeft
<1> DEFINE c1 == Cardinality(StillAt({"none"}))
           c2 == Cardinality(StillAt({"none", "calling"}))
           c3 == Cardinality(StillAt({"none", "calling", "answered"}))
           c4 == Cardinality(StillAt({"none", "calling", "answered", "sent"}))
           m == MainSteps + CloserSteps + Len(chan)
           less(places) == IF gor[a] \in places /\ r \notin places THEN 1 ELSE 0
<1>1. c1 \in Nat /\ c1' \in Nat /\ c1' = c1 - less({"none"})
  BY OneMovesOn
<1>2. c2 \in Nat /\ c2' \in Nat /\ c2' = c2 - less({"none", "calling"})
  BY OneMovesOn
<1>3. c3 \in Nat /\ c3' \in Nat /\ c3' = c3 - less({"none", "calling", "answered"})
  BY OneMovesOn
<1>4. c4 \in Nat /\ c4' \in Nat /\ c4' = c4 - less({"none", "calling", "answered", "sent"})
  BY OneMovesOn
<1>5. m \in Nat /\ Len(chan) \in Nat /\ m' = MainSteps + CloserSteps + Len(chan')
  BY LenProperties DEF FanTypeOK, MainStates, MainSteps, CloserSteps
<1>6. MainSteps + CloserSteps \in Nat
  BY DEF MainSteps, CloserSteps
<1>7. StepsLeft = m + c1 + c2 + 2 * c3 + c4 /\ StepsLeft' = m' + c1' + c2' + 2 * c3' + c4'
  BY DEF StepsLeft
<1>8. gor[a] = "answered" => m' = m + 1
  BY <1>5, <1>6
<1>9. gor[a] # "answered" => m' = m
  BY <1>5
<1> HIDE DEF c1, c2, c3, c4, m
<1>10. CASE gor[a] = "none"
  <2>1. m' = m /\ c1' = c1 - 1 /\ c2' = c2 /\ c3' = c3 /\ c4' = c4
    BY <1>1, <1>2, <1>3, <1>4, <1>9, <1>10
  <2> QED
    BY <1>1, <1>2, <1>3, <1>4, <1>5, <1>7, <2>1, SmallerSum
<1>11. CASE gor[a] = "calling"
  <2>1. m' = m /\ c1' = c1 /\ c2' = c2 - 1 /\ c3' = c3 /\ c4' = c4
    BY <1>1, <1>2, <1>3, <1>4, <1>9, <1>11
  <2> QED
    BY <1>1, <1>2, <1>3, <1>4, <1>5, <1>7, <2>1, SmallerSum
<1>12. CASE gor[a] = "answered"
  <2>1. m' = m + 1 /\ c1' = c1 /\ c2' = c2 /\ c3' = c3 - 1 /\ c4' = c4
    BY <1>1, <1>2, <1>3, <1>4, <1>8, <1>12
  <2> QED
    BY <1>1, <1>2, <1>3, <1>4, <1>5, <1>7, <2>1, SmallerSum
<1>13. CASE gor[a] = "sent"
  <2>1. m' = m /\ c1' = c1 /\ c2' = c2 /\ c3' = c3 /\ c4' = c4 - 1
    BY <1>1, <1>2, <1>3, <1>4, <1>9, <1>13
  <2> QED
    BY <1>1, <1>2, <1>3, <1>4, <1>5, <1>7, <2>1, SmallerSum
<1> QED
  BY <1>10, <1>11, <1>12, <1>13

\* A step of the handler or the closer: one of them gets on, or a result is received.
LEMMA HandlerCounts ==
  ASSUME FanTypeOK, gor' = gor, Len(chan') \in Nat,
         MainSteps' \in Nat, CloserSteps' \in Nat,
         MainSteps' + CloserSteps' + Len(chan') < MainSteps + CloserSteps + Len(chan)
  PROVE  StepsLeft' < StepsLeft
<1> DEFINE c1 == Cardinality(StillAt({"none"}))
           c2 == Cardinality(StillAt({"none", "calling"}))
           c3 == Cardinality(StillAt({"none", "calling", "answered"}))
           c4 == Cardinality(StillAt({"none", "calling", "answered", "sent"}))
<1>1. /\ c1 \in Nat /\ c1' = c1 /\ c2 \in Nat /\ c2' = c2
      /\ c3 \in Nat /\ c3' = c3 /\ c4 \in Nat /\ c4' = c4
  BY NoneMovesOn
<1>2. MainSteps \in Nat /\ CloserSteps \in Nat /\ Len(chan) \in Nat
  BY LenProperties DEF FanTypeOK, MainStates, MainSteps, CloserSteps
<1>3. /\ StepsLeft = MainSteps + CloserSteps + Len(chan) + c1 + c2 + 2 * c3 + c4
      /\ StepsLeft' = MainSteps' + CloserSteps' + Len(chan') + c1' + c2' + 2 * c3' + c4'
  BY DEF StepsLeft
<1> DEFINE m == MainSteps + CloserSteps + Len(chan)
<1>4. m \in Nat /\ m' \in Nat /\ m' < m
  BY <1>2
<1>5. StepsLeft = m + c1 + c2 + 2 * c3 + c4 /\ StepsLeft' = m' + c1' + c2' + 2 * c3' + c4'
  BY <1>3
<1> HIDE DEF c1, c2, c3, c4, m
<1> QED
  BY <1>1, <1>4, <1>5, SmallerSum

\* Every step of a call, whoever takes it, leaves fewer to come: nothing goes round.
EveryStepCounts == [][StepsLeft' < StepsLeft]_fanVars

LEMMA StepCounts ==
  ASSUME FanInv, FanNext
  PROVE  StepsLeft' < StepsLeft
<1> USE DEF FanInv
<1>0. FanTypeOK /\ chan \in Seq(Apps) /\ Len(chan) \in Nat
  BY LenProperties DEF FanTypeOK
<1>1. CASE Refuse
  <2>1. MainSteps = 3 /\ MainSteps' = 0 /\ CloserSteps' = CloserSteps /\ CloserSteps \in Nat
    BY <1>1 DEF Refuse, MainSteps, CloserSteps
  <2>2. gor' = gor /\ Len(chan') = Len(chan)
    BY <1>1 DEF Refuse
  <2> QED
    BY <1>0, <2>1, <2>2, HandlerCounts
<1>2. ASSUME NEW S, NEW before, Dispatch(S, before) PROVE StepsLeft' < StepsLeft
  BY <1>0, <1>2, HandlerCounts DEF Dispatch, MainSteps, CloserSteps, FanTypeOK
<1>3. CASE StartCloser
  <2>1. closer = "none"
    BY <1>3 DEF StartCloser, Phases
  <2> QED
    BY <1>0, <1>3, <2>1, HandlerCounts DEF StartCloser, MainSteps, CloserSteps, FanTypeOK
<1>4. CASE Close
  BY <1>0, <1>4, HandlerCounts DEF Close, MainSteps, CloserSteps, MainStates, FanTypeOK
<1>5. CASE Finish
  BY <1>0, <1>5, HandlerCounts DEF Finish, MainSteps, CloserSteps, FanTypeOK
<1>6. CASE ReceiveOk \/ ReceiveErr
  <2>1. Len(chan') \in Nat /\ Len(chan') = Len(chan) - 1
    BY <1>0, <1>6, HeadTailProperties DEF ReceiveOk, ReceiveErr
  <2> QED
    BY <1>0, <1>6, <2>1, HandlerCounts
       DEF ReceiveOk, ReceiveErr, MainSteps, CloserSteps, FanTypeOK
<1>7. ASSUME NEW a \in Apps, Spawn(a) PROVE StepsLeft' < StepsLeft
  <2>1. gor[a] = "none"
    BY <1>7 DEF Spawn, Started
  <2> QED
    BY <1>0, <1>7, <2>1, GoroutineCounts DEF Spawn
<1>8. ASSUME NEW a \in Apps, NEW r \in Answers, Answer(a, r) PROVE StepsLeft' < StepsLeft
  BY <1>0, <1>8, GoroutineCounts DEF Answer
<1>9. ASSUME NEW a \in Apps, Send(a) PROVE StepsLeft' < StepsLeft
  <2>1. Len(chan') = Len(chan) + 1
    BY <1>0, <1>9, AppendProperties DEF Send
  <2> QED
    BY <1>0, <1>9, <2>1, GoroutineCounts DEF Send
<1>10. ASSUME NEW a \in Apps, Done(a) PROVE StepsLeft' < StepsLeft
  BY <1>0, <1>10, GoroutineCounts DEF Done
<1> QED
  BY <1>1, <1>2, <1>3, <1>4, <1>5, <1>6, <1>7, <1>8, <1>9, <1>10 DEF FanNext, GoroutineStep

\* Every step of a call is one fewer to come, from five for each app and five: no call
\* goes on for ever, with whatever goroutines, answers and early returns.
THEOREM EveryStepCountsHolds ==
  /\ FanSpec => EveryStepCounts
  /\ FanInit => StepsLeft = 5 * Cardinality(Apps) + 5
<1>1. FanInv /\ [FanNext \/ Rest]_fanVars => [StepsLeft' < StepsLeft]_fanVars
  BY StepCounts DEF Rest
<1>2. ASSUME FanInit PROVE StepsLeft = 5 * Cardinality(Apps) + 5
  <2>1. \A places : "none" \in places => StillAt(places) = Apps
    BY <1>2 DEF FanInit, StillAt
  <2>2. Cardinality(Apps) \in Nat
    BY AppsFinite, FS_CardinalityType
  <2>3. MainSteps = 3 /\ CloserSteps = 2 /\ Len(chan) = 0
    BY <1>2, EmptySeq DEF FanInit, MainSteps, CloserSteps
  <2> QED
    BY <2>1, <2>2, <2>3 DEF StepsLeft
<1> QED
  BY <1>1, <1>2, FanInvariance, PTL DEF FanSpec, EveryStepCounts

\* What can be done next without an app: the guards of the steps of the handler, of the
\* goroutines and of the closer.
CanGoOn ==
  \/ main \in {"routing", "spawning"}
  \/ main = "collecting" /\ chan # <<>> /\ answer[Head(chan)] \in Answers
  \/ main = "collecting" /\ chan = <<>> /\ closer = "closed"
  \/ \E a \in Apps : gor[a] = "answered" /\ Len(chan) < ChanCap
  \/ \E a \in Apps : gor[a] = "sent"
  \/ closer = "waiting" /\ wg = 0

NeverStuck == WoundDown \/ (\E a \in Apps : gor[a] = "calling") \/ CanGoOn

\* Nobody in a call waits for somebody who waits for him: unless an app has still to
\* answer, a call that has not wound down can go on.
THEOREM NeverStuckHolds == FanSpec => []NeverStuck
<1>1. ASSUME FanInv, SendNeverBlocks, ~ CanGoOn, \A a \in Apps : gor[a] # "calling"
      PROVE  WoundDown
  <2> USE DEF FanInv
  <2>1. main \in {"collecting", "ok", "err"} /\ todo \subseteq asked
    BY <1>1 DEF CanGoOn, FanTypeOK, MainStates
  <2>2. \A a \in Apps : gor[a] \in {"none", "done"}
    BY <1>1 DEF CanGoOn, SendNeverBlocks, FanTypeOK, GorStates
  <2>3. Running = {} /\ Cardinality(Running) = 0
    BY <2>2, FS_EmptySet DEF Running
  <2>4. closer # "waiting"
    <3>1. ASSUME closer = "waiting" PROVE FALSE
      <4>1. todo = {} /\ Cardinality(todo) = 0
        BY <1>1, <3>1, FS_EmptySet DEF Phases
      <4>2. wg = 0
        BY <1>1, <2>3, <4>1 DEF WgCounts
      <4> QED
        BY <1>1, <3>1, <4>2 DEF CanGoOn
    <3> QED
      BY <3>1
  <2>5. main # "collecting"
    <3>1. ASSUME main = "collecting" PROVE FALSE
      <4>1. closer = "closed"
        BY <1>1, <2>4, <3>1 DEF Phases, FanTypeOK
      <4>2. chan # <<>>
        BY <1>1, <3>1, <4>1 DEF CanGoOn
      <4>3. Head(chan) = chan[1] /\ 1 \in 1..Len(chan) /\ chan[1] \in Apps
        BY <1>1, <4>2, HeadTailProperties, EmptySeq DEF FanTypeOK
      <4>4. answer[Head(chan)] \in Answers
        BY <1>1, <4>3 DEF Accounted, Sent, Started, FanTypeOK
      <4> QED
        BY <1>1, <3>1, <4>2, <4>4 DEF CanGoOn
    <3> QED
      BY <3>1
  <2> QED
    BY <2>1, <2>2, <2>4, <2>5 DEF WoundDown, Returned
<1>2. FanInv /\ SendNeverBlocks => NeverStuck
  BY <1>1 DEF NeverStuck
<1> QED
  BY <1>2, FanInvariance, SendNeverBlocksHolds, PTL
=============================================================================
