------------------------------- MODULE Gather -------------------------------
(***************************************************************************)
(* What a fanned-out ABCI call of the multiplexer promises its caller      *)
(* (CometBFT), with no goroutine, channel or WaitGroup in sight: the apps  *)
(* that are asked answer in any order, each at most once, and the call     *)
(* returns exactly once, successfully only after every app that was asked  *)
(* has answered without error, and with an error only if the call was      *)
(* refused before anyone was asked or some app answered with one.          *)
(* Modules FanOut and, through it, InitChain, ProcessProposal and          *)
(* FinalizeBlock implement it.                                             *)
(***************************************************************************)
CONSTANT Apps      \* the registered chain applications (keys of mux.clients)

VARIABLES
  outcome,         \* what the caller has seen: "pending", "ok" or "err"
  asked,           \* the apps this call is sent to
  answer           \* each app's answer: "none", "ok" or "err"

gatherVars == <<outcome, asked, answer>>

GatherInit ==
  /\ outcome = "pending"
  /\ asked = {}
  /\ answer = [a \in Apps |-> "none"]

\* The multiplexer decides, once, which apps the call goes to.
Ask(S) ==
  /\ outcome = "pending"
  /\ asked = {}
  /\ asked' = S
  /\ UNCHANGED <<outcome, answer>>

\* An app answers, also when the caller already has its error.
Reply(a, r) ==
  /\ a \in asked
  /\ answer[a] = "none"
  /\ answer' = [answer EXCEPT ![a] = r]
  /\ UNCHANGED <<outcome, asked>>

Succeed ==
  /\ outcome = "pending"
  /\ \A a \in asked : answer[a] = "ok"
  /\ outcome' = "ok"
  /\ UNCHANGED <<asked, answer>>

Fail ==
  /\ outcome = "pending"
  /\ asked = {} \/ \E a \in asked : answer[a] = "err"
  /\ outcome' = "err"
  /\ UNCHANGED <<asked, answer>>

GatherNext ==
  \/ \E S \in SUBSET Apps : Ask(S)
  \/ \E a \in Apps, r \in {"ok", "err"} : Reply(a, r)
  \/ Succeed
  \/ Fail

GatherSpec == GatherInit /\ [][GatherNext]_gatherVars
=============================================================================
