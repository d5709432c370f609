-------------------------- MODULE ProcessProposal --------------------------
(***************************************************************************)
(* CometMux.ProcessProposal: the apps that have transactions in the        *)
(* proposed block, and only those, vote on their share, and the votes are  *)
(* folded into one status in the order in which they arrive.               *)
(***************************************************************************)
EXTENDS BlockRouting

CONSTANT Votes     \* statuses an app may answer with

Statuses == {"UNKNOWN", "ACCEPT", "REJECT"}

ASSUME VotesAreStatuses == Votes \subseteq Statuses

VARIABLES
  vote,            \* each app's status ("UNKNOWN" until it answers)
  status           \* response.Status

proposalVars == <<blockVars, vote, status, fanVars>>

ProposalInit ==
  /\ RoutingInit
  /\ vote = [a \in Apps |-> "UNKNOWN"]
  /\ status = "ACCEPT"

-----------------------------------------------------------------------------
RouteProposalTx == RouteTx /\ UNCHANGED <<vote, status>>

RefuseProposal == RefuseBlock /\ UNCHANGED <<vote, status>>

\* Variant: as many are waited for as there are apps.
DispatchAddAll ==
  /\ idx = Len(block)
  /\ Dispatch({a \in Apps : handlerTxs[a] # <<>>}, TRUE)
  /\ UNCHANGED <<blockVars, vote, status>>

\* handlerTxs has a key only for apps with a transaction.
DispatchConcerned ==
  /\ idx = Len(block)
  /\ Dispatch({a \in Apps : handlerTxs[a] # <<>>}, FALSE)
  /\ UNCHANGED <<blockVars, vote, status>>

AppVotes(a, v) ==
  /\ Answer(a, "ok")
  /\ vote' = [vote EXCEPT ![a] = v]
  /\ UNCHANGED <<blockVars, status>>

AppFailsToVote(a) == Answer(a, "err") /\ UNCHANGED <<blockVars, vote, status>>

\* Variant: the last vote decides.
LastVote(s, v) == v

\* The status of the response after one more vote.
FoldVote(s, v) ==
  IF s = "UNKNOWN" \/ v # "ACCEPT" THEN v ELSE s

MergeVote ==
  /\ ReceiveOk
  /\ status' = FoldVote(status, vote[Head(chan)])
  /\ UNCHANGED <<blockVars, vote>>

FailOnVote == ReceiveErr /\ UNCHANGED <<blockVars, vote, status>>

ReturnStatus == Finish /\ UNCHANGED <<blockVars, vote, status>>

FanOutAlone ==
  /\ (\E a \in Apps : Spawn(a)) \/ StartCloser \/ GoroutineStep \/ Rest
  /\ UNCHANGED <<blockVars, vote, status>>

ProposalNext ==
  \/ RouteProposalTx
  \/ RefuseProposal
  \/ DispatchConcerned
  \/ \E a \in Apps, v \in Votes : AppVotes(a, v)
  \/ \E a \in Apps : AppFailsToVote(a)
  \/ MergeVote
  \/ FailOnVote
  \/ ReturnStatus
  \/ FanOutAlone

ProposalSpec == ProposalInit /\ [][ProposalNext]_proposalVars

-----------------------------------------------------------------------------
(***************************************************************************)
(* Properties.                                                             *)
(***************************************************************************)

\* The multiplexer accepts a proposal exactly when every app that has a
\* transaction in it does, in whatever order the votes arrive.  (Of apps that
\* vote ACCEPT or REJECT: see NoRejectIsOverruled for the third status.)
AcceptIsUnanimous ==
  main = "ok" =>
    (status = "ACCEPT" <=> \A a \in Apps : PositionsOf(a) # {} => vote[a] = "ACCEPT")

\* A proposal that an app rejects is never accepted on its behalf.
NoRejectIsOverruled ==
  (main = "ok" /\ status = "ACCEPT") => \A a \in asked : vote[a] # "REJECT"
=============================================================================
