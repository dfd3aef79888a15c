--------------------------- MODULE DecisionEngine ---------------------------
(***************************************************************************)
(* Proposals, votes and executions (coordination/                          *)
(* distributed_decision_engine.py).  A call holds the engine's lock, so it *)
(* is one step.                                                            *)
(*                                                                         *)
(* Callers name a proposal by its id.  analyze_and_propose makes ids of a  *)
(* region and a second, so a second proposal with the same id replaces the *)
(* first in the table: the model keeps the objects apart from their ids.   *)
(* Regions, scores and telemetry only choose what is proposed, which may   *)
(* be anything here.  The event list is left out.                          *)
(***************************************************************************)
EXTENDS Integers, FiniteSets, Sequences

CONSTANTS
    Proposal,     \* the proposal objects
    Pid,          \* proposal_id
    IdOf,         \* the id of each object
    NoProposal,   \* an id without an object
    QuorumSize,   \* quorum_size
    KeptHistory,  \* max_history
    MaxVotes      \* bound: votes for, and votes against, each object

ASSUME ProposalAssumption == IdOf \in [Proposal -> Pid] /\ NoProposal \notin Proposal
ASSUME QuorumAssumption ==
    QuorumSize \in Nat \ {0} /\ KeptHistory \in Nat \ {0} /\ MaxVotes \in Nat

VARIABLES
    status,     \* DecisionStatus of each object, "new" before propose
    votesFor,
    votesAgainst,
    active,     \* _proposals
    completed,  \* _completed
    approvals   \* _total_approved

deVars == <<status, votesFor, votesAgainst, active, completed, approvals>>

DecisionStatus == {"new", "proposed", "approved", "executing", "completed", "rejected", "failed"}

DecisionEngineTypeOK ==
    /\ status \in [Proposal -> DecisionStatus]
    /\ votesFor \in [Proposal -> Nat] /\ votesAgainst \in [Proposal -> Nat]
    /\ active \in [Pid -> Proposal \cup {NoProposal}]
    /\ completed \in Seq(Proposal)
    /\ approvals \in Nat

DeInit ==
    /\ status = [o \in Proposal |-> "new"]
    /\ votesFor = [o \in Proposal |-> 0] /\ votesAgainst = [o \in Proposal |-> 0]
    /\ active = [i \in Pid |-> NoProposal]
    /\ completed = <<>>
    /\ approvals = 0

\* propose, by a caller or by analyze_and_propose.
Propose(o) ==
    /\ status[o] = "new"
    /\ status' = [status EXCEPT ![o] = "proposed"]
    /\ active' = [active EXCEPT ![IdOf[o]] = o]
    /\ UNCHANGED <<votesFor, votesAgainst, completed, approvals>>

\* _finalize: out of the table and into the history, of which the end is kept.
Finalize(i) ==
    LET all == Append(completed, active[i]) IN
    /\ active' = [active EXCEPT ![i] = NoProposal]
    /\ completed' = SubSeq(all, IF Len(all) > KeptHistory THEN Len(all) - KeptHistory + 1 ELSE 1,
                           Len(all))

Approve(o) == status' = [status EXCEPT ![o] = "approved"] /\ approvals' = approvals + 1

\* Mutant of Judge: the votes against are looked at first.
JudgeAgainstFirst(o) ==
    IF votesAgainst'[o] >= QuorumSize
    THEN /\ status' = [status EXCEPT ![o] = "rejected"]
         /\ Finalize(IdOf[o]) /\ UNCHANGED approvals
    ELSE IF votesFor'[o] >= QuorumSize
         THEN Approve(o) /\ UNCHANGED <<active, completed>>
         ELSE UNCHANGED <<status, approvals, active, completed>>

\* What vote does with the new counts, whatever the status is.
Judge(o) ==
    IF votesFor'[o] >= QuorumSize
    THEN Approve(o) /\ UNCHANGED <<active, completed>>
    ELSE IF votesAgainst'[o] >= QuorumSize
         THEN /\ status' = [status EXCEPT ![o] = "rejected"]
              /\ Finalize(IdOf[o]) /\ UNCHANGED approvals
         ELSE UNCHANGED <<status, approvals, active, completed>>

Vote(i, approve) ==
    /\ active[i] # NoProposal
    /\ LET o == active[i] IN
       /\ IF approve
          THEN /\ votesFor[o] < MaxVotes /\ UNCHANGED votesAgainst
               /\ votesFor' = [votesFor EXCEPT ![o] = @ + 1]
          ELSE /\ votesAgainst[o] < MaxVotes /\ UNCHANGED votesFor
               /\ votesAgainst' = [votesAgainst EXCEPT ![o] = @ + 1]
       /\ Judge(o)

AutoApprove(i) ==
    /\ active[i] # NoProposal /\ approvals < MaxVotes
    /\ votesFor' = [votesFor EXCEPT ![active[i]] = QuorumSize]
    /\ Approve(active[i])
    /\ UNCHANGED <<votesAgainst, active, completed>>

\* Mutant of Execute: the status is not tested.
ExecuteAny(i) ==
    /\ active[i] # NoProposal
    /\ status' = [status EXCEPT ![active[i]] = "executing"]
    /\ UNCHANGED <<votesFor, votesAgainst, active, completed, approvals>>

Execute(i) ==
    /\ active[i] # NoProposal /\ status[active[i]] = "approved"
    /\ status' = [status EXCEPT ![active[i]] = "executing"]
    /\ UNCHANGED <<votesFor, votesAgainst, active, completed, approvals>>

\* complete, for a proposal of any status.
Complete(i, success) ==
    /\ active[i] # NoProposal
    /\ status' = [status EXCEPT ![active[i]] = IF success THEN "completed" ELSE "failed"]
    /\ Finalize(i)
    /\ UNCHANGED <<votesFor, votesAgainst, approvals>>

DeNext ==
    \/ \E o \in Proposal : Propose(o)
    \/ \E i \in Pid :
          \/ AutoApprove(i) \/ Execute(i)
          \/ \E yes \in BOOLEAN : Vote(i, yes) \/ Complete(i, yes)

DeSpec == DeInit /\ [][DeNext]_deVars

-----------------------------------------------------------------------------
(* Properties *)

\* What the engine has decided about an object, and how much of the quorum it has.
Outcome(o) ==
    CASE status[o] \in {"approved", "executing"} -> "accepted"
      [] status[o] \in {"completed", "failed"} ->
             IF votesFor[o] >= QuorumSize THEN "accepted" ELSE "closed"
      [] status[o] = "rejected" -> "refused"
      [] status[o] = "proposed" -> "open"
      [] OTHER -> "new"

Support(o) == IF votesFor[o] < QuorumSize THEN votesFor[o] ELSE QuorumSize

Vote_ == INSTANCE Agreement WITH
    Question <- Proposal,
    outcome <- [o \in Proposal |-> Outcome(o)],
    need <- [o \in Proposal |-> QuorumSize],
    support <- [o \in Proposal |-> Support(o)]

\* The engine implements Agreement: votes that come after a decision, in any
\* order, never turn it, and no proposal is decided twice in different ways.
EngineAgrees == Vote_!AgSpec

\* An object is approved or executing only with a quorum of votes for it, and one
\* that has been rejected or finished is in no table, so no later call reaches it.
StatusIsEarned ==
    \A o \in Proposal :
        /\ status[o] \in {"approved", "executing"}
               <=> votesFor[o] >= QuorumSize /\ status[o] \notin {"completed", "failed"}
        /\ status[o] \in {"rejected", "completed", "failed"} => active[IdOf[o]] # o
=============================================================================
