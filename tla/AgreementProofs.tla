--------------------------- MODULE AgreementProofs ---------------------------
(***************************************************************************)
(* The two voters, DecisionEngine and ConsensusMesh, implement Agreement:  *)
(* for any proposals, ids, members, rounds, quorums and bounds, beside any *)
(* other components of MCServices.                                         *)
(***************************************************************************)
EXTENDS MCServices, FiniteSetTheorems, TLAPS

-----------------------------------------------------------------------------
(* The decision engine *)

DeTables ==
    /\ status \in [Proposal -> DecisionStatus]
    /\ votesFor \in [Proposal -> Nat] /\ votesAgainst \in [Proposal -> Nat]
    /\ active \in [Pid -> Proposal \cup {NoProposal}]

\* The table holds undecided and approved objects under their own ids.
ActiveIsOpen ==
    \A i \in Pid : active[i] # NoProposal =>
        IdOf[active[i]] = i /\ status[active[i]] \in {"proposed", "approved", "executing"}

\* What the votes of an object say about its status.
VotesTell ==
    \A o \in Proposal :
        /\ status[o] = "new" => votesFor[o] = 0 /\ votesAgainst[o] = 0
        /\ status[o] = "proposed" => votesFor[o] < QuorumSize /\ votesAgainst[o] < QuorumSize
        /\ status[o] = "rejected" => votesFor[o] < QuorumSize
        /\ status[o] \in {"approved", "executing"} => votesFor[o] >= QuorumSize

DeInv == DeTables /\ ActiveIsOpen /\ VotesTell

LEMMA DeInvInit == DeInit => DeInv
  BY ProposalAssumption, QuorumAssumption
     DEF DeInit, DeInv, DeTables, ActiveIsOpen, VotesTell, DecisionStatus

\* A step that gives one object of the table new votes and a new status.
LEMMA DeInvChange ==
    ASSUME DeInv, DeTables', NEW i \in Pid, NEW o \in Proposal, active[i] = o,
           NEW s \in DecisionStatus, status' = [status EXCEPT ![o] = s],
           \A p \in Proposal : p # o =>
               votesFor'[p] = votesFor[p] /\ votesAgainst'[p] = votesAgainst[p],
           s \in {"proposed", "approved", "executing"} => active' = active,
           s \in {"completed", "failed", "rejected"} =>
               active' = [active EXCEPT ![i] = NoProposal],
           s # "new",
           s = "proposed" => /\ votesFor'[o] < QuorumSize
                             /\ votesAgainst'[o] < QuorumSize,
           s = "rejected" => votesFor'[o] < QuorumSize,
           s \in {"approved", "executing"} => votesFor'[o] >= QuorumSize
    PROVE  DeInv'
  <1> USE ProposalAssumption DEF DeInv, DeTables, DecisionStatus
  <1>1. ActiveIsOpen'
    <2> SUFFICES ASSUME NEW k \in Pid, active'[k] # NoProposal
                 PROVE  /\ IdOf[active'[k]] = k
                        /\ status'[active'[k]] \in {"proposed", "approved", "executing"}
      BY DEF ActiveIsOpen
    <2>1. active'[k] = active[k] /\ active[k] \in Proposal
      OBVIOUS
    <2>2. CASE k = i
      BY <2>1, <2>2 DEF ActiveIsOpen
    <2>3. CASE k # i
      BY <2>1, <2>3 DEF ActiveIsOpen
    <2> QED
      BY <2>2, <2>3
  <1>2. VotesTell'
    <2> SUFFICES ASSUME NEW p \in Proposal
                 PROVE  (/\ status[p] = "new" => votesFor[p] = 0 /\ votesAgainst[p] = 0
                         /\ status[p] = "proposed" =>
                               votesFor[p] < QuorumSize /\ votesAgainst[p] < QuorumSize
                         /\ status[p] = "rejected" => votesFor[p] < QuorumSize
                         /\ status[p] \in {"approved", "executing"} =>
                               votesFor[p] >= QuorumSize)'
      BY DEF VotesTell
    <2>1. CASE p = o
      BY <2>1
    <2>2. CASE p # o
      BY <2>2 DEF VotesTell
    <2> QED
      BY <2>1, <2>2
  <1> QED
    BY <1>1, <1>2

\* What one object's new outcome and support are as a step of Agreement.
LEMMA DeMapped ==
    ASSUME NEW o \in Proposal, Support(o) \in Nat, Support(o)' \in Nat,
           \A p \in Proposal : p # o => Outcome(p)' = Outcome(p) /\ Support(p)' = Support(p),
           \/ Outcome(o) = "new" /\ Outcome(o)' = "open" /\ Support(o)' = Support(o)
           \/ /\ Outcome(o) \in {"open", "accepted"} /\ Support(o)' > Support(o)
              /\ Outcome(o)' = IF Support(o)' >= QuorumSize THEN "accepted" ELSE "open"
           \/ /\ Outcome(o) = "open" /\ Support(o) < QuorumSize
              /\ Outcome(o)' \in {"refused", "closed"} /\ Support(o)' = Support(o)
           \/ Outcome(o)' = Outcome(o) /\ Support(o)' = Support(o)
    PROVE  [Vote_!AgNext]_(Vote_!agVars)
  <1> DEFINE out == [p \in Proposal |-> Outcome(p)]
             sup == [p \in Proposal |-> Support(p)]
             req == [p \in Proposal |-> QuorumSize]
  <1>1. out' = [out EXCEPT ![o] = Outcome(o)'] /\ sup' = [sup EXCEPT ![o] = Support(o)']
    OBVIOUS
  <1>2. req' = req /\ req = [req EXCEPT ![o] = req'[o]] /\ req[o] = QuorumSize
    OBVIOUS
  <1>3. out[o] = Outcome(o) /\ sup[o] = Support(o) /\ sup'[o] = Support(o)'
    OBVIOUS
  <1>4. CASE Outcome(o) = "new" /\ Outcome(o)' = "open" /\ Support(o)' = Support(o)
    <2>1. sup' = sup
      BY <1>4
    <2> QED
      BY <1>1, <1>2, <1>3, <1>4, <2>1, QuorumAssumption DEF Vote_!AgNext, Vote_!Open
  <1>5. CASE /\ Outcome(o) \in {"open", "accepted"} /\ Support(o)' > Support(o)
             /\ Outcome(o)' = IF Support(o)' >= QuorumSize THEN "accepted" ELSE "open"
    BY <1>1, <1>2, <1>3, <1>5 DEF Vote_!AgNext, Vote_!Gain
  <1>6. CASE /\ Outcome(o) = "open" /\ Support(o) < QuorumSize
             /\ Outcome(o)' \in {"refused", "closed"} /\ Support(o)' = Support(o)
    <2>1. sup' = sup
      BY <1>6
    <2> QED
      BY <1>1, <1>2, <1>3, <1>6, <2>1 DEF Vote_!AgNext, Vote_!Settle
  <1>7. CASE Outcome(o)' = Outcome(o) /\ Support(o)' = Support(o)
    <2>1. out' = out /\ sup' = sup
      BY <1>7
    <2> QED
      BY <1>2, <2>1 DEF Vote_!agVars
  <1> QED
    BY <1>4, <1>5, <1>6, <1>7

LEMMA DeMappedInit == DeInit => Vote_!AgInit
  BY QuorumAssumption DEF DeInit, Vote_!AgInit, Outcome, Support

LEMMA DeTablesNext == DeTables /\ [DeNext]_deVars => DeTables'
  <1> SUFFICES ASSUME DeTables, [DeNext]_deVars PROVE DeTables'
    OBVIOUS
  <1> USE ProposalAssumption, QuorumAssumption DEF DeTables, DecisionStatus
  <1>1. ASSUME NEW o \in Proposal, Propose(o) PROVE DeTables'
    BY <1>1 DEF Propose
  <1>2. ASSUME NEW i \in Pid, AutoApprove(i) PROVE DeTables'
    BY <1>2 DEF AutoApprove, Approve
  <1>3. ASSUME NEW i \in Pid, Execute(i) PROVE DeTables'
    BY <1>3 DEF Execute
  <1>4. ASSUME NEW i \in Pid, NEW yes \in BOOLEAN, Vote(i, yes) PROVE DeTables'
    <2>1. votesFor' \in [Proposal -> Nat] /\ votesAgainst' \in [Proposal -> Nat]
      BY <1>4 DEF Vote
    <2>2. PICK o \in Proposal : active[i] = o /\ Judge(o)
      BY <1>4 DEF Vote
    <2>3. IdOf[o] \in Pid
      OBVIOUS
    <2>4. status' \in [Proposal -> DecisionStatus]
      BY <2>2 DEF Judge, Approve, Finalize
    <2>5. active' \in [Pid -> Proposal \cup {NoProposal}]
      BY <2>2, <2>3 DEF Judge, Approve, Finalize
    <2> QED
      BY <2>1, <2>4, <2>5
  <1>5. ASSUME NEW i \in Pid, NEW yes \in BOOLEAN, Complete(i, yes) PROVE DeTables'
    BY <1>5 DEF Complete, Finalize
  <1>6. CASE UNCHANGED deVars
    BY <1>6 DEF deVars
  <1> QED
    BY <1>1, <1>2, <1>3, <1>4, <1>5, <1>6 DEF DeNext

DeAgrees == DeInv' /\ [Vote_!AgNext]_(Vote_!agVars)

LEMMA DeNextAgrees == DeInv /\ [DeNext]_deVars => DeAgrees
  <1> SUFFICES ASSUME DeInv, [DeNext]_deVars PROVE DeAgrees
    OBVIOUS
  <1>1. DeTables /\ DeTables'
    BY DeTablesNext DEF DeInv
  <1>2. \A o \in Proposal : Support(o) \in Nat /\ Support(o)' \in Nat
    BY <1>1, QuorumAssumption DEF DeTables, Support
  <1>3. \A i \in Pid : active[i] # NoProposal =>
            /\ active[i] \in Proposal /\ IdOf[active[i]] = i
            /\ status[active[i]] \in {"proposed", "approved", "executing"}
    BY <1>1 DEF DeInv, DeTables, ActiveIsOpen
  <1> USE ProposalAssumption, QuorumAssumption
  <1>4. ASSUME NEW o \in Proposal, Propose(o) PROVE DeAgrees
    <2>1. /\ status'[o] = "proposed" /\ UNCHANGED <<votesFor, votesAgainst>>
          /\ \A p \in Proposal : p # o => status'[p] = status[p]
          /\ active' = [active EXCEPT ![IdOf[o]] = o]
      BY <1>1, <1>4 DEF Propose, DeTables
    <2>2. ActiveIsOpen'
      BY <1>1, <1>3, <1>4, <2>1 DEF ActiveIsOpen, DeTables, Propose
    <2>3. VotesTell'
      BY <1>1, <1>4, <2>1 DEF DeInv, VotesTell, DeTables, Propose
    <2>4. Outcome(o) = "new" /\ Outcome(o)' = "open" /\ Support(o)' = Support(o)
      BY <1>4, <2>1 DEF Propose, Outcome, Support
    <2>5. \A p \in Proposal : p # o => Outcome(p)' = Outcome(p) /\ Support(p)' = Support(p)
      BY <2>1 DEF Outcome, Support
    <2> QED
      BY <1>1, <1>2, <2>2, <2>3, <2>4, <2>5, DeMapped DEF DeAgrees, DeInv
  <1>5. ASSUME NEW i \in Pid, AutoApprove(i) PROVE DeAgrees
    <2>1. PICK o \in Proposal : active[i] = o /\ status[o] \in {"proposed", "approved", "executing"}
      BY <1>3, <1>5 DEF AutoApprove
    <2>2. /\ status' = [status EXCEPT ![o] = "approved"] /\ status'[o] = "approved"
          /\ votesFor'[o] = QuorumSize /\ UNCHANGED <<votesAgainst, active>>
          /\ \A p \in Proposal : p # o => status'[p] = status[p] /\ votesFor'[p] = votesFor[p]
      BY <1>1, <1>5, <2>1 DEF AutoApprove, Approve, DeTables
    <2>3. DeInv'
      <3>1. /\ active' = active /\ votesFor'[o] >= QuorumSize
            /\ \A p \in Proposal : p # o =>
                  votesFor'[p] = votesFor[p] /\ votesAgainst'[p] = votesAgainst[p]
        BY <2>2
      <3> QED
        BY <1>1, <2>1, <2>2, <3>1, DeInvChange DEF DecisionStatus
    <2>4. \A p \in Proposal : p # o => Outcome(p)' = Outcome(p) /\ Support(p)' = Support(p)
      BY <2>2 DEF Outcome, Support
    <2>5. Outcome(o)' = "accepted" /\ Support(o)' = QuorumSize
      BY <2>2 DEF Outcome, Support
    <2>6. CASE status[o] = "proposed"
      <3>1. Outcome(o) = "open" /\ Support(o) < QuorumSize
        BY <2>1, <2>6 DEF DeInv, VotesTell, Outcome, Support
      <3> QED
        BY <1>2, <2>1, <2>3, <2>4, <2>5, <3>1, DeMapped DEF DeAgrees
    <2>7. CASE status[o] \in {"approved", "executing"}
      <3>1. Outcome(o) = "accepted" /\ Support(o) = QuorumSize
        BY <1>1, <2>1, <2>7 DEF DeInv, DeTables, VotesTell, Outcome, Support
      <3> QED
        BY <1>2, <2>1, <2>3, <2>4, <2>5, <3>1, DeMapped DEF DeAgrees
    <2> QED
      BY <2>1, <2>6, <2>7
  <1>6. ASSUME NEW i \in Pid, Execute(i) PROVE DeAgrees
    <2>1. PICK o \in Proposal : active[i] = o /\ status[o] = "approved"
      BY <1>3, <1>6 DEF Execute
    <2>2. /\ status' = [status EXCEPT ![o] = "executing"] /\ status'[o] = "executing"
          /\ UNCHANGED <<votesFor, votesAgainst, active>>
          /\ \A p \in Proposal : p # o => status'[p] = status[p]
      BY <1>1, <1>6, <2>1 DEF Execute, DeTables
    <2>3. DeInv'
      <3>1. votesFor'[o] >= QuorumSize
        BY <2>1, <2>2 DEF DeInv, VotesTell
      <3> QED
        BY <1>1, <2>1, <2>2, <3>1, DeInvChange DEF DecisionStatus
    <2>4. \A p \in Proposal : Outcome(p)' = Outcome(p) /\ Support(p)' = Support(p)
      BY <2>1, <2>2 DEF Outcome, Support
    <2> QED
      BY <1>2, <2>1, <2>3, <2>4, DeMapped DEF DeAgrees
  <1>7. ASSUME NEW i \in Pid, NEW yes \in BOOLEAN, Complete(i, yes) PROVE DeAgrees
    <2> DEFINE s == IF yes THEN "completed" ELSE "failed"
    <2>1. PICK o \in Proposal : active[i] = o /\ status[o] \in {"proposed", "approved", "executing"}
      BY <1>3, <1>7 DEF Complete
    <2>2. /\ status' = [status EXCEPT ![o] = s] /\ status'[o] = s /\ s \in {"completed", "failed"}
          /\ UNCHANGED <<votesFor, votesAgainst>> /\ active' = [active EXCEPT ![i] = NoProposal]
          /\ \A p \in Proposal : p # o => status'[p] = status[p]
      BY <1>1, <1>7, <2>1 DEF Complete, Finalize, DeTables
    <2> HIDE DEF s
    <2>3. DeInv'
      BY <1>1, <2>1, <2>2, DeInvChange DEF DecisionStatus
    <2>4. \A p \in Proposal : p # o => Outcome(p)' = Outcome(p) /\ Support(p)' = Support(p)
      BY <2>2 DEF Outcome, Support
    <2>5. Support(o)' = Support(o)
      BY <2>2 DEF Support
    <2>6. CASE status[o] = "proposed"
      <3>1. Outcome(o) = "open" /\ Support(o) < QuorumSize /\ ~ votesFor'[o] >= QuorumSize
        BY <1>1, <2>1, <2>2, <2>6 DEF DeInv, DeTables, VotesTell, Outcome, Support
      <3>2. Outcome(o)' = "closed"
        BY <2>2, <3>1 DEF Outcome
      <3> QED
        BY <1>2, <2>1, <2>3, <2>4, <2>5, <3>1, <3>2, DeMapped DEF DeAgrees
    <2>7. CASE status[o] \in {"approved", "executing"}
      <3>1. Outcome(o) = "accepted" /\ votesFor'[o] >= QuorumSize
        BY <1>1, <2>1, <2>2, <2>7 DEF DeInv, DeTables, VotesTell, Outcome
      <3>2. Outcome(o)' = "accepted"
        BY <2>2, <3>1 DEF Outcome
      <3> QED
        BY <1>2, <2>1, <2>3, <2>4, <2>5, <3>1, <3>2, DeMapped DEF DeAgrees
    <2> QED
      BY <2>1, <2>6, <2>7
  <1>8. ASSUME NEW i \in Pid, NEW yes \in BOOLEAN, Vote(i, yes) PROVE DeAgrees
    <2>1. PICK o \in Proposal : active[i] = o /\ status[o] \in {"proposed", "approved", "executing"}
      BY <1>3, <1>8 DEF Vote
    <2>2. /\ Judge(o) /\ IdOf[o] = i
          /\ votesFor'[o] \in {votesFor[o], votesFor[o] + 1}
          /\ \A p \in Proposal : p # o =>
                votesFor'[p] = votesFor[p] /\ votesAgainst'[p] = votesAgainst[p]
      BY <1>1, <1>3, <1>8, <2>1 DEF Vote, DeTables
    <2>3. votesFor[o] \in Nat /\ votesFor'[o] \in Nat /\ votesAgainst'[o] \in Nat
      BY <1>1 DEF DeTables
    <2>4. CASE votesFor'[o] >= QuorumSize
      <3>1. /\ status' = [status EXCEPT ![o] = "approved"] /\ UNCHANGED active
            /\ status'[o] = "approved" /\ \A p \in Proposal : p # o => status'[p] = status[p]
        BY <1>1, <2>2, <2>4 DEF Judge, Approve, DeTables
      <3>2. DeInv'
        BY <1>1, <2>1, <2>2, <2>4, <3>1, DeInvChange DEF DecisionStatus
      <3>3. \A p \in Proposal : p # o => Outcome(p)' = Outcome(p) /\ Support(p)' = Support(p)
        BY <2>2, <3>1 DEF Outcome, Support
      <3>4. Outcome(o)' = "accepted" /\ Support(o)' = QuorumSize
        BY <2>3, <2>4, <3>1 DEF Outcome, Support
      <3>5. CASE status[o] = "proposed"
        <4>1. Outcome(o) = "open" /\ Support(o) < QuorumSize
          BY <3>5 DEF DeInv, VotesTell, Outcome, Support
        <4> QED
          BY <1>2, <3>2, <3>3, <3>4, <4>1, DeMapped DEF DeAgrees
      <3>6. CASE status[o] \in {"approved", "executing"}
        <4>1. Outcome(o) = "accepted" /\ Support(o) = QuorumSize
          BY <2>3, <3>6 DEF DeInv, VotesTell, Outcome, Support
        <4> QED
          BY <1>2, <3>2, <3>3, <3>4, <4>1, DeMapped DEF DeAgrees
      <3> QED
        BY <2>1, <3>5, <3>6
    <2>5. CASE ~ votesFor'[o] >= QuorumSize
      <3>1. status[o] = "proposed" /\ votesFor[o] < QuorumSize /\ votesFor'[o] < QuorumSize
        BY <2>1, <2>2, <2>3, <2>5 DEF DeInv, VotesTell
      <3>2. Outcome(o) = "open" /\ Support(o) = votesFor[o] /\ Support(o)' = votesFor'[o]
        BY <3>1 DEF Outcome, Support
      <3>3. CASE votesAgainst'[o] >= QuorumSize
        <4>1. /\ status' = [status EXCEPT ![o] = "rejected"] /\ status'[o] = "rejected"
              /\ active' = [active EXCEPT ![i] = NoProposal]
              /\ \A p \in Proposal : p # o => status'[p] = status[p]
          BY <1>1, <2>2, <2>5, <3>3 DEF Judge, Finalize, DeTables
        <4>2. votesFor'[o] = votesFor[o]
          BY <1>1, <1>8, <2>1, <3>1, <3>3 DEF Vote, DeInv, DeTables, VotesTell
        <4>3. DeInv'
          BY <1>1, <2>1, <2>2, <3>1, <4>1, DeInvChange DEF DecisionStatus
        <4>4. \A p \in Proposal : p # o => Outcome(p)' = Outcome(p) /\ Support(p)' = Support(p)
          BY <2>2, <4>1 DEF Outcome, Support
        <4>5. Outcome(o)' = "refused"
          BY <4>1 DEF Outcome
        <4> QED
          BY <1>2, <3>1, <3>2, <4>2, <4>3, <4>4, <4>5, DeMapped DEF DeAgrees
      <3>4. CASE ~ votesAgainst'[o] >= QuorumSize
        <4>1. UNCHANGED <<status, active>>
          BY <2>2, <2>5, <3>4 DEF Judge
        <4>2. DeInv'
          <5>1. status' = [status EXCEPT ![o] = "proposed"]
            BY <1>1, <3>1, <4>1 DEF DeTables
          <5>2. votesAgainst'[o] < QuorumSize /\ active' = active
            BY <2>3, <3>4, <4>1
          <5> QED
            BY <1>1, <2>1, <2>2, <3>1, <5>1, <5>2, DeInvChange DEF DecisionStatus
        <4>3. \A p \in Proposal : p # o => Outcome(p)' = Outcome(p) /\ Support(p)' = Support(p)
          BY <2>2, <4>1 DEF Outcome, Support
        <4>4. Outcome(o)' = "open"
          BY <3>1, <4>1 DEF Outcome
        <4>5. Support(o)' = Support(o) \/ Support(o)' > Support(o)
          BY <2>2, <2>3, <3>2
        <4> QED
          BY <1>2, <3>1, <3>2, <4>2, <4>3, <4>4, <4>5, DeMapped DEF DeAgrees
      <3> QED
        BY <3>3, <3>4
    <2> QED
      BY <2>4, <2>5
  <1>9. CASE UNCHANGED deVars
    <2>1. DeInv'
      BY <1>9 DEF DeInv, deVars, DeTables, ActiveIsOpen, VotesTell
    <2>2. UNCHANGED Vote_!agVars
      BY <1>9 DEF deVars, Vote_!agVars, Outcome, Support
    <2> QED
      BY <2>1, <2>2 DEF DeAgrees
  <1> QED
    BY <1>4, <1>5, <1>6, <1>7, <1>8, <1>9 DEF DeNext

LEMMA DeEarned == DeInv => StatusIsEarned
  BY ProposalAssumption, QuorumAssumption
     DEF DeInv, DeTables, DecisionStatus, ActiveIsOpen, VotesTell, StatusIsEarned

-----------------------------------------------------------------------------
(* The rounds of the consensus mesh *)

\* A pending round has neither quorum, a new one no votes, and every one some quorum.
BallotInv ==
    /\ ballot \in [Round -> Ballot]
    /\ \A r \in Round :
          /\ ballot[r].result \in {"new", "pending"} =>
                ballot[r].yes < ballot[r].quorum /\ ballot[r].no < ballot[r].quorum
          /\ ballot[r].result = "new" => ballot[r].yes = 0 /\ ballot[r].no = 0

\* The members keep their types, and at most one leads by an election.
MembersInv ==
    /\ node \in [Member -> Node \cup {NoMember}]
    /\ term \in Nat /\ beats \in Nat /\ claims \subseteq Member
    /\ OneMeshLeader

CmInv == BallotInv /\ MembersInv

LEMMA CmInvInit == CmInit => CmInv
  BY DEF CmInit, CmInv, BallotInv, MembersInv, OneMeshLeader, Elected, Ballot, Registered

LEMMA CmMappedInit == CmInit => Rounds!AgInit
  BY DEF CmInit, Rounds!AgInit, Result

\* A new ballot of one round, as a step of Agreement.
LEMMA CmMapped ==
    ASSUME BallotInv, NEW r \in Round, NEW b \in Ballot, ballot' = [ballot EXCEPT ![r] = b],
           b.result \in {"new", "pending"} => b.yes < b.quorum /\ b.no < b.quorum,
           b.result # "new",
           \/ ballot[r].result = "new" /\ b.result = "pending" /\ b.yes = ballot[r].yes
           \/ /\ ballot[r].result = "pending" /\ b.quorum = ballot[r].quorum
              /\ b.yes > ballot[r].yes
              /\ b.result = IF b.yes >= b.quorum THEN "accepted" ELSE "pending"
           \/ /\ ballot[r].result = "pending" /\ b.quorum = ballot[r].quorum
              /\ b.yes = ballot[r].yes /\ b.result \in {"pending", "rejected"}
    PROVE  BallotInv' /\ [Rounds!AgNext]_(Rounds!agVars)
  <1>1. BallotInv'
    <2>1. ballot' \in [Round -> Ballot]
      BY DEF BallotInv
    <2>2. \A q \in Round : ballot'[q] = IF q = r THEN b ELSE ballot[q]
      BY DEF BallotInv
    <2> QED
      BY <2>1, <2>2 DEF BallotInv
  <1> DEFINE out == [q \in Round |-> Result(ballot[q])]
             sup == [q \in Round |-> ballot[q].yes]
             req == [q \in Round |-> ballot[q].quorum]
  <1>2. ballot[r] \in Ballot /\ \A q \in Round : ballot'[q] = IF q = r THEN b ELSE ballot[q]
    BY DEF BallotInv
  <1>3. /\ out' = [out EXCEPT ![r] = Result(b)] /\ sup' = [sup EXCEPT ![r] = b.yes]
        /\ req' = [req EXCEPT ![r] = b.quorum]
    <2>1. \A q \in Round : Result(ballot[q])' = IF q = r THEN Result(b) ELSE Result(ballot[q])
      BY <1>2 DEF Result
    <2>2. out' = [q \in Round |-> Result(ballot[q])']
      OBVIOUS
    <2>3. out' = [out EXCEPT ![r] = Result(b)]
      BY <2>1, <2>2
    <2>4. \A q \in Round : /\ ballot'[q].yes = IF q = r THEN b.yes ELSE ballot[q].yes
                          /\ ballot'[q].quorum = IF q = r THEN b.quorum ELSE ballot[q].quorum
      BY <1>2
    <2>5. sup' = [sup EXCEPT ![r] = b.yes]
      BY <2>4
    <2>6. req' = [req EXCEPT ![r] = b.quorum]
      BY <2>4
    <2> QED
      BY <2>3, <2>5, <2>6
  <1>4. /\ out[r] = Result(ballot[r]) /\ sup[r] = ballot[r].yes /\ req[r] = ballot[r].quorum
        /\ sup'[r] = b.yes /\ req'[r] = b.quorum
    BY <1>2
  <1>5. /\ b.yes \in Nat /\ b.no \in Nat /\ b.quorum \in Nat \ {0} /\ ballot[r].yes \in Nat
        /\ ballot[r].quorum \in Nat
    BY <1>2 DEF Ballot
  <1>6. CASE ballot[r].result = "new" /\ b.result = "pending" /\ b.yes = ballot[r].yes
    <2>1. sup' = sup
      BY <1>2, <1>6
    <2>2. out[r] = "new" /\ Result(b) = "open"
      BY <1>4, <1>6 DEF Result
    <2> QED
      BY <1>1, <1>3, <1>4, <1>5, <2>1, <2>2 DEF Rounds!AgNext, Rounds!Open, Result
  <1>7. CASE /\ ballot[r].result = "pending" /\ b.quorum = ballot[r].quorum
             /\ b.yes > ballot[r].yes
             /\ b.result = IF b.yes >= b.quorum THEN "accepted" ELSE "pending"
    <2>1. req' = req
      BY <1>2, <1>7
    <2>2. out[r] = "open" /\ Result(b) = IF b.yes >= b.quorum THEN "accepted" ELSE "open"
      BY <1>4, <1>7 DEF Result
    <2> QED
      BY <1>1, <1>3, <1>4, <1>5, <1>7, <2>1, <2>2 DEF Rounds!AgNext, Rounds!Gain, Result
  <1>8. CASE /\ ballot[r].result = "pending" /\ b.quorum = ballot[r].quorum
             /\ b.yes = ballot[r].yes /\ b.result = "rejected"
    <2>1. req' = req /\ sup' = sup
      BY <1>2, <1>8
    <2>2. out[r] = "open" /\ Result(b) = "refused" /\ sup[r] < req[r]
      BY <1>2, <1>4, <1>8 DEF Result, BallotInv
    <2> QED
      BY <1>1, <1>3, <2>1, <2>2 DEF Rounds!AgNext, Rounds!Settle, Result
  <1>9. CASE /\ ballot[r].result = "pending" /\ b.quorum = ballot[r].quorum
             /\ b.yes = ballot[r].yes /\ b.result = "pending"
    <2>1. req' = req /\ sup' = sup /\ out' = out
      BY <1>2, <1>9 DEF Result
    <2> QED
      BY <1>1, <2>1 DEF Rounds!agVars, Result
  <1> QED
    BY <1>1, <1>6, <1>7, <1>8, <1>9

CmAgrees == CmInv' /\ [Rounds!AgNext]_(Rounds!agVars)

\* A step that leaves the ballots alone is a stutter of Agreement.
LEMMA CmStutters == UNCHANGED ballot /\ BallotInv => BallotInv' /\ UNCHANGED Rounds!agVars
  BY DEF BallotInv, Rounds!agVars, Result

LEMMA MembersKept == MembersInv /\ UNCHANGED <<node, term, leader, beats, claims>> => MembersInv'
  BY DEF MembersInv, OneMeshLeader, Elected, Registered

LEMMA CmNextAgrees == CmInv /\ [CmNext]_cmVars => CmAgrees
  <1> SUFFICES ASSUME CmInv, [CmNext]_cmVars PROVE CmAgrees
    OBVIOUS
  <1>1. BallotInv /\ MembersInv
    BY DEF CmInv
  <1> USE MemberAssumption, NodeAssumption
  <1>2. ASSUME NEW m \in Member, NEW state \in {"leader", "follower"}, NEW healthy \in BOOLEAN,
                RegisterNode(m, state, healthy) PROVE CmAgrees
    <2> DEFINE new == [healthy |-> healthy, beat |-> beats', state |-> state, term |-> term]
    <2>1. new \in Node /\ node' = [node EXCEPT ![m] = new] /\ UNCHANGED leader
      BY <1>1, <1>2 DEF RegisterNode, Node, MembersInv
    <2>2. /\ new.state = state
          /\ claims' = IF state = "leader" THEN claims \cup {m} ELSE claims \ {m}
      BY <1>2 DEF RegisterNode
    <2> HIDE DEF new
    <2>3. /\ node' \in [Member -> Node \cup {NoMember}]
          /\ \A n \in Member : node'[n] = IF n = m THEN new ELSE node[n]
      BY <1>1, <2>1 DEF MembersInv
    <2>4. OneMeshLeader'
      BY <1>1, <2>1, <2>2, <2>3 DEF MembersInv, OneMeshLeader, Elected, Registered
    <2> QED
      BY <1>1, <1>2, <2>3, <2>4, CmStutters DEF RegisterNode, CmAgrees, CmInv, MembersInv
  <1>3. ASSUME NEW m \in Member, RemoveNode(m) PROVE CmAgrees
    <2>1. /\ node' \in [Member -> Node \cup {NoMember}]
          /\ \A n \in Member : node'[n] = IF n = m THEN NoMember ELSE node[n]
      BY <1>1, <1>3 DEF RemoveNode, MembersInv
    <2>2. OneMeshLeader'
      BY <1>1, <1>3, <2>1 DEF RemoveNode, MembersInv, OneMeshLeader, Elected, Registered
    <2> QED
      BY <1>1, <1>3, <2>1, <2>2, CmStutters DEF RemoveNode, CmAgrees, CmInv, MembersInv
  <1>4. ASSUME NEW m \in Member, Heartbeat(m) PROVE CmAgrees
    <2>1. node[m] \in Node /\ node[m] # NoMember /\ beats' \in Nat
      BY <1>1, <1>4 DEF Heartbeat, Registered, MembersInv
    <2> DEFINE new == [node[m] EXCEPT !.healthy = TRUE, !.beat = beats']
    <2>2. new \in Node /\ new.state = node[m].state
      BY <2>1 DEF Node
    <2>3. node' = [node EXCEPT ![m] = new]
      BY <1>1, <1>4, <2>1 DEF Heartbeat, MembersInv, Node
    <2> HIDE DEF new
    <2>4. /\ node' \in [Member -> Node \cup {NoMember}]
          /\ \A n \in Member : node'[n] = IF n = m THEN new ELSE node[n]
      BY <1>1, <2>2, <2>3 DEF MembersInv
    <2>5. UNCHANGED <<leader, term, claims, ballot>>
      BY <1>4 DEF Heartbeat
    <2>6. OneMeshLeader'
      BY <1>1, <2>1, <2>2, <2>4, <2>5 DEF MembersInv, OneMeshLeader, Elected, Registered
    <2> QED
      BY <1>1, <2>1, <2>4, <2>5, <2>6, CmStutters DEF CmAgrees, CmInv, MembersInv
  <1>5. CASE CheckHealth
    <2>1. /\ node' \in [Member -> Node \cup {NoMember}]
          /\ \A n \in Member : /\ node'[n] = NoMember <=> node[n] = NoMember
                               /\ node[n] # NoMember => node'[n].state = node[n].state
      <3>1. PICK since \in 1 .. beats + 1 :
               node' = [m \in Member |-> IF m \in Registered /\ node[m].beat < since
                                         THEN [node[m] EXCEPT !.healthy = FALSE] ELSE node[m]]
        BY <1>5 DEF CheckHealth
      <3>2. \A n \in Member : node[n] # NoMember =>
               /\ node[n] \in Node /\ [node[n] EXCEPT !.healthy = FALSE] \in Node
               /\ [node[n] EXCEPT !.healthy = FALSE].state = node[n].state
        BY <1>1 DEF MembersInv, Node
      <3> QED
        BY <1>1, <3>1, <3>2 DEF MembersInv, Registered
    <2>2. OneMeshLeader'
      BY <1>1, <1>5, <2>1 DEF CheckHealth, MembersInv, OneMeshLeader, Elected, Registered
    <2> QED
      BY <1>1, <1>5, <2>1, <2>2, CmStutters DEF CheckHealth, CmAgrees, CmInv, MembersInv
  <1>6. CASE ElectLeader
    <2>1. CASE Healthy = {}
      <3>1. OneMeshLeader'
        BY <1>1, <1>6, <2>1 DEF ElectLeader, MembersInv, OneMeshLeader, Elected, Registered
      <3> QED
        BY <1>1, <1>6, <2>1, <3>1, CmStutters DEF ElectLeader, CmAgrees, CmInv, MembersInv
    <2>2. CASE Healthy # {}
      <3>1. PICK m \in Member :
               /\ Freshest(m) /\ leader' = m /\ claims' = {}
               /\ node' = [n \in Member |-> IF n \in Registered
                             THEN [node[n] EXCEPT !.term = term',
                                                  !.state = IF n = m THEN "leader" ELSE "follower"]
                             ELSE NoMember]
        BY <1>6, <2>2 DEF ElectLeader
      <3>2. m \in Registered
        BY <3>1 DEF Freshest, Healthy
      <3>3. term' \in Nat
        <4>1. term' = term + 1
          BY <1>6 DEF ElectLeader
        <4> QED
          BY <1>1, <4>1 DEF MembersInv
      <3>4. \A n \in Member : n \in Registered =>
               /\ node'[n] \in Node
               /\ node'[n].state = IF n = m THEN "leader" ELSE "follower"
        BY <1>1, <3>1, <3>3 DEF MembersInv, Registered, Node
      <3>5. \A n \in Member : n \notin Registered => node'[n] = NoMember
        BY <3>1
      <3>6. node' \in [Member -> Node \cup {NoMember}]
        BY <3>1, <3>4, <3>5
      <3>7. Registered' = Registered
        BY <3>4, <3>5 DEF Registered
      <3>8. OneMeshLeader'
        <4>1. Registered \subseteq Member
          BY DEF Registered
        <4> QED
          <5>1. leader' \in Registered'
            BY <3>1, <3>2, <3>7
          <5>2. \A n \in Registered' : node'[n].state = "leader" => n = m
            BY <3>4, <3>7, <4>1
          <5> QED
            BY <3>1, <5>1, <5>2 DEF OneMeshLeader, Elected
      <3> QED
        BY <1>1, <3>1, <1>6, <3>3, <3>6, <3>8, CmStutters DEF ElectLeader, CmAgrees, CmInv, MembersInv
    <2> QED
      BY <2>1, <2>2
  <1>7. ASSUME NEW r \in Round, ProposeRound(r) PROVE CmAgrees
    <2> DEFINE q == Cardinality(Healthy) \div 2 + 1
               b == [ballot[r] EXCEPT !.result = "pending", !.quorum = q]
    <2>1. Cardinality(Healthy) \in Nat
      <3>1. IsFiniteSet(Healthy)
        BY FS_Subset DEF Healthy, Registered
      <3> QED
        BY <3>1, FS_CardinalityType
    <2>2. ballot[r] \in Ballot /\ ballot[r].result = "new" /\ ballot[r].yes = 0
      BY <1>1, <1>7 DEF ProposeRound, BallotInv
    <2>3. q \in Nat \ {0}
      BY <2>1
    <2>4. /\ b \in Ballot /\ b.result = "pending" /\ b.yes = 0 /\ b.no = 0 /\ b.quorum = q
      <3> HIDE DEF q
      <3>1. ballot[r].no = 0
        BY <1>1, <2>2 DEF BallotInv
      <3> QED
        BY <2>2, <2>3, <3>1 DEF Ballot
    <2>5. ballot' = [ballot EXCEPT ![r] = b]
      BY <1>1, <1>7, <2>2 DEF ProposeRound, BallotInv, Ballot
    <2> HIDE DEF b
    <2>6. BallotInv' /\ [Rounds!AgNext]_(Rounds!agVars)
      <3>1. b.yes < b.quorum /\ b.no < b.quorum
        BY <2>3, <2>4
      <3> QED
        BY <1>1, <2>2, <2>4, <2>5, <3>1, CmMapped
    <2> QED
      BY <1>1, <1>7, <2>6, MembersKept DEF ProposeRound, CmAgrees, CmInv
  <1>8. ASSUME NEW r \in Round, AutoApproveRound(r) PROVE CmAgrees
    <2> DEFINE b == [ballot[r] EXCEPT !.yes = ballot[r].quorum, !.result = "accepted"]
    <2>1. /\ ballot[r] \in Ballot /\ ballot[r].result = "pending"
          /\ ballot[r].yes < ballot[r].quorum
      BY <1>1, <1>8 DEF AutoApproveRound, BallotInv
    <2>2. /\ b \in Ballot /\ b.result = "accepted" /\ b.yes = ballot[r].quorum
          /\ b.quorum = ballot[r].quorum
      BY <2>1 DEF Ballot
    <2>3. b.yes > ballot[r].yes /\ b.yes >= b.quorum
      BY <2>1, <2>2 DEF Ballot
    <2>4. ballot' = [ballot EXCEPT ![r] = b]
      BY <1>1, <1>8, <2>1 DEF AutoApproveRound, BallotInv, Ballot
    <2> HIDE DEF b
    <2>5. BallotInv' /\ [Rounds!AgNext]_(Rounds!agVars)
      BY <1>1, <2>1, <2>2, <2>3, <2>4, CmMapped
    <2> QED
      BY <1>1, <1>8, <2>5, MembersKept DEF AutoApproveRound, CmAgrees, CmInv
  <1>9. ASSUME NEW r \in Round, NEW yes \in BOOLEAN, VoteRound(r, yes) PROVE CmAgrees
    <2> DEFINE v == IF yes THEN [ballot[r] EXCEPT !.yes = @ + 1] ELSE [ballot[r] EXCEPT !.no = @ + 1]
    <2>1. /\ ballot[r] \in Ballot /\ ballot[r].result = "pending"
          /\ ballot[r].yes < ballot[r].quorum /\ ballot[r].no < ballot[r].quorum
      BY <1>1, <1>9 DEF VoteRound, BallotInv
    <2>2. /\ v \in Ballot /\ v.result = "pending" /\ v.quorum = ballot[r].quorum
          /\ \/ v.yes = ballot[r].yes + 1 /\ v.no = ballot[r].no
             \/ v.yes = ballot[r].yes /\ v.no = ballot[r].no + 1
      BY <2>1 DEF Ballot
    <2>3. ballot' = [ballot EXCEPT ![r] = Counted(v)]
      BY <1>9 DEF VoteRound
    <2> HIDE DEF v
    <2>4. PICK b \in Ballot : b = Counted(v)
      BY <2>2 DEF Counted, Ballot
    <2>5. /\ b.yes = v.yes /\ b.no = v.no /\ b.quorum = v.quorum
          /\ b.result = IF v.yes >= v.quorum THEN "accepted"
                        ELSE IF v.no >= v.quorum THEN "rejected" ELSE "pending"
      BY <2>2, <2>4 DEF Counted, Ballot
    <2>6. /\ ballot[r].yes \in Nat /\ ballot[r].no \in Nat /\ ballot[r].quorum \in Nat
      BY <2>1 DEF Ballot
    <2>7. ballot' = [ballot EXCEPT ![r] = b]
      BY <2>3, <2>4
    <2>8. b.result # "new" /\ (b.result = "pending" => b.yes < b.quorum /\ b.no < b.quorum)
      BY <2>1, <2>2, <2>5, <2>6
    <2>9. \/ /\ b.quorum = ballot[r].quorum /\ b.yes > ballot[r].yes
             /\ b.result = IF b.yes >= b.quorum THEN "accepted" ELSE "pending"
          \/ /\ b.quorum = ballot[r].quorum /\ b.yes = ballot[r].yes
             /\ b.result \in {"pending", "rejected"}
      BY <2>1, <2>2, <2>5, <2>6
    <2>10. BallotInv' /\ [Rounds!AgNext]_(Rounds!agVars)
      BY <1>1, <2>1, <2>7, <2>8, <2>9, CmMapped
    <2> QED
      BY <1>1, <1>9, <2>10, MembersKept DEF VoteRound, CmAgrees, CmInv
  <1>10. CASE UNCHANGED cmVars
    BY <1>1, <1>10, CmStutters, MembersKept DEF cmVars, CmAgrees, CmInv
  <1> QED
    BY <1>2, <1>3, <1>4, <1>5, <1>6, <1>7, <1>8, <1>9, <1>10 DEF CmNext

-----------------------------------------------------------------------------
(* The composition *)

VotersInv == DeInv /\ CmInv

LEMMA VotersStep ==
    ASSUME [Next]_vars PROVE [DeNext]_deVars /\ [CmNext]_cmVars
  <1>1. CASE UNCHANGED vars
    BY <1>1 DEF vars
  <1>2. ASSUME NEW c, Step(c), c # "engine" PROVE UNCHANGED deVars
    BY <1>2 DEF Step, Rest
  <1>3. ASSUME NEW c, Step(c), c # "rounds" PROVE UNCHANGED cmVars
    BY <1>3 DEF Step, Rest
  <1> QED
    BY <1>1, <1>2, <1>3 DEF Next

LEMMA VotersInvNext ==
    VotersInv /\ [Next]_vars =>
        VotersInv' /\ [Vote_!AgNext]_(Vote_!agVars) /\ [Rounds!AgNext]_(Rounds!agVars)
  BY VotersStep, DeNextAgrees, CmNextAgrees DEF VotersInv, DeAgrees, CmAgrees

\* Both voters keep what Agreement promises: a question is accepted at the moment it has
\* its quorum and not otherwise, and no later vote, execution, election or membership change
\* turns an outcome (distributed_decision_engine.py, consensus_mesh.py).
THEOREM VotersImplementAgreement == Spec => VotesAgree
  <1>1. Init => VotersInv /\ Vote_!AgInit /\ Rounds!AgInit
    BY DeInvInit, CmInvInit, DeMappedInit, CmMappedInit DEF Init, VotersInv
  <1> QED
    BY <1>1, VotersInvNext, PTL
       DEF Spec, VotesAgree, EngineAgrees, RoundsAgree, Vote_!AgSpec, Rounds!AgSpec

\* A proposal has the status its votes gave it and finished ones are in no table, and at
\* most one member of the consensus mesh leads by an election, others only if they registered
\* as leader (DistributedDecisionEngine.vote, ConsensusMesh.register_node and elect_leader).
THEOREM DecisionsStayEarned == Spec => []DecisionsAreEarned
  <1>1. Init => VotersInv
    BY DeInvInit, CmInvInit DEF Init, VotersInv
  <1>2. VotersInv => DecisionsAreEarned
    BY DeEarned DEF VotersInv, CmInv, MembersInv, DecisionsAreEarned
  <1> QED
    BY <1>1, <1>2, VotersInvNext, PTL DEF Spec
=============================================================================
