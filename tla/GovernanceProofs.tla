-------------------------- MODULE GovernanceProofs --------------------------
(***************************************************************************)
(* Theorems about the three governance contracts, for any addresses,       *)
(* parameters and bounds: first GovernanceV2, then SyntheticGovernance and *)
(* Governance, whose names have the prefixes S! and G!.                    *)
(***************************************************************************)
EXTENDS MCGovernance, SumLemmas

USE GovernanceV2Assumption

-----------------------------------------------------------------------------
(* What single calls do to one proposal.                                    *)

LEMMA CountedType ==
  ASSUME NEW p \in GovernanceProposal, NEW support \in BOOLEAN
  PROVE  /\ Counted(p, support) \in GovernanceProposal
         /\ Counted(p, support).voting_deadline = p.voting_deadline
         /\ Counted(p, support).created_at = p.created_at
         /\ Counted(p, support).executed = p.executed
         /\ \/ /\ Counted(p, support).votes_for > p.votes_for
               /\ Counted(p, support).votes_against = p.votes_against
            \/ /\ Counted(p, support).votes_for = p.votes_for
               /\ Counted(p, support).votes_against > p.votes_against
BY DEF Counted, GovernanceProposal

(* A proposal that was just created.                                        *)
LEMMA NewProposal ==
  ASSUME TypeOK, NEW a \in Addresses, create_proposal(a)
  PROVE  /\ next_proposal_id \in 1 .. MaxProposals
         /\ next_proposal_id' = next_proposal_id + 1
         /\ DOMAIN proposals = 1 .. next_proposal_id - 1
         /\ DOMAIN proposals' = 1 .. next_proposal_id
         /\ proposals' \in [1 .. next_proposal_id -> GovernanceProposal]
         /\ \A id \in 1 .. next_proposal_id - 1 : proposals'[id] = proposals[id]
         /\ proposals'[next_proposal_id].votes_for = 0
         /\ proposals'[next_proposal_id].votes_against = 0
         /\ proposals'[next_proposal_id].executed = FALSE
         /\ proposals'[next_proposal_id].created_at = now
         /\ proposals'[next_proposal_id].voting_deadline = now + params.voting_period
<1> DEFINE new == [proposer |-> a, created_at |-> now,
                   voting_deadline |-> now + params.voting_period,
                   votes_for |-> 0, votes_against |-> 0, executed |-> FALSE]
<1>1. /\ next_proposal_id \in 1 .. MaxProposals
      /\ next_proposal_id' = next_proposal_id + 1
      /\ proposals' = Put(proposals, next_proposal_id, new)
  BY DEF create_proposal, TypeOK
<1>2. DOMAIN proposals = 1 .. next_proposal_id - 1
  BY DEF TypeOK
<1>3. DOMAIN proposals \cup {next_proposal_id} = 1 .. next_proposal_id
  BY <1>1, <1>2
<1>4. new \in GovernanceProposal
  BY DEF TypeOK, GovernanceParams, GovernanceProposal
<1>5. proposals' = [x \in 1 .. next_proposal_id |->
                     IF x = next_proposal_id THEN new ELSE proposals[x]]
  BY <1>1, <1>3 DEF Put
<1>6. \A x \in 1 .. next_proposal_id : x # next_proposal_id => x \in 1 .. next_proposal_id - 1
  BY <1>1
<1>7. proposals' \in [1 .. next_proposal_id -> GovernanceProposal]
  <2> HIDE DEF new
  <2> QED BY <1>4, <1>5, <1>6 DEF TypeOK
<1>8. next_proposal_id \in 1 .. next_proposal_id
  BY <1>1
<1>9. proposals'[next_proposal_id] = new
  <2> HIDE DEF new
  <2> QED BY <1>5, <1>8
<1>10. \A id \in 1 .. next_proposal_id - 1 : id \in 1 .. next_proposal_id /\ id # next_proposal_id
  BY <1>1
<1>11. \A id \in 1 .. next_proposal_id - 1 : proposals'[id] = proposals[id]
  <2> HIDE DEF new
  <2> QED BY <1>5, <1>10
<1>12. /\ new.votes_for = 0 /\ new.votes_against = 0 /\ new.executed = FALSE
       /\ new.created_at = now /\ new.voting_deadline = now + params.voting_period
  OBVIOUS
<1>13. DOMAIN proposals' = 1 .. next_proposal_id
  <2> HIDE DEF new
  <2> QED BY <1>5
<1> QED
  <2> HIDE DEF new
  <2> QED BY <1>1, <1>2, <1>7, <1>9, <1>11, <1>12, <1>13

-----------------------------------------------------------------------------

(* The types of GovernanceV2 are right.                                     *)
LEMMA TypeStep == TypeOK /\ [Next]_vars => TypeOK'
<1> SUFFICES ASSUME TypeOK, [Next]_vars PROVE TypeOK' OBVIOUS
<1>1. ASSUME NEW a \in Addresses, create_proposal(a) PROVE TypeOK'
  <2>1. /\ next_proposal_id \in 1 .. MaxProposals
        /\ next_proposal_id' = next_proposal_id + 1
        /\ proposals' \in [1 .. next_proposal_id -> GovernanceProposal]
    BY <1>1, NewProposal
  <2>2. /\ next_proposal_id' - 1 = next_proposal_id
        /\ next_proposal_id' \in 1 .. MaxProposals + 1
    BY <2>1
  <2>3. voted \subseteq Addresses \X (1 .. next_proposal_id)
    BY <2>1 DEF TypeOK
  <2>4. UNCHANGED <<now, paused, params, voted, delegations>>
    BY <1>1 DEF create_proposal
  <2> QED BY <2>1, <2>2, <2>3, <2>4 DEF TypeOK
<1>2. ASSUME NEW a \in Addresses, NEW id \in Ids, NEW support \in BOOLEAN, vote(a, id, support)
      PROVE TypeOK'
  <2>1. id \in 1 .. next_proposal_id - 1 /\ proposals[id] \in GovernanceProposal
    BY <1>2 DEF vote, TypeOK
  <2>2. Counted(proposals[id], support) \in GovernanceProposal
    BY <2>1, CountedType
  <2>3. proposals' \in [1 .. next_proposal_id - 1 -> GovernanceProposal]
    BY <1>2, <2>1, <2>2 DEF vote, TypeOK
  <2>4. voted' \subseteq Addresses \X (1 .. next_proposal_id - 1)
    BY <1>2, <2>1 DEF vote, TypeOK
  <2> QED BY <1>2, <2>3, <2>4 DEF vote, TypeOK
<1>3. ASSUME NEW id \in Ids, execute_proposal(id) PROVE TypeOK'
  <2>1. [proposals[id] EXCEPT !.executed = TRUE] \in GovernanceProposal
    BY <1>3 DEF execute_proposal, TypeOK, GovernanceProposal
  <2>2. proposals' \in [1 .. next_proposal_id - 1 -> GovernanceProposal]
    BY <1>3, <2>1 DEF execute_proposal, TypeOK
  <2> QED BY <1>3, <2>2 DEF execute_proposal, TypeOK
<1>4. ASSUME NEW a \in Addresses, NEW b \in Addresses, delegate(a, b) PROVE TypeOK'
  BY <1>4 DEF delegate, TypeOK, IsMap, Put
<1>5. ASSUME NEW p \in Params, update_params(p) PROVE TypeOK'
  BY <1>5 DEF update_params, TypeOK
<1>6. ASSUME NEW on \in BOOLEAN, SetPaused(on) PROVE TypeOK'
  BY <1>6 DEF SetPaused, TypeOK
<1>7. CASE VoteEntryExpires
  BY <1>7 DEF VoteEntryExpires, TypeOK
<1>8. CASE Tick
  BY <1>8 DEF Tick, TypeOK
<1>9. CASE UNCHANGED vars
  BY <1>9 DEF vars, TypeOK
<1> QED BY <1>1, <1>2, <1>3, <1>4, <1>5, <1>6, <1>7, <1>8, <1>9 DEF Next

LEMMA TypeInit == initialize => TypeOK
<1> SUFFICES ASSUME initialize PROVE TypeOK OBVIOUS
<1>1. EmptyMap \in [1 .. 0 -> GovernanceProposal]
  BY DEF EmptyMap
<1>2. IsMap(EmptyMap, Addresses, Addresses)
  BY DEF EmptyMap, IsMap
<1>3. params \in GovernanceParams
  BY DEF initialize, GovernanceParams
<1>4. next_proposal_id - 1 = 0 /\ next_proposal_id \in 1 .. MaxProposals + 1 /\ now \in 0 .. MaxTime
  BY DEF initialize
<1>5. proposals = EmptyMap /\ delegations = EmptyMap /\ voted = {} /\ paused = FALSE
  BY DEF initialize
<1> QED BY <1>1, <1>2, <1>3, <1>4, <1>5 DEF TypeOK

(* TypeOK holds in every reachable state.                                   *)
THEOREM GovernanceTypeCorrect == Spec => []TypeOK
BY TypeInit, TypeStep, PTL DEF Spec

-----------------------------------------------------------------------------
(* The refinement of Ballot.                                                *)

(* A step that changes proposal id only shows in Ballot at id only.         *)
LEMMA OneChange ==
  ASSUME NEW id \in Ids,
         \A i \in Ids \ {id} :
           /\ i \in DOMAIN proposals' <=> i \in DOMAIN proposals
           /\ i \in DOMAIN proposals => proposals'[i] = proposals[i]
  PROVE  /\ Phases' = [Phases EXCEPT ![id] = PhaseOf(id)']
         /\ VotesFor' = [VotesFor EXCEPT ![id] = VotesFor'[id]]
         /\ VotesAgainst' = [VotesAgainst EXCEPT ![id] = VotesAgainst'[id]]
<1>1. \A i \in Ids \ {id} : PhaseOf(i)' = PhaseOf(i)
  BY DEF PhaseOf
<1>2. Phases' = [Phases EXCEPT ![id] = PhaseOf(id)']
  BY <1>1 DEF Phases
<1>3. VotesFor' = [VotesFor EXCEPT ![id] = VotesFor'[id]]
  BY DEF VotesFor
<1>4. VotesAgainst' = [VotesAgainst EXCEPT ![id] = VotesAgainst'[id]]
  BY DEF VotesAgainst
<1> QED BY <1>2, <1>3, <1>4

LEMMA RefinementInit == initialize => Promise!BallotInit
BY DEF initialize, EmptyMap, PhaseOf, Phases, VotesFor, VotesAgainst, Promise!BallotInit

(* A proposal opens.                                                        *)
LEMMA CreateOpens ==
  ASSUME TypeOK, NEW a \in Addresses, create_proposal(a)
  PROVE  Promise!Open(next_proposal_id)
<1> SUFFICES ASSUME NEW CONSTANT id, id = next_proposal_id
             PROVE  Promise!Open(id)
  OBVIOUS
<1>1. /\ id \in 1 .. MaxProposals
      /\ DOMAIN proposals = 1 .. id - 1 /\ DOMAIN proposals' = 1 .. id
      /\ \A i \in 1 .. id - 1 : proposals'[i] = proposals[i]
  BY NewProposal
<1>2. proposals'[id].votes_for = 0 /\ proposals'[id].votes_against = 0 /\ proposals'[id].executed = FALSE
  BY NewProposal
<1>3. id \in Ids /\ id \notin DOMAIN proposals /\ id \in DOMAIN proposals'
  BY <1>1 DEF Ids
<1>4. \A i \in Ids \ {id} :
        /\ i \in DOMAIN proposals' <=> i \in DOMAIN proposals
        /\ i \in DOMAIN proposals => proposals'[i] = proposals[i]
  BY <1>1 DEF Ids
<1>5. /\ Phases' = [Phases EXCEPT ![id] = PhaseOf(id)']
      /\ VotesFor' = [VotesFor EXCEPT ![id] = VotesFor'[id]]
      /\ VotesAgainst' = [VotesAgainst EXCEPT ![id] = VotesAgainst'[id]]
  BY <1>3, <1>4, OneChange
<1>6. Phases[id] = "none" /\ PhaseOf(id)' = "open"
  BY <1>3, <1>2 DEF Phases, PhaseOf
<1>7. VotesFor'[id] = VotesFor[id] /\ VotesAgainst'[id] = VotesAgainst[id]
  BY <1>3, <1>2 DEF VotesFor, VotesAgainst
<1>8. VotesFor' = VotesFor /\ VotesAgainst' = VotesAgainst
  BY <1>3, <1>5, <1>7 DEF VotesFor, VotesAgainst
<1> QED BY <1>5, <1>6, <1>8 DEF Promise!Open

(* A vote is cast on an open proposal.                                      *)
LEMMA VoteCasts ==
  ASSUME TypeOK, NEW a \in Addresses, NEW id \in Ids, NEW support \in BOOLEAN,
         vote(a, id, support)
  PROVE  Promise!Cast(id)
<1>1. /\ id \in DOMAIN proposals /\ proposals[id] \in GovernanceProposal
      /\ ~proposals[id].executed
      /\ DOMAIN proposals' = DOMAIN proposals
      /\ proposals'[id] = Counted(proposals[id], support)
      /\ \A i \in Ids \ {id} : i \in DOMAIN proposals => proposals'[i] = proposals[i]
  BY DEF vote, TypeOK
<1>2. /\ Phases' = [Phases EXCEPT ![id] = PhaseOf(id)']
      /\ VotesFor' = [VotesFor EXCEPT ![id] = VotesFor'[id]]
      /\ VotesAgainst' = [VotesAgainst EXCEPT ![id] = VotesAgainst'[id]]
  BY <1>1, OneChange
<1>3. /\ proposals'[id].executed = proposals[id].executed
      /\ \/ /\ proposals'[id].votes_for > proposals[id].votes_for
            /\ proposals'[id].votes_against = proposals[id].votes_against
         \/ /\ proposals'[id].votes_for = proposals[id].votes_for
            /\ proposals'[id].votes_against > proposals[id].votes_against
  BY <1>1, CountedType
<1>4. Phases[id] = "open" /\ PhaseOf(id)' = "open"
  BY <1>1, <1>3 DEF Phases, PhaseOf
<1>5. Phases' = Phases
  BY <1>2, <1>4 DEF Phases
<1>6. /\ VotesFor[id] = proposals[id].votes_for
      /\ VotesFor'[id] = proposals'[id].votes_for
      /\ VotesAgainst[id] = proposals[id].votes_against
      /\ VotesAgainst'[id] = proposals'[id].votes_against
  BY <1>1 DEF VotesFor, VotesAgainst
<1>7. CASE /\ proposals'[id].votes_for > proposals[id].votes_for
           /\ proposals'[id].votes_against = proposals[id].votes_against
  <2>1. VotesAgainst' = VotesAgainst
    BY <1>2, <1>6, <1>7 DEF VotesAgainst
  <2> QED BY <1>2, <1>4, <1>5, <1>6, <1>7, <2>1 DEF Promise!Cast, Promise!Grows
<1>8. CASE /\ proposals'[id].votes_for = proposals[id].votes_for
           /\ proposals'[id].votes_against > proposals[id].votes_against
  <2>1. VotesFor' = VotesFor
    BY <1>2, <1>6, <1>8 DEF VotesFor
  <2> QED BY <1>2, <1>4, <1>5, <1>6, <1>8, <2>1 DEF Promise!Cast, Promise!Grows
<1> QED BY <1>3, <1>7, <1>8

(* An open proposal with a majority is executed.                            *)
LEMMA ExecutionExecutes ==
  ASSUME TypeOK, NEW id \in Ids, execute_proposal(id)
  PROVE  Promise!Execute(id)
<1>1. /\ id \in DOMAIN proposals /\ proposals[id] \in GovernanceProposal
      /\ ~proposals[id].executed
      /\ proposals[id].votes_for > proposals[id].votes_against
      /\ DOMAIN proposals' = DOMAIN proposals
      /\ proposals'[id] = [proposals[id] EXCEPT !.executed = TRUE]
      /\ \A i \in Ids \ {id} : i \in DOMAIN proposals => proposals'[i] = proposals[i]
  BY DEF execute_proposal, Passed, TypeOK
<1>2. /\ Phases' = [Phases EXCEPT ![id] = PhaseOf(id)']
      /\ VotesFor' = [VotesFor EXCEPT ![id] = VotesFor'[id]]
      /\ VotesAgainst' = [VotesAgainst EXCEPT ![id] = VotesAgainst'[id]]
  BY <1>1, OneChange
<1>3. /\ proposals'[id].executed
      /\ proposals'[id].votes_for = proposals[id].votes_for
      /\ proposals'[id].votes_against = proposals[id].votes_against
  BY <1>1 DEF GovernanceProposal
<1>4. Phases[id] = "open" /\ PhaseOf(id)' = "executed" /\ VotesFor[id] > VotesAgainst[id]
  BY <1>1, <1>3 DEF Phases, PhaseOf, VotesFor, VotesAgainst
<1>5. VotesFor'[id] = VotesFor[id] /\ VotesAgainst'[id] = VotesAgainst[id]
  BY <1>1, <1>3 DEF VotesFor, VotesAgainst
<1>6. VotesFor' = VotesFor /\ VotesAgainst' = VotesAgainst
  BY <1>2, <1>5 DEF VotesFor, VotesAgainst
<1> QED BY <1>2, <1>4, <1>6 DEF Promise!Execute

LEMMA RefinementStep ==
  TypeOK /\ [Next]_vars => [Promise!BallotNext]_(Promise!ballotVars)
<1> SUFFICES ASSUME TypeOK, [Next]_vars
             PROVE  [Promise!BallotNext]_(Promise!ballotVars)
  OBVIOUS
<1>1. ASSUME NEW a \in Addresses, create_proposal(a) PROVE Promise!BallotNext
  <2>1. next_proposal_id \in Ids
    BY <1>1, NewProposal DEF Ids
  <2> QED BY <1>1, <2>1, CreateOpens DEF Promise!BallotNext
<1>2. ASSUME NEW a \in Addresses, NEW id \in Ids, NEW support \in BOOLEAN, vote(a, id, support)
      PROVE  Promise!BallotNext
  BY <1>2, VoteCasts DEF Promise!BallotNext
<1>3. ASSUME NEW id \in Ids, execute_proposal(id) PROVE Promise!BallotNext
  BY <1>3, ExecutionExecutes DEF Promise!BallotNext
<1>4. ASSUME UNCHANGED proposals PROVE UNCHANGED Promise!ballotVars
  BY <1>4 DEF Phases, PhaseOf, VotesFor, VotesAgainst, Promise!ballotVars
<1>5. \/ \E a \in Addresses : create_proposal(a)
      \/ \E a \in Addresses, id \in Ids, support \in BOOLEAN : vote(a, id, support)
      \/ \E id \in Ids : execute_proposal(id)
      \/ UNCHANGED proposals
  BY DEF Next, vars, delegate, update_params, SetPaused, VoteEntryExpires, Tick
<1> QED BY <1>1, <1>2, <1>3, <1>4, <1>5

(* GovernanceV2 keeps what Ballot promises of proposals, whatever parameters*)
(* are set and however often votes expire.                                  *)
THEOREM GovernanceImplementsBallot == Spec => ImplementsBallot
<1>1. Spec => []TypeOK
  BY GovernanceTypeCorrect
<1> QED BY <1>1, RefinementInit, RefinementStep, PTL
        DEF Spec, ImplementsBallot, Promise!BallotSpec

-----------------------------------------------------------------------------
(* The times of proposals.                                                  *)

PeriodInRange == params.voting_period \in MIN_VOTING_PERIOD .. MAX_VOTING_PERIOD

(* A step leaves every old proposal's times alone, and its execution too    *)
(* unless it executes it after its deadline.                                *)
LEMMA TimesStay ==
  ASSUME TypeOK, [Next]_vars, NEW id \in DOMAIN proposals
  PROVE  /\ now' >= now
         /\ id \in DOMAIN proposals'
         /\ proposals'[id].voting_deadline = proposals[id].voting_deadline
         /\ proposals'[id].created_at = proposals[id].created_at
         /\ \/ proposals'[id].executed = proposals[id].executed
            \/ now > proposals[id].voting_deadline
<1>1. proposals[id] \in GovernanceProposal /\ now \in Nat
  BY DEF TypeOK
<1>2. ASSUME NEW a \in Addresses, create_proposal(a)
      PROVE  now' = now /\ id \in DOMAIN proposals' /\ proposals'[id] = proposals[id]
  <2>1. /\ next_proposal_id \in 1 .. MaxProposals
        /\ DOMAIN proposals = 1 .. next_proposal_id - 1 /\ DOMAIN proposals' = 1 .. next_proposal_id
        /\ \A i \in 1 .. next_proposal_id - 1 : proposals'[i] = proposals[i]
    BY <1>2, NewProposal
  <2>2. now' = now
    BY <1>2 DEF create_proposal
  <2> QED BY <2>1, <2>2
<1>3. ASSUME NEW a \in Addresses, NEW i \in Ids, NEW support \in BOOLEAN, vote(a, i, support)
      PROVE  /\ now' = now /\ id \in DOMAIN proposals'
             /\ proposals'[id].voting_deadline = proposals[id].voting_deadline
             /\ proposals'[id].created_at = proposals[id].created_at
             /\ proposals'[id].executed = proposals[id].executed
  <2>1. /\ now' = now /\ DOMAIN proposals' = DOMAIN proposals
        /\ proposals'[id] = IF id = i THEN Counted(proposals[id], support) ELSE proposals[id]
    BY <1>3 DEF vote, TypeOK
  <2> QED BY <1>1, <2>1, CountedType
<1>4. ASSUME NEW i \in Ids, execute_proposal(i)
      PROVE  /\ now' = now /\ id \in DOMAIN proposals'
             /\ proposals'[id].voting_deadline = proposals[id].voting_deadline
             /\ proposals'[id].created_at = proposals[id].created_at
             /\ \/ proposals'[id].executed = proposals[id].executed
                \/ now > proposals[id].voting_deadline
  <2>1. /\ now' = now /\ DOMAIN proposals' = DOMAIN proposals
        /\ proposals'[id] = IF id = i THEN [proposals[id] EXCEPT !.executed = TRUE] ELSE proposals[id]
        /\ id = i => now > proposals[id].voting_deadline
    BY <1>4 DEF execute_proposal, Executable, TypeOK
  <2> QED BY <1>1, <2>1 DEF GovernanceProposal
<1>5. CASE UNCHANGED proposals /\ (Tick \/ UNCHANGED now)
  BY <1>1, <1>5 DEF Tick
<1>6. \/ \E a \in Addresses : create_proposal(a)
      \/ \E a \in Addresses, i \in Ids, support \in BOOLEAN : vote(a, i, support)
      \/ \E i \in Ids : execute_proposal(i)
      \/ UNCHANGED proposals /\ (Tick \/ UNCHANGED now)
  BY DEF Next, vars, delegate, update_params, SetPaused, VoteEntryExpires, Tick
<1> QED BY <1>1, <1>2, <1>3, <1>4, <1>5, <1>6

(* A proposal of this step, or one from before.                             *)
LEMMA NewOrOld ==
  ASSUME TypeOK, [Next]_vars, NEW id \in DOMAIN proposals', id \notin DOMAIN proposals
  PROVE  /\ proposals'[id].executed = FALSE
         /\ proposals'[id].created_at = now
         /\ proposals'[id].voting_deadline = now + params.voting_period
<1>1. ASSUME NEW a \in Addresses, create_proposal(a)
      PROVE  /\ proposals'[id].executed = FALSE
             /\ proposals'[id].created_at = now
             /\ proposals'[id].voting_deadline = now + params.voting_period
  <2>1. /\ next_proposal_id \in 1 .. MaxProposals
        /\ DOMAIN proposals = 1 .. next_proposal_id - 1 /\ DOMAIN proposals' = 1 .. next_proposal_id
    BY <1>1, NewProposal
  <2>2. id = next_proposal_id
    BY <2>1
  <2> QED BY <1>1, <2>2, NewProposal
<1>2. (\E a \in Addresses : create_proposal(a)) \/ DOMAIN proposals' = DOMAIN proposals
  BY DEF Next, vars, vote, execute_proposal, delegate, update_params, SetPaused,
         VoteEntryExpires, Tick, TypeOK
<1> QED BY <1>1, <1>2

LEMMA PeriodStep == PeriodInRange /\ [Next]_vars => PeriodInRange'
BY DEF PeriodInRange, Next, vars, create_proposal, vote, execute_proposal, delegate,
       update_params, SetPaused, VoteEntryExpires, Tick

LEMMA VotingTimesStep ==
  TypeOK /\ PeriodInRange /\ VotingTimesInRange /\ [Next]_vars => VotingTimesInRange'
<1> SUFFICES ASSUME TypeOK, PeriodInRange, VotingTimesInRange, [Next]_vars,
                    NEW id \in DOMAIN proposals'
             PROVE  proposals'[id].voting_deadline - proposals'[id].created_at
                      \in MIN_VOTING_PERIOD .. MAX_VOTING_PERIOD
  BY DEF VotingTimesInRange
<1>1. CASE id \in DOMAIN proposals
  BY <1>1, TimesStay DEF VotingTimesInRange
<1>2. CASE id \notin DOMAIN proposals
  <2>1. /\ proposals'[id].created_at = now
        /\ proposals'[id].voting_deadline = now + params.voting_period
    BY <1>2, NewOrOld
  <2>2. now \in Nat /\ params.voting_period \in Nat
    BY DEF TypeOK, GovernanceParams
  <2>3. proposals'[id].voting_deadline - proposals'[id].created_at = params.voting_period
    BY <2>1, <2>2
  <2> QED BY <2>3 DEF PeriodInRange
<1> QED BY <1>1, <1>2

(* Whatever parameters are set while proposals are open, each is voted on   *)
(* for a time the contract allows.                                          *)
THEOREM GovernanceVotingTimes == Spec => []VotingTimesInRange
<1>1. initialize => PeriodInRange /\ VotingTimesInRange
  BY DEF initialize, PeriodInRange, VotingTimesInRange, EmptyMap
<1> QED BY <1>1, GovernanceTypeCorrect, PeriodStep, VotingTimesStep, PTL DEF Spec

LEMMA ExecutedAfterStep ==
  TypeOK /\ ExecutedAfterVoting /\ [Next]_vars => ExecutedAfterVoting'
<1> SUFFICES ASSUME TypeOK, ExecutedAfterVoting, [Next]_vars,
                    NEW id \in DOMAIN proposals', proposals'[id].executed
             PROVE  now' > proposals'[id].voting_deadline
  BY DEF ExecutedAfterVoting
<1>1. id \in DOMAIN proposals
  BY NewOrOld
<1>2. now > proposals[id].voting_deadline
  BY <1>1, TimesStay DEF ExecutedAfterVoting
<1>3. now \in Nat /\ now' \in Nat /\ proposals[id].voting_deadline \in Nat
  BY <1>1, TypeStep DEF TypeOK, GovernanceProposal
<1>4. now' >= now /\ proposals'[id].voting_deadline = proposals[id].voting_deadline
  BY <1>1, TimesStay
<1> QED BY <1>2, <1>3, <1>4

(* No proposal takes effect while it can still be voted on.                 *)
THEOREM GovernanceExecutesAfterVoting == Spec => []ExecutedAfterVoting
<1>1. initialize => ExecutedAfterVoting
  BY DEF initialize, ExecutedAfterVoting, EmptyMap
<1> QED BY <1>1, GovernanceTypeCorrect, ExecutedAfterStep, PTL DEF Spec

(* Whatever is set while a proposal is open, its voting time is one the      *)
(* contract allows, and it does not take effect before that time is over.    *)
THEOREM GovernanceTimesAreKept == Spec => []TimesAreKept
<1>1. VotingTimesInRange /\ ExecutedAfterVoting => TimesAreKept
  BY DEF TimesAreKept
<1> QED BY <1>1, GovernanceVotingTimes, GovernanceExecutesAfterVoting, PTL

(* While governance is paused nothing is proposed, voted, delegated or      *)
(* executed.                                                                *)
THEOREM GovernancePauseFreezes == Spec => PauseFreezes
<1>1. [Next]_vars => [paused => UNCHANGED <<proposals, delegations, next_proposal_id>>]_vars
  BY DEF Next, vars, require_not_paused, create_proposal, vote, execute_proposal, delegate,
         update_params, SetPaused, VoteEntryExpires, Tick
<1> QED BY <1>1, PTL DEF Spec, PauseFreezes

-----------------------------------------------------------------------------
(* SyntheticGovernance.                                                     *)

USE SAssumption DEF S!SyntheticGovernanceAssumption

LEMMA SyntheticCounted ==
  ASSUME NEW p \in S!AssetProposal, NEW support \in BOOLEAN
  PROVE  /\ S!Counted(p, support) \in S!AssetProposal
         /\ S!Counted(p, support).voting_deadline = p.voting_deadline
         /\ S!Counted(p, support).executed = p.executed
         /\ \/ /\ S!Counted(p, support).votes_for > p.votes_for
               /\ S!Counted(p, support).votes_against = p.votes_against
            \/ /\ S!Counted(p, support).votes_for = p.votes_for
               /\ S!Counted(p, support).votes_against > p.votes_against
BY DEF S!Counted, S!AssetProposal

(* A proposal that was just created, by a proposer or as an emergency.       *)
LEMMA SyntheticNew ==
  ASSUME S!TypeOK, NEW a \in s_Addresses, NEW emergency \in BOOLEAN, NEW period \in Nat,
         S!AddProposal(a, emergency, period)
  PROVE  /\ s_next_proposal_id \in 1 .. MaxProposals
         /\ s_next_proposal_id' = s_next_proposal_id + 1
         /\ DOMAIN s_proposals = 1 .. s_next_proposal_id - 1
         /\ DOMAIN s_proposals' = 1 .. s_next_proposal_id
         /\ s_proposals' \in [1 .. s_next_proposal_id -> S!AssetProposal]
         /\ \A id \in 1 .. s_next_proposal_id - 1 : s_proposals'[id] = s_proposals[id]
         /\ s_proposals'[s_next_proposal_id].votes_for = 0
         /\ s_proposals'[s_next_proposal_id].votes_against = 0
         /\ s_proposals'[s_next_proposal_id].executed = FALSE
         /\ s_proposals'[s_next_proposal_id].emergency = emergency
<1> DEFINE new == [proposer |-> a, emergency |-> emergency, created_at |-> s_now,
                   voting_deadline |-> s_now + period,
                   votes_for |-> 0, votes_against |-> 0, executed |-> FALSE]
<1>1. /\ s_next_proposal_id \in 1 .. MaxProposals
      /\ s_next_proposal_id' = s_next_proposal_id + 1
      /\ s_proposals' = S!Put(s_proposals, s_next_proposal_id, new)
  BY DEF S!AddProposal, S!TypeOK
<1>2. DOMAIN s_proposals = 1 .. s_next_proposal_id - 1
  BY DEF S!TypeOK
<1>3. DOMAIN s_proposals \cup {s_next_proposal_id} = 1 .. s_next_proposal_id
  BY <1>1, <1>2
<1>4. new \in S!AssetProposal
  BY DEF S!TypeOK, S!AssetProposal
<1>5. s_proposals' = [x \in 1 .. s_next_proposal_id |->
                       IF x = s_next_proposal_id THEN new ELSE s_proposals[x]]
  BY <1>1, <1>3 DEF S!Put
<1>6. \A x \in 1 .. s_next_proposal_id : x # s_next_proposal_id => x \in 1 .. s_next_proposal_id - 1
  BY <1>1
<1>7. s_proposals' \in [1 .. s_next_proposal_id -> S!AssetProposal]
  <2> HIDE DEF new
  <2> QED BY <1>4, <1>5, <1>6 DEF S!TypeOK
<1>8. s_next_proposal_id \in 1 .. s_next_proposal_id
  BY <1>1
<1>9. s_proposals'[s_next_proposal_id] = new
  <2> HIDE DEF new
  <2> QED BY <1>5, <1>8
<1>10. \A id \in 1 .. s_next_proposal_id - 1 : id \in 1 .. s_next_proposal_id /\ id # s_next_proposal_id
  BY <1>1
<1>11. \A id \in 1 .. s_next_proposal_id - 1 : s_proposals'[id] = s_proposals[id]
  <2> HIDE DEF new
  <2> QED BY <1>5, <1>10
<1>12. new.votes_for = 0 /\ new.votes_against = 0 /\ new.executed = FALSE /\ new.emergency = emergency
  OBVIOUS
<1>13. DOMAIN s_proposals' = 1 .. s_next_proposal_id
  <2> HIDE DEF new
  <2> QED BY <1>5
<1> QED
  <2> HIDE DEF new
  <2> QED BY <1>1, <1>2, <1>7, <1>9, <1>11, <1>12, <1>13

(* Every proposal of a step is created as above: the administrator's with    *)
(* the emergency mark, the others while the contract is not paused.          *)
Created(emergency) ==
  \E a \in s_Addresses, period \in Nat :
    /\ S!AddProposal(a, emergency, period)
    /\ UNCHANGED <<s_now, s_paused, gov_params, s_delegations>>

(* A step creates a proposal, counts a vote, executes, or leaves proposals   *)
(* alone; all but the administrator's need the contract not to be paused.    *)
LEMMA SyntheticSteps ==
  ASSUME S!TypeOK, [S!Next]_(S!vars)
  PROVE  \/ ~s_paused /\ Created(FALSE)
         \/ Created(TRUE)
         \/ \E a \in s_Addresses, id \in S!Ids, support \in BOOLEAN : S!vote(a, id, support)
         \/ \E id \in S!Ids : S!execute_proposal(id)
         \/ UNCHANGED s_proposals /\ UNCHANGED s_next_proposal_id /\ (S!Tick \/ UNCHANGED s_now)
<1>1. ASSUME NEW a \in s_Addresses, S!create_proposal(a) PROVE ~s_paused /\ Created(FALSE)
  <2>1. gov_params.voting_period \in Nat
    BY DEF S!TypeOK, S!GovernanceParams
  <2> QED BY <1>1, <2>1 DEF S!create_proposal, S!require_not_paused, S!AddProposal, Created
<1>2. ASSUME S!emergency_pause PROVE Created(TRUE)
  BY <1>2 DEF S!emergency_pause, S!AddProposal, Created
<1>3. ASSUME \/ \E a, b \in s_Addresses : S!delegate(a, b)
             \/ \E p \in s_Params : S!update_governance_params(p)
             \/ \E on \in BOOLEAN : S!SetPaused(on)
             \/ S!Tick
             \/ UNCHANGED S!vars
      PROVE  UNCHANGED s_proposals /\ UNCHANGED s_next_proposal_id /\ (S!Tick \/ UNCHANGED s_now)
  BY <1>3 DEF S!delegate, S!update_governance_params, S!SetPaused, S!Tick, S!vars
<1> QED BY <1>1, <1>2, <1>3 DEF S!Next

(* The types of SyntheticGovernance are right.                              *)
LEMMA SyntheticTypeStep == S!TypeOK /\ [S!Next]_(S!vars) => S!TypeOK'
<1> SUFFICES ASSUME S!TypeOK, [S!Next]_(S!vars) PROVE S!TypeOK' OBVIOUS
<1>1. ASSUME NEW emergency \in BOOLEAN, Created(emergency) PROVE S!TypeOK'
  <2>1. PICK a \in s_Addresses, period \in Nat : S!AddProposal(a, emergency, period)
    BY <1>1 DEF Created
  <2>2. /\ s_next_proposal_id \in 1 .. MaxProposals
        /\ s_next_proposal_id' = s_next_proposal_id + 1
        /\ s_proposals' \in [1 .. s_next_proposal_id -> S!AssetProposal]
    BY <2>1, SyntheticNew
  <2>3. /\ s_next_proposal_id' - 1 = s_next_proposal_id
        /\ s_next_proposal_id' \in 1 .. MaxProposals + 1
    BY <2>2
  <2> QED BY <1>1, <2>2, <2>3 DEF S!TypeOK, Created
<1>2. ASSUME NEW a \in s_Addresses, NEW id \in S!Ids, NEW support \in BOOLEAN, S!vote(a, id, support)
      PROVE S!TypeOK'
  <2>1. id \in 1 .. s_next_proposal_id - 1 /\ s_proposals[id] \in S!AssetProposal
    BY <1>2 DEF S!vote, S!TypeOK
  <2>2. S!Counted(s_proposals[id], support) \in S!AssetProposal
    BY <2>1, SyntheticCounted
  <2>3. s_proposals' \in [1 .. s_next_proposal_id - 1 -> S!AssetProposal]
    BY <1>2, <2>1, <2>2 DEF S!vote, S!TypeOK
  <2> QED BY <1>2, <2>3 DEF S!vote, S!TypeOK
<1>3. ASSUME NEW id \in S!Ids, S!execute_proposal(id) PROVE S!TypeOK'
  <2>1. [s_proposals[id] EXCEPT !.executed = TRUE] \in S!AssetProposal
    BY <1>3 DEF S!execute_proposal, S!TypeOK, S!AssetProposal
  <2>2. s_proposals' \in [1 .. s_next_proposal_id - 1 -> S!AssetProposal]
    BY <1>3, <2>1 DEF S!execute_proposal, S!TypeOK
  <2> QED BY <1>3, <2>2 DEF S!execute_proposal, S!TypeOK
<1>4. ASSUME NEW a \in s_Addresses, NEW b \in s_Addresses, S!delegate(a, b) PROVE S!TypeOK'
  BY <1>4 DEF S!delegate, S!TypeOK, S!IsMap, S!Put
<1>5. ASSUME NEW p \in s_Params, S!update_governance_params(p) PROVE S!TypeOK'
  BY <1>5 DEF S!update_governance_params, S!TypeOK
<1>6. ASSUME NEW on \in BOOLEAN, S!SetPaused(on) PROVE S!TypeOK'
  BY <1>6 DEF S!SetPaused, S!TypeOK
<1>7. CASE S!Tick
  BY <1>7 DEF S!Tick, S!TypeOK
<1>8. CASE UNCHANGED S!vars
  BY <1>8 DEF S!vars, S!TypeOK
<1>9. (\E a \in s_Addresses : S!create_proposal(a)) \/ S!emergency_pause
        => \E emergency \in BOOLEAN : Created(emergency)
  <2>1. gov_params.voting_period \in Nat
    BY DEF S!TypeOK, S!GovernanceParams
  <2> QED BY <2>1 DEF S!create_proposal, S!emergency_pause, S!AddProposal, Created
<1> QED BY <1>1, <1>2, <1>3, <1>4, <1>5, <1>6, <1>7, <1>8, <1>9 DEF S!Next

LEMMA SyntheticInit == S!initialize => S!Consistent
<1> SUFFICES ASSUME S!initialize PROVE S!Consistent OBVIOUS
<1>1. S!EmptyMap \in [1 .. 0 -> S!AssetProposal] /\ DOMAIN S!EmptyMap = {}
  BY DEF S!EmptyMap
<1>2. S!IsMap(S!EmptyMap, s_Addresses, s_Addresses)
  BY DEF S!EmptyMap, S!IsMap
<1>3. gov_params \in S!GovernanceParams
  BY DEF S!initialize, S!GovernanceParams
<1>4. s_next_proposal_id - 1 = 0 /\ s_next_proposal_id \in 1 .. MaxProposals + 1 /\ s_now \in 0 .. MaxTime
  BY DEF S!initialize
<1>5. s_proposals = S!EmptyMap /\ s_delegations = S!EmptyMap /\ s_paused = FALSE
  BY DEF S!initialize
<1> QED BY <1>1, <1>2, <1>3, <1>4, <1>5 DEF S!TypeOK, S!ExecutedAfterVoting, S!Consistent

(* What a step leaves of each proposal.                                     *)
LEMMA SyntheticKeeps ==
  ASSUME S!TypeOK, [S!Next]_(S!vars), NEW id \in DOMAIN s_proposals'
  PROVE  /\ s_now' >= s_now
         /\ id \notin DOMAIN s_proposals => s_proposals'[id].executed = FALSE
         /\ id \in DOMAIN s_proposals =>
              /\ s_proposals'[id].voting_deadline = s_proposals[id].voting_deadline
              /\ \/ s_proposals'[id].executed = s_proposals[id].executed
                 \/ s_now > s_proposals[id].voting_deadline
<1>0. s_now \in Nat /\ \A i \in DOMAIN s_proposals : s_proposals[i] \in S!AssetProposal
  BY DEF S!TypeOK
<1>1. ASSUME NEW emergency \in BOOLEAN, Created(emergency)
      PROVE  /\ s_now' = s_now
             /\ id \notin DOMAIN s_proposals => s_proposals'[id].executed = FALSE
             /\ id \in DOMAIN s_proposals => s_proposals'[id] = s_proposals[id]
  <2>1. PICK a \in s_Addresses, period \in Nat : S!AddProposal(a, emergency, period) /\ UNCHANGED s_now
    BY <1>1 DEF Created
  <2>2. /\ s_next_proposal_id \in 1 .. MaxProposals
        /\ DOMAIN s_proposals = 1 .. s_next_proposal_id - 1
        /\ DOMAIN s_proposals' = 1 .. s_next_proposal_id
        /\ \A i \in 1 .. s_next_proposal_id - 1 : s_proposals'[i] = s_proposals[i]
        /\ s_proposals'[s_next_proposal_id].executed = FALSE
    BY <2>1, SyntheticNew
  <2>3. id \notin DOMAIN s_proposals => id = s_next_proposal_id
    BY <2>2
  <2> QED BY <2>1, <2>2, <2>3
<1>2. ASSUME NEW a \in s_Addresses, NEW i \in S!Ids, NEW support \in BOOLEAN, S!vote(a, i, support)
      PROVE  /\ s_now' = s_now /\ id \in DOMAIN s_proposals
             /\ s_proposals'[id].voting_deadline = s_proposals[id].voting_deadline
             /\ s_proposals'[id].executed = s_proposals[id].executed
  <2>1. /\ s_now' = s_now /\ DOMAIN s_proposals' = DOMAIN s_proposals
        /\ s_proposals'[id] = IF id = i THEN S!Counted(s_proposals[id], support) ELSE s_proposals[id]
    BY <1>2 DEF S!vote, S!TypeOK
  <2> QED BY <1>0, <2>1, SyntheticCounted
<1>3. ASSUME NEW i \in S!Ids, S!execute_proposal(i)
      PROVE  /\ s_now' = s_now /\ id \in DOMAIN s_proposals
             /\ s_proposals'[id].voting_deadline = s_proposals[id].voting_deadline
             /\ \/ s_proposals'[id].executed = s_proposals[id].executed
                \/ s_now > s_proposals[id].voting_deadline
  <2>1. /\ s_now' = s_now /\ DOMAIN s_proposals' = DOMAIN s_proposals
        /\ s_proposals'[id] = IF id = i THEN [s_proposals[id] EXCEPT !.executed = TRUE] ELSE s_proposals[id]
        /\ id = i => s_now > s_proposals[id].voting_deadline
    BY <1>3 DEF S!execute_proposal, S!Executable, S!TypeOK
  <2> QED BY <1>0, <2>1 DEF S!AssetProposal
<1>4. CASE UNCHANGED s_proposals /\ (S!Tick \/ UNCHANGED s_now)
  BY <1>0, <1>4 DEF S!Tick
<1>5. \/ \E emergency \in BOOLEAN : Created(emergency)
      \/ \E a \in s_Addresses, i \in S!Ids, support \in BOOLEAN : S!vote(a, i, support)
      \/ \E i \in S!Ids : S!execute_proposal(i)
      \/ UNCHANGED s_proposals /\ (S!Tick \/ UNCHANGED s_now)
  BY SyntheticSteps
<1>6. CASE \E emergency \in BOOLEAN : Created(emergency)
  <2>1. /\ s_now' = s_now
        /\ id \notin DOMAIN s_proposals => s_proposals'[id].executed = FALSE
        /\ id \in DOMAIN s_proposals => s_proposals'[id] = s_proposals[id]
    <3>1. PICK emergency \in BOOLEAN : Created(emergency)
      BY <1>6
    <3> QED BY <1>1, <3>1
  <2>2. s_now' >= s_now
    BY <1>0, <2>1
  <2> QED BY <2>1, <2>2
<1>7. CASE \E a \in s_Addresses, i \in S!Ids, support \in BOOLEAN : S!vote(a, i, support)
  BY <1>0, <1>2, <1>7
<1>8. CASE \E i \in S!Ids : S!execute_proposal(i)
  BY <1>0, <1>3, <1>8
<1> QED BY <1>4, <1>5, <1>6, <1>7, <1>8

LEMMA SyntheticConsistentStep == S!Consistent /\ [S!Next]_(S!vars) => S!Consistent'
<1> SUFFICES ASSUME S!TypeOK, S!ExecutedAfterVoting, [S!Next]_(S!vars)
             PROVE  S!TypeOK' /\ S!ExecutedAfterVoting'
  BY DEF S!Consistent
<1>1. S!TypeOK'
  BY SyntheticTypeStep
<1>2. ASSUME NEW id \in DOMAIN s_proposals', s_proposals'[id].executed
      PROVE  s_now' > s_proposals'[id].voting_deadline
  <2>1. id \in DOMAIN s_proposals /\ s_now' >= s_now
    BY <1>2, SyntheticKeeps
  <2>2. /\ s_proposals'[id].voting_deadline = s_proposals[id].voting_deadline
        /\ s_now > s_proposals[id].voting_deadline
    BY <1>2, <2>1, SyntheticKeeps DEF S!ExecutedAfterVoting
  <2>3. s_now \in Nat /\ s_now' \in Nat /\ s_proposals[id].voting_deadline \in Nat
    BY <1>1, <2>1 DEF S!TypeOK, S!AssetProposal
  <2> QED BY <2>1, <2>2, <2>3
<1> QED BY <1>1, <1>2 DEF S!ExecutedAfterVoting

(* A pause leaves the administrator's emergency proposals as the only step.  *)
LEMMA SyntheticPauseStep ==
  S!TypeOK /\ [S!Next]_(S!vars) =>
    [s_paused =>
       /\ UNCHANGED s_delegations
       /\ \A id \in DOMAIN s_proposals : s_proposals'[id] = s_proposals[id]
       /\ \A id \in DOMAIN s_proposals' \ DOMAIN s_proposals : s_proposals'[id].emergency]_(S!vars)
<1> SUFFICES ASSUME S!TypeOK, S!Next, s_paused
             PROVE  /\ UNCHANGED s_delegations
                    /\ \A id \in DOMAIN s_proposals : s_proposals'[id] = s_proposals[id]
                    /\ \A id \in DOMAIN s_proposals' \ DOMAIN s_proposals : s_proposals'[id].emergency
  OBVIOUS
<1>1. CASE S!emergency_pause
  <2>1. S!AddProposal(s_Admin, TRUE, s_EMERGENCY_VOTING_PERIOD)
    BY <1>1 DEF S!emergency_pause
  <2>2. /\ s_next_proposal_id \in 1 .. MaxProposals
        /\ DOMAIN s_proposals = 1 .. s_next_proposal_id - 1
        /\ DOMAIN s_proposals' = 1 .. s_next_proposal_id
        /\ \A i \in 1 .. s_next_proposal_id - 1 : s_proposals'[i] = s_proposals[i]
        /\ s_proposals'[s_next_proposal_id].emergency = TRUE
    BY <2>1, SyntheticNew
  <2>3. \A id \in DOMAIN s_proposals' \ DOMAIN s_proposals : id = s_next_proposal_id
    BY <2>2
  <2>4. UNCHANGED s_delegations
    BY <2>1 DEF S!AddProposal
  <2> QED BY <2>2, <2>3, <2>4
<1>2. CASE ~S!emergency_pause
  <2>1. UNCHANGED <<s_proposals, s_delegations>>
    BY <1>2 DEF S!Next, S!require_not_paused, S!create_proposal, S!vote, S!execute_proposal,
           S!delegate, S!update_governance_params, S!SetPaused, S!Tick
  <2> QED BY <2>1
<1> QED BY <1>1, <1>2

(* Each step of the three contracts is a step of one, and none of the others.*)
LEMMA StepsOfEach ==
  [MCNext]_<<vars, gVars, sVars>> => [Next]_vars /\ [G!Next]_(G!vars) /\ [S!Next]_(S!vars)
BY DEF MCNext, gVars, sVars, vars, G!vars, G!paramVars, S!vars

LEMMA SpecOfEach == MCSpec => Spec /\ G!Spec /\ S!Spec
BY StepsOfEach, PTL DEF MCSpec, MCInit, Spec, G!Spec, S!Spec

(* The emergency proposals of SyntheticGovernance included, a proposal is   *)
(* executed when it can no longer be voted on, and a pause stops everything *)
(* but the administrator's emergency proposals.                             *)
THEOREM SyntheticGovernanceHolds == MCSpec => SyntheticKept
<1>1. S!Consistent => S!TypeOK
  BY DEF S!Consistent
<1>2. S!Spec => []S!Consistent
  BY SyntheticInit, SyntheticConsistentStep, PTL DEF S!Spec
<1>3. S!Spec => S!PauseFreezes
  BY <1>1, <1>2, SyntheticPauseStep, PTL DEF S!Spec, S!PauseFreezes
<1> QED BY <1>2, <1>3, SpecOfEach, PTL DEF SyntheticKept
-----------------------------------------------------------------------------
(* The refinement of Ballot by SyntheticGovernance.                        *)

HIDE SAssumption DEF S!SyntheticGovernanceAssumption

(* A step that changes proposal id only shows in Ballot at id only.         *)
LEMMA SyntheticOneChange ==
  ASSUME NEW id \in S!Ids,
         \A i \in S!Ids \ {id} :
           /\ i \in DOMAIN s_proposals' <=> i \in DOMAIN s_proposals
           /\ i \in DOMAIN s_proposals => s_proposals'[i] = s_proposals[i]
  PROVE  /\ S!Phases' = [S!Phases EXCEPT ![id] = S!PhaseOf(id)']
         /\ S!VotesFor' = [S!VotesFor EXCEPT ![id] = S!VotesFor'[id]]
         /\ S!VotesAgainst' = [S!VotesAgainst EXCEPT ![id] = S!VotesAgainst'[id]]
<1>1. \A i \in S!Ids \ {id} : S!PhaseOf(i)' = S!PhaseOf(i)
  BY DEF S!PhaseOf
<1>2. S!Phases' = [S!Phases EXCEPT ![id] = S!PhaseOf(id)']
  BY <1>1 DEF S!Phases
<1>3. S!VotesFor' = [S!VotesFor EXCEPT ![id] = S!VotesFor'[id]]
  BY DEF S!VotesFor
<1>4. S!VotesAgainst' = [S!VotesAgainst EXCEPT ![id] = S!VotesAgainst'[id]]
  BY DEF S!VotesAgainst
<1> QED BY <1>2, <1>3, <1>4

LEMMA SyntheticRefinementInit == S!initialize => S!Promise!BallotInit
BY DEF S!initialize, S!EmptyMap, S!PhaseOf, S!Phases, S!VotesFor, S!VotesAgainst, S!Promise!BallotInit

(* A proposal opens.                                                        *)
LEMMA SyntheticCreateOpens ==
  ASSUME S!TypeOK, NEW emergency \in BOOLEAN, Created(emergency)
  PROVE  S!Promise!Open(s_next_proposal_id)
<1> SUFFICES ASSUME NEW CONSTANT id, id = s_next_proposal_id
             PROVE  S!Promise!Open(id)
  OBVIOUS
<1>1. /\ id \in 1 .. MaxProposals
      /\ DOMAIN s_proposals = 1 .. id - 1 /\ DOMAIN s_proposals' = 1 .. id
      /\ \A i \in 1 .. id - 1 : s_proposals'[i] = s_proposals[i]
  BY SyntheticNew DEF Created
<1>2. s_proposals'[id].votes_for = 0 /\ s_proposals'[id].votes_against = 0 /\ s_proposals'[id].executed = FALSE
  BY SyntheticNew DEF Created
<1>3. id \in S!Ids /\ id \notin DOMAIN s_proposals /\ id \in DOMAIN s_proposals'
  BY <1>1 DEF S!Ids
<1>4. \A i \in S!Ids \ {id} :
        /\ i \in DOMAIN s_proposals' <=> i \in DOMAIN s_proposals
        /\ i \in DOMAIN s_proposals => s_proposals'[i] = s_proposals[i]
  BY <1>1 DEF S!Ids
<1>5. /\ S!Phases' = [S!Phases EXCEPT ![id] = S!PhaseOf(id)']
      /\ S!VotesFor' = [S!VotesFor EXCEPT ![id] = S!VotesFor'[id]]
      /\ S!VotesAgainst' = [S!VotesAgainst EXCEPT ![id] = S!VotesAgainst'[id]]
  BY <1>3, <1>4, SyntheticOneChange
<1>6. S!Phases[id] = "none" /\ S!PhaseOf(id)' = "open"
  BY <1>3, <1>2 DEF S!Phases, S!PhaseOf
<1>7. S!VotesFor'[id] = S!VotesFor[id] /\ S!VotesAgainst'[id] = S!VotesAgainst[id]
  BY <1>3, <1>2 DEF S!VotesFor, S!VotesAgainst
<1>8. S!VotesFor' = S!VotesFor
  BY <1>3, <1>5, <1>7 DEF S!VotesFor
<1>9. S!VotesAgainst' = S!VotesAgainst
  BY <1>3, <1>5, <1>7 DEF S!VotesAgainst
<1> QED BY <1>5, <1>6, <1>8, <1>9 DEF S!Promise!Open

(* A vote is cast on an open proposal.                                        *)
LEMMA SyntheticVoteCasts ==
  ASSUME S!TypeOK, NEW a \in s_Addresses, NEW id \in S!Ids, NEW support \in BOOLEAN,
         S!vote(a, id, support)
  PROVE  S!Promise!Cast(id)
<1>1. /\ id \in DOMAIN s_proposals /\ s_proposals[id] \in S!AssetProposal
      /\ ~s_proposals[id].executed
      /\ DOMAIN s_proposals' = DOMAIN s_proposals
      /\ s_proposals'[id] = S!Counted(s_proposals[id], support)
      /\ \A i \in S!Ids \ {id} : i \in DOMAIN s_proposals => s_proposals'[i] = s_proposals[i]
  BY DEF S!vote, S!VotingOpen, S!TypeOK
<1>2. /\ S!Phases' = [S!Phases EXCEPT ![id] = S!PhaseOf(id)']
      /\ S!VotesFor' = [S!VotesFor EXCEPT ![id] = S!VotesFor'[id]]
      /\ S!VotesAgainst' = [S!VotesAgainst EXCEPT ![id] = S!VotesAgainst'[id]]
  BY <1>1, SyntheticOneChange
<1>3. /\ s_proposals'[id].executed = s_proposals[id].executed
      /\ \/ /\ s_proposals'[id].votes_for > s_proposals[id].votes_for
            /\ s_proposals'[id].votes_against = s_proposals[id].votes_against
         \/ /\ s_proposals'[id].votes_for = s_proposals[id].votes_for
            /\ s_proposals'[id].votes_against > s_proposals[id].votes_against
  BY <1>1, SyntheticCounted
<1>4. S!Phases[id] = "open" /\ S!PhaseOf(id)' = "open"
  BY <1>1, <1>3 DEF S!Phases, S!PhaseOf
<1>5. S!Phases' = S!Phases
  BY <1>2, <1>4 DEF S!Phases
<1>6. /\ S!VotesFor[id] = s_proposals[id].votes_for
      /\ S!VotesFor'[id] = s_proposals'[id].votes_for
      /\ S!VotesAgainst[id] = s_proposals[id].votes_against
      /\ S!VotesAgainst'[id] = s_proposals'[id].votes_against
  BY <1>1 DEF S!VotesFor, S!VotesAgainst
<1>7. CASE /\ s_proposals'[id].votes_for > s_proposals[id].votes_for
           /\ s_proposals'[id].votes_against = s_proposals[id].votes_against
  <2>1. S!VotesAgainst' = S!VotesAgainst
    BY <1>2, <1>6, <1>7 DEF S!VotesAgainst
  <2> QED BY <1>2, <1>4, <1>5, <1>6, <1>7, <2>1 DEF S!Promise!Cast, S!Promise!Grows
<1>8. CASE /\ s_proposals'[id].votes_for = s_proposals[id].votes_for
           /\ s_proposals'[id].votes_against > s_proposals[id].votes_against
  <2>1. S!VotesFor' = S!VotesFor
    BY <1>2, <1>6, <1>8 DEF S!VotesFor
  <2> QED BY <1>2, <1>4, <1>5, <1>6, <1>8, <2>1 DEF S!Promise!Cast, S!Promise!Grows
<1> QED BY <1>3, <1>7, <1>8

(* An open proposal with a majority is executed.                            *)
LEMMA SyntheticExecutionExecutes ==
  ASSUME S!TypeOK, NEW id \in S!Ids, S!execute_proposal(id)
  PROVE  S!Promise!Execute(id)
<1>1. /\ id \in DOMAIN s_proposals /\ s_proposals[id] \in S!AssetProposal
      /\ ~s_proposals[id].executed
      /\ s_proposals[id].votes_for > s_proposals[id].votes_against
      /\ DOMAIN s_proposals' = DOMAIN s_proposals
      /\ s_proposals'[id] = [s_proposals[id] EXCEPT !.executed = TRUE]
      /\ \A i \in S!Ids \ {id} : i \in DOMAIN s_proposals => s_proposals'[i] = s_proposals[i]
  BY DEF S!execute_proposal, S!Passed, S!TypeOK
<1>2. /\ S!Phases' = [S!Phases EXCEPT ![id] = S!PhaseOf(id)']
      /\ S!VotesFor' = [S!VotesFor EXCEPT ![id] = S!VotesFor'[id]]
      /\ S!VotesAgainst' = [S!VotesAgainst EXCEPT ![id] = S!VotesAgainst'[id]]
  BY <1>1, SyntheticOneChange
<1>3. /\ s_proposals'[id].executed
      /\ s_proposals'[id].votes_for = s_proposals[id].votes_for
      /\ s_proposals'[id].votes_against = s_proposals[id].votes_against
  BY <1>1 DEF S!AssetProposal
<1>4. S!Phases[id] = "open" /\ S!PhaseOf(id)' = "executed" /\ S!VotesFor[id] > S!VotesAgainst[id]
  BY <1>1, <1>3 DEF S!Phases, S!PhaseOf, S!VotesFor, S!VotesAgainst
<1>5. S!VotesFor'[id] = S!VotesFor[id] /\ S!VotesAgainst'[id] = S!VotesAgainst[id]
  BY <1>1, <1>3 DEF S!VotesFor, S!VotesAgainst
<1>6. S!VotesFor' = S!VotesFor /\ S!VotesAgainst' = S!VotesAgainst
  BY <1>2, <1>5 DEF S!VotesFor, S!VotesAgainst
<1> QED BY <1>2, <1>4, <1>6 DEF S!Promise!Execute

LEMMA SyntheticRefinementStep ==
  S!TypeOK /\ [S!Next]_(S!vars) => [S!Promise!BallotNext]_(S!Promise!ballotVars)
<1> SUFFICES ASSUME S!TypeOK, [S!Next]_(S!vars)
             PROVE  [S!Promise!BallotNext]_(S!Promise!ballotVars)
  OBVIOUS
<1>1. ASSUME NEW emergency \in BOOLEAN, Created(emergency) PROVE S!Promise!BallotNext
  <2>1. s_next_proposal_id \in S!Ids
    BY <1>1, SyntheticNew DEF Created, S!Ids
  <2> QED BY <1>1, <2>1, SyntheticCreateOpens DEF S!Promise!BallotNext
<1>2. ASSUME NEW a \in s_Addresses, NEW id \in S!Ids, NEW support \in BOOLEAN, S!vote(a, id, support)
      PROVE  S!Promise!BallotNext
  BY <1>2, SyntheticVoteCasts DEF S!Promise!BallotNext
<1>3. ASSUME NEW id \in S!Ids, S!execute_proposal(id) PROVE S!Promise!BallotNext
  BY <1>3, SyntheticExecutionExecutes DEF S!Promise!BallotNext
<1>4. ASSUME UNCHANGED s_proposals PROVE UNCHANGED S!Promise!ballotVars
  BY <1>4 DEF S!Phases, S!PhaseOf, S!VotesFor, S!VotesAgainst, S!Promise!ballotVars
<1>5. \/ \E emergency \in BOOLEAN : Created(emergency)
      \/ \E a \in s_Addresses, id \in S!Ids, support \in BOOLEAN : S!vote(a, id, support)
      \/ \E id \in S!Ids : S!execute_proposal(id)
      \/ UNCHANGED s_proposals
  BY SyntheticSteps
<1> QED BY <1>1, <1>2, <1>3, <1>4, <1>5

LEMMA SyntheticImplementsBallot == S!Spec => S!ImplementsBallot
<1>1. S!Consistent => S!TypeOK
  BY DEF S!Consistent
<1>2. S!Spec => []S!Consistent
  BY SyntheticInit, SyntheticConsistentStep, PTL DEF S!Spec
<1> QED BY <1>1, <1>2, SyntheticRefinementInit, SyntheticRefinementStep, PTL
        DEF S!Spec, S!ImplementsBallot, S!Promise!BallotSpec

-----------------------------------------------------------------------------
(* Governance.                                                              *)

USE GAssumption DEF G!GovernanceAssumption

LEMMA GovernanceCounted ==
  ASSUME NEW p \in G!Proposal, NEW support \in BOOLEAN, NEW power \in Nat, power > 0
  PROVE  LET q == G!Counted(p, support, power)
         IN  /\ q \in G!Proposal
             /\ q.status = p.status /\ q.delisting = p.delisting
             /\ q.voting_deadline = p.voting_deadline
             /\ q.execution_time = p.execution_time
             /\ q.votes_for + q.votes_against = p.votes_for + p.votes_against + power
             /\ q.total_voting_power = p.total_voting_power + power
             /\ \/ q.votes_for > p.votes_for /\ q.votes_against = p.votes_against
                \/ q.votes_for = p.votes_for /\ q.votes_against > p.votes_against
<1>1. PICK q : q = G!Counted(p, support, power)
  OBVIOUS
<1>2. PICK for, against \in Nat :
        /\ for = IF support THEN p.votes_for + power ELSE p.votes_for
        /\ against = IF support THEN p.votes_against ELSE p.votes_against + power
  BY DEF G!Proposal
<1> PICK total \in Nat : total = p.total_voting_power + power
  BY DEF G!Proposal
<1>3. q = [p EXCEPT !.votes_for = for, !.votes_against = against, !.total_voting_power = total]
  BY <1>1, <1>2 DEF G!Counted
<1>4. /\ q \in G!Proposal
      /\ q.status = p.status /\ q.delisting = p.delisting
      /\ q.voting_deadline = p.voting_deadline
      /\ q.execution_time = p.execution_time
      /\ q.votes_for = for /\ q.votes_against = against
      /\ q.total_voting_power = total
  BY <1>3 DEF G!Proposal
<1>5. p.votes_for \in Nat /\ p.votes_against \in Nat
  BY DEF G!Proposal
<1>6. for + against = p.votes_for + p.votes_against + power
  BY <1>2, <1>5
<1>7. \/ for > p.votes_for /\ against = p.votes_against
      \/ for = p.votes_for /\ against > p.votes_against
  BY <1>2, <1>5
<1> QED BY <1>1, <1>4, <1>6, <1>7

Delistings == [notice_period : Nat, delist_at : Nat]

(* A proposal that was just created, of either kind.                        *)
LEMMA GovernanceNew ==
  ASSUME G!TypeOK, NEW a \in Addresses, NEW delisting \in Delistings, NEW t \in Nat,
         G!Create(a, delisting, t)
  PROVE  /\ g_next_proposal_id \in 1 .. g_MaxProposals
         /\ g_next_proposal_id' = g_next_proposal_id + 1
         /\ DOMAIN g_proposals = 1 .. g_next_proposal_id - 1
         /\ DOMAIN g_proposals' = 1 .. g_next_proposal_id
         /\ g_proposals' \in [1 .. g_next_proposal_id -> G!Proposal]
         /\ \A id \in 1 .. g_next_proposal_id - 1 : g_proposals'[id] = g_proposals[id]
         /\ g_proposals'[g_next_proposal_id].votes_for = 0
         /\ g_proposals'[g_next_proposal_id].votes_against = 0
         /\ g_proposals'[g_next_proposal_id].total_voting_power = 0
         /\ g_proposals'[g_next_proposal_id].status = "Active"
<1> DEFINE new == [proposer |-> a, delisting |-> delisting, votes_for |-> 0,
                   votes_against |-> 0, total_voting_power |-> 0,
                   voting_deadline |-> t + voting_period,
                   execution_time |-> t + voting_period + execution_delay,
                   status |-> "Active"]
<1>1. /\ g_next_proposal_id \in 1 .. g_MaxProposals
      /\ g_next_proposal_id' = g_next_proposal_id + 1
      /\ g_proposals' = G!Put(g_proposals, g_next_proposal_id, new)
  BY DEF G!Create, G!TypeOK
<1>2. DOMAIN g_proposals = 1 .. g_next_proposal_id - 1
  BY DEF G!TypeOK
<1>3. DOMAIN g_proposals \cup {g_next_proposal_id} = 1 .. g_next_proposal_id
  BY <1>1, <1>2
<1>4. new \in G!Proposal
  BY DEF G!TypeOK, G!Proposal, G!Statuses, Delistings
<1>5. g_proposals' = [x \in 1 .. g_next_proposal_id |->
                       IF x = g_next_proposal_id THEN new ELSE g_proposals[x]]
  BY <1>1, <1>3 DEF G!Put
<1>6. \A x \in 1 .. g_next_proposal_id : x # g_next_proposal_id => x \in 1 .. g_next_proposal_id - 1
  BY <1>1
<1>7. g_proposals' \in [1 .. g_next_proposal_id -> G!Proposal]
  <2> HIDE DEF new
  <2> QED BY <1>4, <1>5, <1>6 DEF G!TypeOK
<1>8. g_next_proposal_id \in 1 .. g_next_proposal_id
  BY <1>1
<1>9. g_proposals'[g_next_proposal_id] = new
  <2> HIDE DEF new
  <2> QED BY <1>5, <1>8
<1>10. \A id \in 1 .. g_next_proposal_id - 1 : id \in 1 .. g_next_proposal_id /\ id # g_next_proposal_id
  BY <1>1
<1>11. \A id \in 1 .. g_next_proposal_id - 1 : g_proposals'[id] = g_proposals[id]
  <2> HIDE DEF new
  <2> QED BY <1>5, <1>10
<1>12. /\ new.votes_for = 0 /\ new.votes_against = 0 /\ new.total_voting_power = 0
       /\ new.status = "Active"
  OBVIOUS
<1>13. DOMAIN g_proposals' = 1 .. g_next_proposal_id
  <2> HIDE DEF new
  <2> QED BY <1>5
<1> QED
  <2> HIDE DEF new
  <2> QED BY <1>1, <1>2, <1>7, <1>9, <1>11, <1>12, <1>13

Started ==
  \E a \in Addresses, delisting \in Delistings, t \in Nat :
    G!Create(a, delisting, t) /\ UNCHANGED <<g_votes, G!paramVars, called_at>>

(* Proposal id gets another status; it is settled when it was executed, at   *)
(* the time called_at, and cancelled otherwise.                             *)
Restated(id, status) ==
  /\ id \in DOMAIN g_proposals
  /\ g_proposals' = [g_proposals EXCEPT ![id] = [g_proposals[id] EXCEPT !.status = status]]
  /\ UNCHANGED <<g_votes, g_next_proposal_id, G!paramVars>>
  /\ \/ status = "Cancelled" /\ g_proposals[id].status # "Executed" /\ UNCHANGED called_at
     \/ /\ g_proposals[id].status \in {"Active", "Succeeded"}
        /\ status \in {"Defeated", "Succeeded", "Executed"}
        /\ status # "Defeated" => G!has_proposal_passed(g_proposals[id])
        /\ status = "Executed" => called_at' >= g_proposals[id].execution_time
        /\ called_at' \in Nat

(* A step creates a proposal, counts a vote, restates a proposal, or leaves  *)
(* proposals and votes alone.                                               *)
LEMMA GovernanceSteps ==
  ASSUME G!TypeOK, [G!Next]_(G!vars)
  PROVE  \/ Started
         \/ \E a \in Addresses, id \in G!Ids, support \in BOOLEAN, power \in g_Powers :
              G!vote(a, id, support, power)
         \/ \E id \in G!Ids, status \in G!Statuses : Restated(id, status)
         \/ /\ UNCHANGED <<g_proposals, g_votes, g_next_proposal_id, called_at>>
            /\ quorum_percentage' \in Nat /\ voting_period' \in Nat /\ execution_delay' \in Nat
<1>0. voting_period \in Nat /\ execution_delay \in Nat /\ quorum_percentage \in Nat
  BY DEF G!TypeOK
<1>1. ASSUME NEW a \in Addresses, NEW t \in g_Times, G!create_proposal(a, t) PROVE Started
  <2>1. G!NoDelisting \in Delistings /\ t \in Nat
    BY DEF G!NoDelisting, Delistings
  <2> QED BY <1>1, <2>1 DEF G!create_proposal, G!Create, Started
<1>2. ASSUME NEW a \in Addresses, NEW n \in g_Notices, NEW t \in g_Times,
             G!create_delisting_proposal(a, n, t)
      PROVE  Started
  <2>1. n \in Nat /\ t \in Nat
    OBVIOUS
  <2>2. PICK notice \in Nat : notice = IF n = 0 THEN g_DEFAULT_NOTICE ELSE n
    BY <2>1
  <2>3. [notice_period |-> notice,
         delist_at |-> t + voting_period + execution_delay + notice] \in Delistings
    BY <1>0, <2>1, <2>2 DEF Delistings
  <2>4. G!Create(a, [notice_period |-> notice,
                     delist_at |-> t + voting_period + execution_delay + notice], t)
    BY <1>2, <2>2 DEF G!create_delisting_proposal
  <2>5. UNCHANGED <<g_votes, G!paramVars, called_at>>
    BY <2>4 DEF G!Create
  <2> QED BY <2>1, <2>3, <2>4, <2>5 DEF Started
<1>3. ASSUME NEW id \in G!Ids, NEW t \in g_Times, G!execute_proposal(id, t)
      PROVE  \E status \in G!Statuses : Restated(id, status)
  <2>1. PICK status : status = G!Settled(g_proposals[id], t)
    OBVIOUS
  <2>2. /\ id \in DOMAIN g_proposals
        /\ g_proposals[id].status \in {"Active", "Succeeded"}
        /\ g_proposals' = [g_proposals EXCEPT ![id] = [g_proposals[id] EXCEPT !.status = status]]
        /\ called_at' = t
        /\ UNCHANGED <<g_votes, g_next_proposal_id, G!paramVars>>
    BY <1>3, <2>1 DEF G!execute_proposal
  <2>3. t \in Nat /\ g_proposals[id].execution_time \in Nat
    BY <2>2 DEF G!TypeOK, G!Proposal
  <2>4. /\ status \in {"Defeated", "Succeeded", "Executed"}
        /\ status # "Defeated" => G!has_proposal_passed(g_proposals[id])
        /\ status = "Executed" => t >= g_proposals[id].execution_time
    BY <2>1, <2>3 DEF G!Settled
  <2> QED BY <2>2, <2>3, <2>4 DEF Restated, G!Statuses
<1>4. ASSUME NEW a \in Addresses, NEW id \in G!Ids, G!cancel_proposal(a, id)
      PROVE  Restated(id, "Cancelled") /\ "Cancelled" \in G!Statuses
  BY <1>4 DEF G!cancel_proposal, Restated, G!Statuses
<1>5. ASSUME NEW q \in g_Quorums, NEW p \in g_Periods, NEW d \in g_Delays,
             G!update_parameters(q, p, d)
      PROVE  /\ UNCHANGED <<g_proposals, g_votes, g_next_proposal_id, called_at>>
             /\ quorum_percentage' \in Nat /\ voting_period' \in Nat /\ execution_delay' \in Nat
  BY <1>5 DEF G!update_parameters
<1>6. CASE UNCHANGED G!vars
  BY <1>0, <1>6 DEF G!vars, G!paramVars
<1> QED BY <1>1, <1>2, <1>3, <1>4, <1>5, <1>6 DEF G!Next

LEMMA RestatedKeeps ==
  ASSUME G!TypeOK, NEW id, NEW status \in G!Statuses, Restated(id, status)
  PROVE  /\ g_proposals' \in [1 .. g_next_proposal_id - 1 -> G!Proposal]
         /\ DOMAIN g_proposals' = DOMAIN g_proposals
         /\ \A i \in DOMAIN g_proposals :
              /\ i # id => g_proposals'[i] = g_proposals[i]
              /\ g_proposals'[i].votes_for = g_proposals[i].votes_for
              /\ g_proposals'[i].votes_against = g_proposals[i].votes_against
              /\ g_proposals'[i].total_voting_power = g_proposals[i].total_voting_power
              /\ g_proposals'[i].voting_deadline = g_proposals[i].voting_deadline
              /\ g_proposals'[i].execution_time = g_proposals[i].execution_time
              /\ g_proposals'[i].delisting = g_proposals[i].delisting
         /\ g_proposals'[id].status = status
<1>1. id \in DOMAIN g_proposals /\ \A i \in DOMAIN g_proposals : g_proposals[i] \in G!Proposal
  BY DEF Restated, G!TypeOK
<1>2. PICK p : p = [g_proposals[id] EXCEPT !.status = status]
  OBVIOUS
<1>3. /\ p \in G!Proposal
      /\ p.status = status
      /\ p.votes_for = g_proposals[id].votes_for
      /\ p.votes_against = g_proposals[id].votes_against
      /\ p.total_voting_power = g_proposals[id].total_voting_power
      /\ p.voting_deadline = g_proposals[id].voting_deadline
      /\ p.execution_time = g_proposals[id].execution_time
      /\ p.delisting = g_proposals[id].delisting
  <2>1. PICK old : old = g_proposals[id]
    OBVIOUS
  <2> QED BY <1>1, <1>2, <2>1 DEF G!Proposal
<1>4. g_proposals' = [g_proposals EXCEPT ![id] = p]
  BY <1>2 DEF Restated
<1> QED BY <1>1, <1>3, <1>4 DEF G!TypeOK

(* The vote of power by a for or against id was recorded and counted.       *)
VoteTaken(a, id, support, power) ==
  /\ id \in DOMAIN g_proposals /\ g_proposals[id].status = "Active"
  /\ power \in Nat /\ power > 0
  /\ g_proposals' \in [1 .. g_next_proposal_id - 1 -> G!Proposal]
  /\ DOMAIN g_proposals' = DOMAIN g_proposals
  /\ \A i \in DOMAIN g_proposals :
       /\ i = id => g_proposals'[i] = G!Counted(g_proposals[i], support, power)
       /\ i # id => g_proposals'[i] = g_proposals[i]
  /\ UNCHANGED <<g_next_proposal_id, G!paramVars, called_at>>
  /\ <<id, a>> \notin DOMAIN g_votes
  /\ DOMAIN g_votes' = DOMAIN g_votes \cup {<<id, a>>}
  /\ g_votes'[<<id, a>>] = power
  /\ \A v \in DOMAIN g_votes : g_votes'[v] = g_votes[v]

LEMMA VoteKeeps ==
  ASSUME G!TypeOK, NEW a \in Addresses, NEW id \in G!Ids, NEW support \in BOOLEAN,
         NEW power \in g_Powers, G!vote(a, id, support, power)
  PROVE  VoteTaken(a, id, support, power)
<1>1. /\ id \in DOMAIN g_proposals /\ g_proposals[id].status = "Active"
      /\ power \in Nat /\ power > 0 /\ g_proposals[id] \in G!Proposal
  BY DEF G!vote, G!IsActive, G!TypeOK
<1>2. PICK q : q = G!Counted(g_proposals[id], support, power)
  OBVIOUS
<1>3. q \in G!Proposal
  BY <1>1, <1>2, GovernanceCounted
<1>4. g_proposals' = [g_proposals EXCEPT ![id] = q]
  BY <1>2 DEF G!vote
<1>5. /\ g_proposals' \in [1 .. g_next_proposal_id - 1 -> G!Proposal]
      /\ DOMAIN g_proposals' = DOMAIN g_proposals
      /\ \A i \in DOMAIN g_proposals :
            /\ i = id => g_proposals'[i] = q
            /\ i # id => g_proposals'[i] = g_proposals[i]
  BY <1>1, <1>3, <1>4 DEF G!TypeOK
<1>6. PICK v : v = <<id, a>>
  OBVIOUS
<1>7. v \notin DOMAIN g_votes /\ g_votes' = G!Put(g_votes, v, power)
  BY <1>6 DEF G!vote, G!NotVoted
<1>8. /\ DOMAIN g_votes' = DOMAIN g_votes \cup {v} /\ g_votes'[v] = power
      /\ \A w \in DOMAIN g_votes : g_votes'[w] = g_votes[w]
  BY <1>7 DEF G!Put
<1> QED BY <1>1, <1>2, <1>5, <1>6, <1>7, <1>8 DEF G!vote, VoteTaken

LEMMA GovernanceTypeStep == G!TypeOK /\ [G!Next]_(G!vars) => G!TypeOK'
<1> SUFFICES ASSUME G!TypeOK, [G!Next]_(G!vars) PROVE G!TypeOK' OBVIOUS
<1>1. CASE Started
  <2>1. PICK a \in Addresses, delisting \in Delistings, t \in Nat :
          G!Create(a, delisting, t) /\ UNCHANGED <<g_votes, G!paramVars, called_at>>
    BY <1>1 DEF Started
  <2>2. /\ g_next_proposal_id \in 1 .. g_MaxProposals
        /\ g_next_proposal_id' = g_next_proposal_id + 1
        /\ g_proposals' \in [1 .. g_next_proposal_id -> G!Proposal]
    BY <2>1, GovernanceNew
  <2>3. /\ g_next_proposal_id' - 1 = g_next_proposal_id
        /\ g_next_proposal_id' \in 1 .. g_MaxProposals + 1
    BY <2>2
  <2> QED BY <2>1, <2>2, <2>3 DEF G!TypeOK, G!paramVars
<1>2. ASSUME NEW a \in Addresses, NEW id \in G!Ids, NEW support \in BOOLEAN, NEW power \in g_Powers,
             G!vote(a, id, support, power)
      PROVE  G!TypeOK'
  <2>1. /\ g_proposals' \in [1 .. g_next_proposal_id - 1 -> G!Proposal]
        /\ UNCHANGED <<g_next_proposal_id, G!paramVars, called_at>>
    BY <1>2, VoteKeeps DEF VoteTaken
  <2>2. PICK v \in G!Ids \X Addresses : v = <<id, a>>
    OBVIOUS
  <2>3. G!IsMap(g_votes', G!Ids \X Addresses, Nat)
    <3>1. power \in Nat /\ g_votes' = G!Put(g_votes, v, power)
      BY <1>2, <2>2, VoteKeeps DEF G!vote, VoteTaken
    <3> QED BY <2>2, <3>1 DEF G!TypeOK, G!IsMap, G!Put
  <2> QED BY <2>1, <2>3 DEF G!TypeOK, G!paramVars
<1>3. ASSUME NEW id \in G!Ids, NEW status \in G!Statuses, Restated(id, status) PROVE G!TypeOK'
  <2>1. g_proposals' \in [1 .. g_next_proposal_id - 1 -> G!Proposal]
    BY <1>3, RestatedKeeps
  <2> QED BY <1>3, <2>1 DEF Restated, G!TypeOK, G!paramVars
<1>4. CASE /\ UNCHANGED <<g_proposals, g_votes, g_next_proposal_id, called_at>>
           /\ quorum_percentage' \in Nat /\ voting_period' \in Nat /\ execution_delay' \in Nat
  BY <1>4 DEF G!TypeOK
<1> QED BY <1>1, <1>2, <1>3, <1>4, GovernanceSteps

LEMMA GovernanceTypeInit == G!Init => G!TypeOK
<1> SUFFICES ASSUME G!Init PROVE G!TypeOK OBVIOUS
<1>1. G!EmptyMap \in [1 .. 0 -> G!Proposal] /\ G!IsMap(G!EmptyMap, G!Ids \X Addresses, Nat)
  BY DEF G!EmptyMap, G!IsMap
<1>2. g_next_proposal_id - 1 = 0 /\ g_next_proposal_id \in 1 .. g_MaxProposals + 1
  BY DEF G!Init
<1>3. quorum_percentage \in Nat /\ voting_period \in Nat /\ execution_delay \in Nat /\ called_at \in Nat
  BY DEF G!Init
<1>4. g_proposals = G!EmptyMap /\ g_votes = G!EmptyMap
  BY DEF G!Init
<1> QED BY <1>1, <1>2, <1>3, <1>4 DEF G!TypeOK

LEMMA GovernanceTypes == G!Spec => []G!TypeOK
BY GovernanceTypeInit, GovernanceTypeStep, PTL DEF G!Spec

LEMMA TermsStep ==
  G!TypeOK /\ [G!Next]_(G!vars) =>
    [\A id \in DOMAIN g_proposals :
       /\ g_proposals'[id].voting_deadline = g_proposals[id].voting_deadline
       /\ g_proposals'[id].execution_time = g_proposals[id].execution_time
       /\ g_proposals'[id].delisting = g_proposals[id].delisting
       /\ (g_proposals'[id].status = "Executed" /\ g_proposals[id].status # "Executed")
            => called_at' >= g_proposals[id].execution_time]_(G!vars)
<1> SUFFICES ASSUME G!TypeOK, [G!Next]_(G!vars), NEW id \in DOMAIN g_proposals
             PROVE  /\ g_proposals'[id].voting_deadline = g_proposals[id].voting_deadline
                    /\ g_proposals'[id].execution_time = g_proposals[id].execution_time
                    /\ g_proposals'[id].delisting = g_proposals[id].delisting
                    /\ (g_proposals'[id].status = "Executed" /\ g_proposals[id].status # "Executed")
                         => called_at' >= g_proposals[id].execution_time
  OBVIOUS
<1>1. CASE Started
  <2>1. PICK a \in Addresses, delisting \in Delistings, t \in Nat : G!Create(a, delisting, t)
    BY <1>1 DEF Started
  <2>2. id \in 1 .. g_next_proposal_id - 1
    BY <2>1, GovernanceNew
  <2>3. g_proposals'[id] = g_proposals[id]
    BY <2>1, <2>2, GovernanceNew
  <2> QED BY <2>3
<1>2. ASSUME NEW a \in Addresses, NEW i \in G!Ids, NEW support \in BOOLEAN, NEW power \in g_Powers,
             G!vote(a, i, support, power)
      PROVE  /\ g_proposals'[id].voting_deadline = g_proposals[id].voting_deadline
             /\ g_proposals'[id].execution_time = g_proposals[id].execution_time
             /\ g_proposals'[id].delisting = g_proposals[id].delisting
             /\ g_proposals'[id].status = g_proposals[id].status
  <2>1. /\ id = i => g_proposals'[id] = G!Counted(g_proposals[id], support, power)
        /\ id # i => g_proposals'[id] = g_proposals[id]
        /\ power \in Nat /\ power > 0
    <3>1. VoteTaken(a, i, support, power)
      BY <1>2, VoteKeeps
    <3> QED BY <3>1 DEF VoteTaken
  <2>2. g_proposals[id] \in G!Proposal
    BY DEF G!TypeOK
  <2>3. CASE id = i
    BY <2>1, <2>2, <2>3, GovernanceCounted
  <2> QED BY <2>1, <2>3
<1>3. ASSUME NEW i \in G!Ids, NEW status \in G!Statuses, Restated(i, status)
      PROVE  /\ g_proposals'[id].voting_deadline = g_proposals[id].voting_deadline
             /\ g_proposals'[id].execution_time = g_proposals[id].execution_time
             /\ g_proposals'[id].delisting = g_proposals[id].delisting
             /\ (g_proposals'[id].status = "Executed" /\ g_proposals[id].status # "Executed")
                  => called_at' >= g_proposals[id].execution_time
  <2>1. /\ g_proposals'[id].voting_deadline = g_proposals[id].voting_deadline
        /\ g_proposals'[id].execution_time = g_proposals[id].execution_time
        /\ g_proposals'[id].delisting = g_proposals[id].delisting
        /\ g_proposals'[i].status = status
        /\ i # id => g_proposals'[id] = g_proposals[id]
    BY <1>3, RestatedKeeps
  <2>2. status = "Executed" => called_at' >= g_proposals[i].execution_time
    BY <1>3 DEF Restated
  <2> QED BY <2>1, <2>2
<1>4. CASE UNCHANGED g_proposals
  BY <1>4
<1> QED BY <1>1, <1>2, <1>3, <1>4, GovernanceSteps

(* No vote, execution, cancellation or change of parameters alters the times *)
(* and the notice a proposal of Governance was created with, and none is     *)
(* executed before its own execution time.                                  *)
THEOREM GovernanceTermsAreKept == MCSpec => TermsAreKept
<1>1. G!Spec => G!TermsAreKept
  BY GovernanceTypes, TermsStep, PTL DEF G!Spec, G!TermsAreKept
<1> QED BY <1>1, SpecOfEach DEF TermsAreKept

-----------------------------------------------------------------------------
(* The tallies of Governance.                                               *)

CastOn(given, id) == {v \in DOMAIN given : v[1] = id}

Sum(given, id) == SumFunctionOnSet(given, CastOn(given, id))

TallyOf(id) ==
  /\ g_proposals[id].votes_for + g_proposals[id].votes_against = Sum(g_votes, id)
  /\ g_proposals[id].total_voting_power = Sum(g_votes, id)

(* The fold of the model is the sum that SumLemmas is about.                *)
LEMMA PowerIsSum == \A V : G!PowerOf(V) = SumFunctionOnSet(g_votes, V)
BY DEF G!PowerOf, G!FoldFunctionOnSet, G!MapThenFoldSet, SumFunctionOnSet, FoldFunctionOnSet,
       MapThenFoldSet

LEMMA TallyIsSum == G!TallyIsVotes <=> \A id \in DOMAIN g_proposals : TallyOf(id)
BY PowerIsSum DEF G!TallyIsVotes, TallyOf, Sum, CastOn

(* The record has finitely many votes, all of proposals that exist.         *)
VotesInv ==
  /\ G!TypeOK
  /\ IsFiniteSet(DOMAIN g_votes)
  /\ \A v \in DOMAIN g_votes : v[1] \in DOMAIN g_proposals
  /\ \A id \in DOMAIN g_proposals : TallyOf(id)
  /\ G!SucceededHasMajority

LEMMA CastOnFacts ==
  ASSUME G!TypeOK, IsFiniteSet(DOMAIN g_votes), NEW id
  PROVE  /\ IsFiniteSet(CastOn(g_votes, id)) /\ CastOn(g_votes, id) \subseteq DOMAIN g_votes
         /\ \A v \in DOMAIN g_votes : g_votes[v] \in Int
         /\ Sum(g_votes, id) \in Int
<1>1. CastOn(g_votes, id) \subseteq DOMAIN g_votes
  BY DEF CastOn
<1>2. IsFiniteSet(CastOn(g_votes, id))
  BY <1>1, FS_Subset
<1>3. \A v \in DOMAIN g_votes : g_votes[v] \in Int
  BY DEF G!TypeOK, G!IsMap
<1>4. \A v \in CastOn(g_votes, id) : g_votes[v] \in Int /\ g_votes[v] <= g_votes[v]
  BY <1>1, <1>3
<1>5. Sum(g_votes, id) \in Int
  BY <1>2, <1>4, SumOnSetMonotone DEF Sum
<1> QED BY <1>1, <1>2, <1>3, <1>5

(* A vote adds its power to the proposal it is for, and to no other.        *)
LEMMA VoteAdds ==
  ASSUME VotesInv, NEW a \in Addresses, NEW id \in G!Ids, NEW support \in BOOLEAN,
         NEW power \in g_Powers, VoteTaken(a, id, support, power), NEW i
  PROVE  Sum(g_votes', i) = IF i = id THEN Sum(g_votes, i) + power ELSE Sum(g_votes, i)
<1> DEFINE old == CastOn(g_votes, i)
<1>1. /\ IsFiniteSet(old) /\ old \subseteq DOMAIN g_votes
      /\ \A v \in DOMAIN g_votes : g_votes[v] \in Int
  BY CastOnFacts DEF VotesInv
<1>2. PICK new : new = <<id, a>>
  OBVIOUS
<1>3. PICK given : given = g_votes'
  OBVIOUS
<1>4. /\ new \notin DOMAIN g_votes /\ DOMAIN given = DOMAIN g_votes \cup {new}
      /\ given[new] = power /\ power \in Int
      /\ \A v \in DOMAIN g_votes : given[v] = g_votes[v]
  BY <1>2, <1>3 DEF VoteTaken
<1>5. new[1] = id
  BY <1>2
<1>6. \A v \in old : g_votes[v] \in Int /\ g_votes[v] = given[v]
  BY <1>1, <1>4
<1>7. SumFunctionOnSet(g_votes, old) = SumFunctionOnSet(given, old)
  BY <1>1, <1>6, SumOnSetAgree
<1>8. CASE i = id
  <2>1. CastOn(given, i) = old \cup {new} /\ new \notin old
    BY <1>1, <1>4, <1>5, <1>8 DEF CastOn
  <2>2. \A v \in old \cup {new} : given[v] \in Int
    BY <1>4, <1>6
  <2> HIDE DEF old
  <2>3. SumFunctionOnSet(given, old \cup {new}) = SumFunctionOnSet(given, old) + given[new]
    BY <1>1, <2>1, <2>2, SumOnSetAdd
  <2> QED BY <1>3, <1>4, <1>7, <1>8, <2>1, <2>3 DEF Sum, old
<1>9. CASE i # id
  <2>1. CastOn(given, i) = old
    BY <1>4, <1>5, <1>9 DEF CastOn
  <2> QED BY <1>3, <1>7, <1>9, <2>1 DEF Sum
<1> QED BY <1>8, <1>9

LEMMA VotesStep == VotesInv /\ [G!Next]_(G!vars) => VotesInv'
<1> SUFFICES ASSUME VotesInv, [G!Next]_(G!vars) PROVE VotesInv' OBVIOUS
<1>0. G!TypeOK /\ G!TypeOK'
  BY GovernanceTypeStep DEF VotesInv
<1> USE <1>0
<1>1. CASE Started
  <2>1. PICK a \in Addresses, delisting \in Delistings, t \in Nat :
          G!Create(a, delisting, t) /\ UNCHANGED g_votes
    BY <1>1 DEF Started
  <2>2. PICK n : n = g_next_proposal_id
    OBVIOUS
  <2>3. /\ n \in 1 .. g_MaxProposals
        /\ DOMAIN g_proposals = 1 .. n - 1 /\ DOMAIN g_proposals' = 1 .. n
        /\ \A id \in 1 .. n - 1 : g_proposals'[id] = g_proposals[id]
        /\ g_proposals'[n].votes_for = 0 /\ g_proposals'[n].votes_against = 0
        /\ g_proposals'[n].total_voting_power = 0 /\ g_proposals'[n].status = "Active"
    BY <2>1, <2>2, GovernanceNew
  <2>4. \A v \in DOMAIN g_votes : v[1] \in 1 .. n - 1
    BY <2>3 DEF VotesInv
  <2>5. CastOn(g_votes, n) = {}
    BY <2>3, <2>4 DEF CastOn
  <2>6. Sum(g_votes, n) = 0
    BY <2>5, SumOnEmpty DEF Sum
  <2>7. ASSUME NEW id \in 1 .. n PROVE TallyOf(id)'
    <3>1. CASE id = n
      BY <2>1, <2>3, <2>6, <3>1 DEF TallyOf
    <3>2. CASE id # n
      <4>1. id \in 1 .. n - 1
        BY <2>3, <3>2
      <4>2. TallyOf(id) /\ g_proposals'[id] = g_proposals[id]
        BY <2>3, <4>1 DEF VotesInv
      <4> QED BY <2>1, <4>2 DEF TallyOf
    <3> QED BY <3>1, <3>2
  <2>8. G!SucceededHasMajority'
    <3>1. ASSUME NEW id \in 1 .. n, g_proposals'[id].status \in {"Succeeded", "Executed"}
          PROVE  g_proposals'[id].votes_for > g_proposals'[id].votes_against
      <4>1. id # n
        BY <2>3, <3>1
      <4>2. id \in 1 .. n - 1
        BY <2>3, <4>1
      <4> QED BY <2>3, <3>1, <4>2 DEF VotesInv, G!SucceededHasMajority
    <3> QED BY <2>3, <3>1 DEF G!SucceededHasMajority
  <2>9. \A v \in DOMAIN g_votes : v[1] \in 1 .. n
    BY <2>3, <2>4
  <2> QED BY <2>1, <2>3, <2>7, <2>8, <2>9 DEF VotesInv
<1>2. ASSUME NEW a \in Addresses, NEW id \in G!Ids, NEW support \in BOOLEAN, NEW power \in g_Powers,
             G!vote(a, id, support, power)
      PROVE  VotesInv'
  <2>1. VoteTaken(a, id, support, power)
    BY <1>2, VoteKeeps
  <2>2. IsFiniteSet(DOMAIN g_votes')
    BY <2>1, FS_AddElement DEF VoteTaken, VotesInv
  <2>3. \A v \in DOMAIN g_votes' : v[1] \in DOMAIN g_proposals'
    BY <2>1 DEF VoteTaken, VotesInv
  <2>4. ASSUME NEW i \in DOMAIN g_proposals PROVE TallyOf(i)'
    <3>1. /\ i = id => g_proposals'[i] = G!Counted(g_proposals[i], support, power)
          /\ i # id => g_proposals'[i] = g_proposals[i]
          /\ power \in Nat /\ power > 0
      BY <2>1 DEF VoteTaken
    <3>2. TallyOf(i) /\ g_proposals[i] \in G!Proposal
      BY DEF VotesInv, G!TypeOK
    <3>3. PICK q : q = g_proposals'[i]
      OBVIOUS
    <3>4. PICK s, s2 : s = Sum(g_votes, i) /\ s2 = Sum(g_votes', i)
      OBVIOUS
    <3>5. s2 = IF i = id THEN s + power ELSE s
      BY <2>1, <3>4, VoteAdds
    <3>6. CASE i = id
      <4>1. /\ q.votes_for + q.votes_against
                = g_proposals[i].votes_for + g_proposals[i].votes_against + power
            /\ q.total_voting_power = g_proposals[i].total_voting_power + power
        BY <3>1, <3>2, <3>3, <3>6, GovernanceCounted
      <4> QED BY <3>2, <3>3, <3>4, <3>5, <3>6, <4>1 DEF TallyOf
    <3>7. CASE i # id
      BY <3>1, <3>2, <3>4, <3>5, <3>7 DEF TallyOf
    <3> QED BY <3>6, <3>7
  <2>5. ASSUME NEW i \in DOMAIN g_proposals, g_proposals'[i].status \in {"Succeeded", "Executed"}
        PROVE  g_proposals'[i].votes_for > g_proposals'[i].votes_against
    <3>1. /\ i = id => g_proposals'[i] = G!Counted(g_proposals[i], support, power)
          /\ i # id => g_proposals'[i] = g_proposals[i]
          /\ power \in Nat /\ power > 0 /\ g_proposals[id].status = "Active"
      BY <2>1 DEF VoteTaken
    <3>2. g_proposals[i] \in G!Proposal
      BY DEF G!TypeOK
    <3>3. i # id
      BY <2>5, <3>1, <3>2, GovernanceCounted
    <3> QED BY <2>5, <3>1, <3>3 DEF VotesInv, G!SucceededHasMajority
  <2>6. DOMAIN g_proposals' = DOMAIN g_proposals
    BY <2>1 DEF VoteTaken
  <2> QED BY <2>2, <2>3, <2>4, <2>5, <2>6 DEF VotesInv, G!SucceededHasMajority
<1>3. ASSUME NEW id \in G!Ids, NEW status \in G!Statuses, Restated(id, status) PROVE VotesInv'
  <2>1. /\ DOMAIN g_proposals' = DOMAIN g_proposals /\ UNCHANGED g_votes
        /\ \A i \in DOMAIN g_proposals :
              /\ i # id => g_proposals'[i] = g_proposals[i]
              /\ g_proposals'[i].votes_for = g_proposals[i].votes_for
              /\ g_proposals'[i].votes_against = g_proposals[i].votes_against
              /\ g_proposals'[i].total_voting_power = g_proposals[i].total_voting_power
        /\ g_proposals'[id].status = status
    BY <1>3, RestatedKeeps DEF Restated
  <2>2. \A i \in DOMAIN g_proposals : TallyOf(i)'
    BY <2>1 DEF VotesInv, TallyOf
  <2>3. status \in {"Succeeded", "Executed"} =>
          g_proposals[id].votes_for > g_proposals[id].votes_against
    BY <1>3 DEF Restated, G!has_proposal_passed
  <2>4. G!SucceededHasMajority'
    <3> SUFFICES ASSUME NEW i \in DOMAIN g_proposals, g_proposals'[i].status \in {"Succeeded", "Executed"}
                 PROVE  g_proposals[i].votes_for > g_proposals[i].votes_against
      BY <2>1 DEF G!SucceededHasMajority
    <3>1. CASE i = id
      BY <2>1, <2>3, <3>1
    <3>2. CASE i # id
      BY <2>1, <3>2 DEF VotesInv, G!SucceededHasMajority
    <3> QED BY <3>1, <3>2
  <2> QED BY <2>1, <2>2, <2>4 DEF VotesInv
<1>4. CASE UNCHANGED <<g_proposals, g_votes>>
  BY <1>4 DEF VotesInv, TallyOf, G!SucceededHasMajority
<1> QED BY <1>1, <1>2, <1>3, <1>4, GovernanceSteps

LEMMA VotesInit == G!Init => VotesInv
<1> SUFFICES ASSUME G!Init PROVE VotesInv OBVIOUS
<1>1. DOMAIN g_votes = {} /\ DOMAIN g_proposals = {}
  BY DEF G!Init, G!EmptyMap
<1> QED BY <1>1, GovernanceTypeInit, FS_EmptySet DEF VotesInv, G!SucceededHasMajority

-----------------------------------------------------------------------------
(* The vote entries GovernanceV2 keeps, and its tallies.                    *)

Kept(id) == {v \in voted : v[2] = id}

KeptCounted(id) ==
  BALANCE * Cardinality(Kept(id)) <= proposals[id].votes_for + proposals[id].votes_against

LEMMA KeptFinite ==
  ASSUME TypeOK, NEW id
  PROVE  IsFiniteSet(Kept(id)) /\ Cardinality(Kept(id)) \in Nat
<1>1. IsFiniteSet(1 .. next_proposal_id - 1)
  BY FS_Interval DEF TypeOK
<1>2. IsFiniteSet(Addresses \X (1 .. next_proposal_id - 1))
  BY <1>1, FS_Product
<1>3. IsFiniteSet(Kept(id))
  BY <1>2, FS_Subset DEF TypeOK, Kept
<1> QED BY <1>3, FS_CardinalityType

LEMMA CountedAdds ==
  ASSUME NEW p \in GovernanceProposal, NEW support \in BOOLEAN
  PROVE  Counted(p, support).votes_for + Counted(p, support).votes_against
           = p.votes_for + p.votes_against + BALANCE
<1>1. p.votes_for \in Nat /\ p.votes_against \in Nat /\ BALANCE \in Nat
  BY DEF GovernanceProposal
<1>2. PICK q : q = Counted(p, support)
  OBVIOUS
<1>3. CASE support
  <2>1. q.votes_for = p.votes_for + BALANCE /\ q.votes_against = p.votes_against
    BY <1>2, <1>3 DEF Counted, GovernanceProposal
  <2> QED BY <1>1, <1>2, <2>1
<1>4. CASE ~support
  <2>1. q.votes_for = p.votes_for /\ q.votes_against = p.votes_against + BALANCE
    BY <1>2, <1>4 DEF Counted, GovernanceProposal
  <2> QED BY <1>1, <1>2, <2>1
<1> QED BY <1>3, <1>4

LEMMA Products ==
  ASSUME NEW b \in Nat, NEW c \in Nat, NEW d \in Nat
  PROVE  b * (c + 1) = b * c + b /\ (c <= d => b * c <= b * d) /\ b * c \in Nat /\ b * 0 = 0
<1>1. b * (c + 1) = b * c + b /\ b * c \in Nat /\ b * 0 = 0
  OBVIOUS
<1>2. ASSUME c <= d PROVE b * c <= b * d
  <2>1. PICK e \in Nat : d = c + e
    BY <1>2
  <2>2. b * d = b * c + b * e /\ b * e \in Nat
    BY <2>1
  <2> QED BY <1>1, <2>2
<1> QED BY <1>1, <1>2

LEMMA KeptStep == TypeOK /\ KeptVotesAreCounted /\ [Next]_vars => KeptVotesAreCounted'
<1> SUFFICES ASSUME TypeOK, KeptVotesAreCounted, [Next]_vars,
                    NEW id \in DOMAIN proposals'
             PROVE  KeptCounted(id)'
  BY DEF KeptVotesAreCounted, KeptCounted, Kept
<1>0. BALANCE \in Nat /\ TypeOK'
  BY TypeStep
<1>1. \A i \in DOMAIN proposals :
        KeptCounted(i) /\ proposals[i].votes_for \in Nat /\ proposals[i].votes_against \in Nat
  BY DEF KeptVotesAreCounted, KeptCounted, Kept, TypeOK, GovernanceProposal
<1>2. ASSUME NEW a \in Addresses, create_proposal(a) PROVE KeptCounted(id)'
  <2>1. /\ next_proposal_id \in 1 .. MaxProposals /\ UNCHANGED voted
        /\ DOMAIN proposals = 1 .. next_proposal_id - 1 /\ DOMAIN proposals' = 1 .. next_proposal_id
        /\ \A i \in 1 .. next_proposal_id - 1 : proposals'[i] = proposals[i]
        /\ proposals'[next_proposal_id].votes_for = 0
        /\ proposals'[next_proposal_id].votes_against = 0
    BY <1>2, NewProposal DEF create_proposal
  <2>2. CASE id = next_proposal_id
    <3>1. Kept(id)' = {}
      BY <2>1, <2>2 DEF Kept, TypeOK
    <3>2. Cardinality(Kept(id)') = 0
      BY <3>1, FS_EmptySet
    <3>3. BALANCE * 0 = 0
      BY <1>0, Products
    <3> QED BY <2>1, <2>2, <3>2, <3>3 DEF KeptCounted
  <2>3. CASE id # next_proposal_id
    <3>1. id \in DOMAIN proposals /\ proposals'[id] = proposals[id]
      BY <2>1, <2>3
    <3> QED BY <1>1, <2>1, <3>1 DEF KeptCounted, Kept
  <2> QED BY <2>2, <2>3
<1>3. ASSUME NEW a \in Addresses, NEW i \in Ids, NEW support \in BOOLEAN, vote(a, i, support)
      PROVE  KeptCounted(id)'
  <2>1. /\ i \in DOMAIN proposals /\ DOMAIN proposals' = DOMAIN proposals
        /\ id = i => proposals'[id] = Counted(proposals[id], support)
        /\ id # i => proposals'[id] = proposals[id]
        /\ voted' = voted \cup {<<a, i>>} /\ <<a, i>> \notin voted
    BY <1>3 DEF vote, TypeOK
  <2>2. CASE id = i
    <3>1. Kept(id)' = Kept(id) \cup {<<a, i>>} /\ <<a, i>> \notin Kept(id)
      BY <2>1, <2>2 DEF Kept
    <3>2. PICK c \in Nat : c = Cardinality(Kept(id))
      BY KeptFinite
    <3>3. Cardinality(Kept(id)') = c + 1
      BY <3>1, <3>2, KeptFinite, FS_AddElement
    <3>4. proposals[id] \in GovernanceProposal
      BY <2>1 DEF TypeOK
    <3>5. proposals'[id].votes_for + proposals'[id].votes_against
            = proposals[id].votes_for + proposals[id].votes_against + BALANCE
      BY <2>1, <2>2, <3>4, CountedAdds
    <3>6. BALANCE * c <= proposals[id].votes_for + proposals[id].votes_against
      BY <1>1, <2>1, <3>2 DEF KeptCounted
    <3>7. BALANCE * (c + 1) = BALANCE * c + BALANCE /\ BALANCE * c \in Nat
      BY <1>0, Products
    <3>8. PICK t \in Nat : t = proposals[id].votes_for + proposals[id].votes_against
      BY <3>4 DEF GovernanceProposal
    <3>9. BALANCE * (c + 1) <= t + BALANCE
      BY <1>0, <3>6, <3>7, <3>8
    <3> QED BY <3>3, <3>5, <3>8, <3>9 DEF KeptCounted
  <2>3. CASE id # i
    <3>1. Kept(id)' = Kept(id)
      BY <2>1, <2>3 DEF Kept
    <3> QED BY <1>1, <2>1, <2>3, <3>1 DEF KeptCounted
  <2> QED BY <2>2, <2>3
<1>4. ASSUME NEW i \in Ids, execute_proposal(i) PROVE KeptCounted(id)'
  <2>1. /\ id \in DOMAIN proposals /\ UNCHANGED voted
        /\ proposals'[id] = IF id = i THEN [proposals[id] EXCEPT !.executed = TRUE] ELSE proposals[id]
    BY <1>4 DEF execute_proposal, TypeOK
  <2>2. proposals[id] \in GovernanceProposal
    BY <2>1 DEF TypeOK
  <2>3. /\ proposals'[id].votes_for = proposals[id].votes_for
        /\ proposals'[id].votes_against = proposals[id].votes_against
    BY <2>1, <2>2 DEF GovernanceProposal
  <2> QED BY <1>1, <2>1, <2>3 DEF KeptCounted, Kept
<1>5. CASE VoteEntryExpires
  <2>1. voted' \subseteq voted /\ UNCHANGED proposals
    BY <1>5 DEF VoteEntryExpires
  <2>2. Kept(id)' \subseteq Kept(id)
    BY <2>1 DEF Kept
  <2>3. PICK c, d \in Nat : c = Cardinality(Kept(id)') /\ d = Cardinality(Kept(id)) /\ c <= d
    BY <2>2, KeptFinite, FS_Subset, FS_CardinalityType
  <2>4. BALANCE * c <= BALANCE * d /\ BALANCE * c \in Nat /\ BALANCE * d \in Nat
    BY <1>0, <2>3, Products
  <2>5. /\ BALANCE * d <= proposals[id].votes_for + proposals[id].votes_against
        /\ proposals[id].votes_for \in Nat /\ proposals[id].votes_against \in Nat
    BY <1>1, <2>1, <2>3 DEF KeptCounted
  <2> QED BY <2>1, <2>3, <2>4, <2>5 DEF KeptCounted
<1>6. CASE UNCHANGED <<proposals, voted>>
  BY <1>1, <1>6 DEF KeptCounted, Kept
<1>7. \/ \E a \in Addresses : create_proposal(a)
      \/ \E a \in Addresses, i \in Ids, support \in BOOLEAN : vote(a, i, support)
      \/ \E i \in Ids : execute_proposal(i)
      \/ VoteEntryExpires
      \/ UNCHANGED <<proposals, voted>>
  BY DEF Next, vars, delegate, update_params, SetPaused, Tick
<1> QED BY <1>2, <1>3, <1>4, <1>5, <1>6, <1>7

(* The votes recorded voter by voter add up to the tallies of Governance, a  *)
(* result never lacks its majority, and in GovernanceV2 whoever is kept from *)
(* voting again has been counted, however vote entries expire.              *)
THEOREM GovernanceVotesDecide == MCSpec => []VotesDecide
<1>1. VotesInv => G!VotesDecide
  BY TallyIsSum DEF VotesInv, G!VotesDecide
<1>2. G!Spec => []VotesInv
  BY VotesInit, VotesStep, PTL DEF G!Spec
<1>3. initialize => KeptVotesAreCounted
  BY DEF initialize, KeptVotesAreCounted, EmptyMap
<1>4. Spec => []KeptVotesAreCounted
  BY <1>3, GovernanceTypeCorrect, KeptStep, PTL DEF Spec
<1>5. G!VotesDecide /\ KeptVotesAreCounted => VotesDecide
  BY DEF VotesDecide
<1> QED BY <1>1, <1>2, <1>4, <1>5, SpecOfEach, PTL

-----------------------------------------------------------------------------
(* The refinement of Ballot by Governance, whose proposals may be rejected. *)

(* A step that changes proposal id only shows in Ballot at id only.         *)
LEMMA GovernanceOneChange ==
  ASSUME NEW id \in G!Ids,
         \A i \in G!Ids \ {id} :
           /\ i \in DOMAIN g_proposals' <=> i \in DOMAIN g_proposals
           /\ i \in DOMAIN g_proposals => g_proposals'[i] = g_proposals[i]
  PROVE  /\ G!Phases' = [G!Phases EXCEPT ![id] = G!PhaseOf(id)']
         /\ G!VotesFor' = [G!VotesFor EXCEPT ![id] = G!VotesFor'[id]]
         /\ G!VotesAgainst' = [G!VotesAgainst EXCEPT ![id] = G!VotesAgainst'[id]]
<1>1. \A i \in G!Ids \ {id} : G!PhaseOf(i)' = G!PhaseOf(i)
  BY DEF G!PhaseOf
<1>2. G!Phases' = [G!Phases EXCEPT ![id] = G!PhaseOf(id)']
  BY <1>1 DEF G!Phases
<1>3. G!VotesFor' = [G!VotesFor EXCEPT ![id] = G!VotesFor'[id]]
  BY DEF G!VotesFor
<1>4. G!VotesAgainst' = [G!VotesAgainst EXCEPT ![id] = G!VotesAgainst'[id]]
  BY DEF G!VotesAgainst
<1> QED BY <1>2, <1>3, <1>4

LEMMA GovernanceRefinementInit == G!Init => G!Promise!BallotInit
BY DEF G!Init, G!EmptyMap, G!PhaseOf, G!Phases, G!VotesFor, G!VotesAgainst, G!Promise!BallotInit

LEMMA GovernanceOpens ==
  ASSUME G!TypeOK, Started
  PROVE  G!Promise!BallotNext
<1>1. PICK id : id = g_next_proposal_id
  OBVIOUS
<1>2. /\ id \in 1 .. g_MaxProposals
      /\ DOMAIN g_proposals = 1 .. id - 1 /\ DOMAIN g_proposals' = 1 .. id
      /\ \A i \in 1 .. id - 1 : g_proposals'[i] = g_proposals[i]
      /\ g_proposals'[id].votes_for = 0 /\ g_proposals'[id].votes_against = 0
      /\ g_proposals'[id].status = "Active"
  <2>1. PICK a \in Addresses, delisting \in Delistings, t \in Nat : G!Create(a, delisting, t)
    BY DEF Started
  <2> QED BY <1>1, <2>1, GovernanceNew
<1>3. id \in G!Ids /\ id \notin DOMAIN g_proposals /\ id \in DOMAIN g_proposals'
  BY <1>2 DEF G!Ids
<1>4. \A i \in G!Ids \ {id} :
        /\ i \in DOMAIN g_proposals' <=> i \in DOMAIN g_proposals
        /\ i \in DOMAIN g_proposals => g_proposals'[i] = g_proposals[i]
  BY <1>2 DEF G!Ids
<1>5. /\ G!Phases' = [G!Phases EXCEPT ![id] = G!PhaseOf(id)']
      /\ G!VotesFor' = [G!VotesFor EXCEPT ![id] = G!VotesFor'[id]]
      /\ G!VotesAgainst' = [G!VotesAgainst EXCEPT ![id] = G!VotesAgainst'[id]]
  BY <1>3, <1>4, GovernanceOneChange
<1>6. G!Phases[id] = "none" /\ G!PhaseOf(id)' = "open"
  BY <1>2, <1>3 DEF G!Phases, G!PhaseOf
<1>7. G!VotesFor'[id] = G!VotesFor[id] /\ G!VotesAgainst'[id] = G!VotesAgainst[id]
  BY <1>2, <1>3 DEF G!VotesFor, G!VotesAgainst
<1>8. G!VotesFor' = G!VotesFor /\ G!VotesAgainst' = G!VotesAgainst
  BY <1>3, <1>5, <1>7 DEF G!VotesFor, G!VotesAgainst
<1>9. G!Promise!Open(id)
  BY <1>5, <1>6, <1>8 DEF G!Promise!Open
<1> QED BY <1>3, <1>9 DEF G!Promise!BallotNext

LEMMA GovernanceCasts ==
  ASSUME G!TypeOK, NEW a \in Addresses, NEW id \in G!Ids, NEW support \in BOOLEAN,
         NEW power \in g_Powers, VoteTaken(a, id, support, power)
  PROVE  G!Promise!Cast(id)
<1>1. /\ id \in DOMAIN g_proposals /\ g_proposals[id] \in G!Proposal
      /\ g_proposals[id].status = "Active" /\ power \in Nat /\ power > 0
      /\ DOMAIN g_proposals' = DOMAIN g_proposals
      /\ g_proposals'[id] = G!Counted(g_proposals[id], support, power)
      /\ \A i \in G!Ids \ {id} : i \in DOMAIN g_proposals => g_proposals'[i] = g_proposals[i]
  BY DEF VoteTaken, G!TypeOK
<1>2. /\ G!Phases' = [G!Phases EXCEPT ![id] = G!PhaseOf(id)']
      /\ G!VotesFor' = [G!VotesFor EXCEPT ![id] = G!VotesFor'[id]]
      /\ G!VotesAgainst' = [G!VotesAgainst EXCEPT ![id] = G!VotesAgainst'[id]]
  BY <1>1, GovernanceOneChange
<1>3. /\ g_proposals'[id].status = "Active"
      /\ \/ /\ g_proposals'[id].votes_for > g_proposals[id].votes_for
            /\ g_proposals'[id].votes_against = g_proposals[id].votes_against
         \/ /\ g_proposals'[id].votes_for = g_proposals[id].votes_for
            /\ g_proposals'[id].votes_against > g_proposals[id].votes_against
  BY <1>1, GovernanceCounted
<1>4. G!Phases[id] = "open" /\ G!PhaseOf(id)' = "open"
  BY <1>1, <1>3 DEF G!Phases, G!PhaseOf
<1>5. G!Phases' = G!Phases
  BY <1>2, <1>4 DEF G!Phases
<1>6. /\ G!VotesFor[id] = g_proposals[id].votes_for
      /\ G!VotesFor'[id] = g_proposals'[id].votes_for
      /\ G!VotesAgainst[id] = g_proposals[id].votes_against
      /\ G!VotesAgainst'[id] = g_proposals'[id].votes_against
  BY <1>1 DEF G!VotesFor, G!VotesAgainst
<1>7. CASE /\ g_proposals'[id].votes_for > g_proposals[id].votes_for
           /\ g_proposals'[id].votes_against = g_proposals[id].votes_against
  <2>1. G!VotesAgainst' = G!VotesAgainst
    BY <1>2, <1>6, <1>7 DEF G!VotesAgainst
  <2> QED BY <1>2, <1>4, <1>5, <1>6, <1>7, <2>1 DEF G!Promise!Cast, G!Promise!Grows
<1>8. CASE /\ g_proposals'[id].votes_for = g_proposals[id].votes_for
           /\ g_proposals'[id].votes_against > g_proposals[id].votes_against
  <2>1. G!VotesFor' = G!VotesFor
    BY <1>2, <1>6, <1>8 DEF G!VotesFor
  <2> QED BY <1>2, <1>4, <1>5, <1>6, <1>8, <2>1 DEF G!Promise!Cast, G!Promise!Grows
<1> QED BY <1>3, <1>7, <1>8

(* What execute_proposal and cancel_proposal do is an execution, a rejection *)
(* or, for Ballot, nothing.                                                 *)
LEMMA GovernanceDecides ==
  ASSUME G!TypeOK, NEW id \in G!Ids, NEW status \in G!Statuses, Restated(id, status)
  PROVE  G!Promise!BallotNext \/ UNCHANGED G!Promise!ballotVars
<1>1. /\ id \in DOMAIN g_proposals /\ g_proposals[id] \in G!Proposal
      /\ DOMAIN g_proposals' = DOMAIN g_proposals
      /\ g_proposals'[id].status = status
      /\ g_proposals'[id].votes_for = g_proposals[id].votes_for
      /\ g_proposals'[id].votes_against = g_proposals[id].votes_against
      /\ \A i \in G!Ids \ {id} : i \in DOMAIN g_proposals => g_proposals'[i] = g_proposals[i]
  BY RestatedKeeps DEF Restated, G!TypeOK
<1>2. /\ G!Phases' = [G!Phases EXCEPT ![id] = G!PhaseOf(id)']
      /\ G!VotesFor' = [G!VotesFor EXCEPT ![id] = G!VotesFor'[id]]
      /\ G!VotesAgainst' = [G!VotesAgainst EXCEPT ![id] = G!VotesAgainst'[id]]
  BY <1>1, GovernanceOneChange
<1>3. G!VotesFor'[id] = G!VotesFor[id] /\ G!VotesAgainst'[id] = G!VotesAgainst[id]
  BY <1>1 DEF G!VotesFor, G!VotesAgainst
<1>4. G!VotesFor' = G!VotesFor /\ G!VotesAgainst' = G!VotesAgainst
  BY <1>2, <1>3 DEF G!VotesFor, G!VotesAgainst
<1>5. /\ G!Phases[id] = G!PhaseOf(id)
      /\ G!VotesFor[id] = g_proposals[id].votes_for
      /\ G!VotesAgainst[id] = g_proposals[id].votes_against
  BY <1>1 DEF G!Phases, G!VotesFor, G!VotesAgainst
<1>6. CASE G!PhaseOf(id)' = G!PhaseOf(id)
  <2>1. G!Phases' = G!Phases
    BY <1>2, <1>5, <1>6 DEF G!Phases
  <2> QED BY <1>4, <2>1 DEF G!Promise!ballotVars
<1>7. CASE G!PhaseOf(id)' # G!PhaseOf(id)
  <2>1. /\ G!PhaseOf(id)' = CASE status \in {"Active", "Succeeded"} -> "open"
                              [] status = "Executed" -> "executed"
                              [] OTHER -> "rejected"
        /\ g_proposals[id].status \in {"Active", "Succeeded"} => G!PhaseOf(id) = "open"
        /\ g_proposals[id].status \in {"Defeated", "Cancelled"} => G!PhaseOf(id) = "rejected"
    BY <1>1 DEF G!PhaseOf
  <2>2. g_proposals[id].status \in G!Statuses
    BY <1>1 DEF G!Proposal
  <2>3. CASE status = "Cancelled"
    <3>1. G!PhaseOf(id)' = "rejected"
      BY <2>1, <2>3
    <3>2. g_proposals[id].status \in {"Active", "Succeeded", "Defeated", "Cancelled"}
      BY <2>2, <2>3 DEF Restated, G!Statuses
    <3>3. G!PhaseOf(id) = "open"
      BY <1>7, <2>1, <3>1, <3>2
    <3>4. G!Promise!Reject(id)
      BY <1>2, <1>4, <1>5, <3>1, <3>3 DEF G!Promise!Reject
    <3> QED BY <3>4 DEF G!Promise!BallotNext
  <2>4. CASE status # "Cancelled"
    <3>1. /\ g_proposals[id].status \in {"Active", "Succeeded"}
          /\ status \in {"Defeated", "Succeeded", "Executed"}
          /\ status # "Defeated" => g_proposals[id].votes_for > g_proposals[id].votes_against
      BY <2>4 DEF Restated, G!has_proposal_passed
    <3>2. G!PhaseOf(id) = "open"
      BY <2>1, <3>1
    <3>3. CASE status = "Defeated"
      <4>1. G!PhaseOf(id)' = "rejected"
        BY <2>1, <3>3
      <4>2. G!Promise!Reject(id)
        BY <1>2, <1>4, <1>5, <3>2, <4>1 DEF G!Promise!Reject
      <4> QED BY <4>2 DEF G!Promise!BallotNext
    <3>4. CASE status = "Executed"
      <4>1. G!PhaseOf(id)' = "executed"
        BY <2>1, <3>4
      <4>2. G!Promise!Execute(id)
        BY <1>2, <1>4, <1>5, <3>1, <3>2, <3>4, <4>1 DEF G!Promise!Execute
      <4> QED BY <4>2 DEF G!Promise!BallotNext
    <3>5. status # "Succeeded"
      BY <1>7, <2>1, <3>2
    <3> QED BY <3>1, <3>3, <3>4, <3>5
  <2> QED BY <2>3, <2>4
<1> QED BY <1>6, <1>7

LEMMA GovernanceRefinementStep ==
  G!TypeOK /\ [G!Next]_(G!vars) => [G!Promise!BallotNext]_(G!Promise!ballotVars)
<1> SUFFICES ASSUME G!TypeOK, [G!Next]_(G!vars)
             PROVE  [G!Promise!BallotNext]_(G!Promise!ballotVars)
  OBVIOUS
<1>1. CASE Started
  BY <1>1, GovernanceOpens
<1>2. ASSUME NEW a \in Addresses, NEW id \in G!Ids, NEW support \in BOOLEAN, NEW power \in g_Powers,
             G!vote(a, id, support, power)
      PROVE  G!Promise!BallotNext
  BY <1>2, VoteKeeps, GovernanceCasts DEF G!Promise!BallotNext
<1>3. ASSUME NEW id \in G!Ids, NEW status \in G!Statuses, Restated(id, status)
      PROVE  G!Promise!BallotNext \/ UNCHANGED G!Promise!ballotVars
  BY <1>3, GovernanceDecides
<1>4. ASSUME UNCHANGED g_proposals PROVE UNCHANGED G!Promise!ballotVars
  BY <1>4 DEF G!Phases, G!PhaseOf, G!VotesFor, G!VotesAgainst, G!Promise!ballotVars
<1> QED BY <1>1, <1>2, <1>3, <1>4, GovernanceSteps

(* Governance and SyntheticGovernance keep what Ballot promises, too: votes  *)
(* before the decision, one decision, execution by a majority only.         *)
THEOREM OthersKeepBallot == MCSpec => OthersImplementBallot
<1>1. G!Spec => G!ImplementsBallot
  BY GovernanceTypes, GovernanceRefinementInit, GovernanceRefinementStep, PTL
  DEF G!Spec, G!ImplementsBallot, G!Promise!BallotSpec
<1> QED BY <1>1, SyntheticImplementsBallot, SpecOfEach DEF OthersImplementBallot
=============================================================================
