------------------------- MODULE SyntheticGovernance -------------------------
(***************************************************************************)
(* SyntheticGovernanceContract of synthetic_governance.rs: as GovernanceV2,*)
(* but no vote is recorded, a fixed voting power is asked of proposers, and*)
(* an administrator may open an emergency proposal, paused or not, with an *)
(* hour of voting. A call that fails is rolled back;                       *)
(* create_multisig_requirement keeps nothing and is no step.               *)
(***************************************************************************)
EXTENDS Maps, Integers, FiniteSets

CONSTANTS
  Addresses, Admin,
  POWER,                     \* mocked voting power: 1_000_000
  TOTAL_SUPPLY,              \* mocked: 10_000_000_000
  BPS,
  DEFAULT_VOTING_PERIOD, MIN_VOTING_PERIOD, MAX_VOTING_PERIOD,
  EMERGENCY_VOTING_PERIOD,   \* an hour
  DEFAULT_QUORUM_BPS, MIN_QUORUM_BPS, MAX_QUORUM_BPS,
  EXECUTION_DELAY,
  MIN_POWER_TO_PROPOSE,      \* 1_000_000_000
  AdminIsContract,           \* require_admin accepts the contract itself only
  Params,                    \* what update_governance_params is called with
  MaxTime, MaxProposals, MaxVotes   \* bound the clock, the proposals, the votes on each

GovernanceParams ==
  [voting_period : Nat, quorum_bps : Nat, execution_delay : Nat,
   min_voting_power_to_propose : Nat]

SyntheticGovernanceAssumption ==
  /\ IsFiniteSet(Addresses)
  /\ Admin \in Addresses
  /\ POWER \in Nat \ {0}
  /\ TOTAL_SUPPLY \in Nat
  /\ BPS \in Nat \ {0}
  /\ MIN_VOTING_PERIOD \in Nat /\ MAX_VOTING_PERIOD \in Nat
  /\ DEFAULT_VOTING_PERIOD \in MIN_VOTING_PERIOD .. MAX_VOTING_PERIOD
  /\ EMERGENCY_VOTING_PERIOD \in Nat
  /\ MIN_QUORUM_BPS \in Nat /\ MAX_QUORUM_BPS \in Nat
  /\ DEFAULT_QUORUM_BPS \in MIN_QUORUM_BPS .. MAX_QUORUM_BPS
  /\ EXECUTION_DELAY \in Nat
  /\ MIN_POWER_TO_PROPOSE \in Nat
  /\ AdminIsContract \in BOOLEAN
  /\ Params \subseteq GovernanceParams
  /\ MaxTime \in Nat
  /\ MaxProposals \in Nat
  /\ MaxVotes \in Nat

VARIABLES
  now, paused,
  gov_params,
  proposals,                 \* id -> AssetProposal
  delegations,
  next_proposal_id

vars == <<now, paused, gov_params, proposals, delegations, next_proposal_id>>

Ids == 1 .. MaxProposals

AssetProposal ==
  [proposer : Addresses, emergency : BOOLEAN, created_at : Nat, voting_deadline : Nat,
   votes_for : Nat, votes_against : Nat, executed : BOOLEAN]

initialize ==
  /\ now = 0
  /\ paused = FALSE
  /\ gov_params = [voting_period |-> DEFAULT_VOTING_PERIOD,
                   quorum_bps |-> DEFAULT_QUORUM_BPS,
                   execution_delay |-> EXECUTION_DELAY,
                   min_voting_power_to_propose |-> MIN_POWER_TO_PROPOSE]
  /\ proposals = EmptyMap
  /\ delegations = EmptyMap
  /\ next_proposal_id = 1

-----------------------------------------------------------------------------

require_admin == AdminIsContract

\* Mutant: the pause is not asked for.
IgnorePause == TRUE

require_not_paused == ~paused

\* The address n delegations away from a.
Delegate(a, n) ==
  LET d[i \in Nat] == IF i = 0 THEN a ELSE GetOr(delegations, d[i - 1], d[i - 1])
  IN  d[n]

\* get_voting_power does not return for an address whose delegations lead round in a circle.
HasVotingPower(a) == Delegate(a, Cardinality(Addresses)) \notin DOMAIN delegations

AddProposal(proposer, emergency, voting_period) ==
  /\ next_proposal_id <= MaxProposals
  /\ next_proposal_id' = next_proposal_id + 1
  /\ proposals' = Put(proposals, next_proposal_id,
       [proposer |-> proposer, emergency |-> emergency, created_at |-> now,
        voting_deadline |-> now + voting_period,
        votes_for |-> 0, votes_against |-> 0, executed |-> FALSE])
  /\ UNCHANGED <<now, paused, gov_params, delegations>>

create_proposal(proposer) ==
  /\ require_not_paused
  /\ HasVotingPower(proposer)
  /\ POWER >= gov_params.min_voting_power_to_propose
  /\ AddProposal(proposer, FALSE, gov_params.voting_period)

emergency_pause ==
  /\ require_admin
  /\ AddProposal(Admin, TRUE, EMERGENCY_VOTING_PERIOD)

VotingOpen(p) == ~p.executed /\ now <= p.voting_deadline

\* Mutant: a vote against is taken from the votes for.
SubtractedAgainst(p, support) ==
  [p EXCEPT !.votes_for = IF support THEN @ + POWER ELSE @ - POWER]

Counted(p, support) ==
  IF support THEN [p EXCEPT !.votes_for = @ + POWER]
             ELSE [p EXCEPT !.votes_against = @ + POWER]

\* has_voted is FALSE for everyone.
vote(voter, id, support) ==
  /\ require_not_paused
  /\ id \in DOMAIN proposals
  /\ VotingOpen(proposals[id])
  /\ HasVotingPower(voter)
  /\ proposals[id].votes_for + proposals[id].votes_against < MaxVotes * POWER
  /\ proposals' = [proposals EXCEPT ![id] = Counted(@, support)]
  /\ UNCHANGED <<now, paused, gov_params, delegations, next_proposal_id>>

Quorum == (TOTAL_SUPPLY * gov_params.quorum_bps) \div BPS

\* Mutant: turnout is enough, whichever way it went.
TurnoutSuffices(p) == p.votes_for + p.votes_against >= Quorum

Passed(p) ==
  /\ p.votes_for + p.votes_against >= Quorum
  /\ p.votes_for > p.votes_against

\* Mutant: the delay is counted from the creation and stands for the deadline too.
DelayedFromCreation(p) == now >= p.created_at + gov_params.execution_delay

Executable(p) ==
  /\ now > p.voting_deadline
  /\ now >= p.voting_deadline + gov_params.execution_delay

execute_proposal(id) ==
  /\ require_not_paused
  /\ id \in DOMAIN proposals
  /\ ~proposals[id].executed
  /\ Executable(proposals[id])
  /\ Passed(proposals[id])
  /\ proposals' = [proposals EXCEPT ![id].executed = TRUE]
  /\ UNCHANGED <<now, paused, gov_params, delegations, next_proposal_id>>

delegate(delegator, delegatee) ==
  /\ require_not_paused
  /\ delegator # delegatee
  /\ delegations' = Put(delegations, delegator, delegatee)
  /\ UNCHANGED <<now, paused, gov_params, proposals, next_proposal_id>>

update_governance_params(new_params) ==
  /\ require_admin
  /\ new_params.voting_period \in MIN_VOTING_PERIOD .. MAX_VOTING_PERIOD
  /\ new_params.quorum_bps \in MIN_QUORUM_BPS .. MAX_QUORUM_BPS
  /\ gov_params' = new_params
  /\ UNCHANGED <<now, paused, proposals, delegations, next_proposal_id>>

SetPaused(on) ==             \* pause, unpause
  /\ require_admin
  /\ paused' = on
  /\ UNCHANGED <<now, gov_params, proposals, delegations, next_proposal_id>>

Tick ==
  /\ now < MaxTime
  /\ now' = now + 1
  /\ UNCHANGED <<paused, gov_params, proposals, delegations, next_proposal_id>>

Next ==
  \/ \E a \in Addresses : create_proposal(a)
  \/ emergency_pause
  \/ \E a \in Addresses, id \in Ids, support \in BOOLEAN : vote(a, id, support)
  \/ \E id \in Ids : execute_proposal(id)
  \/ \E a, b \in Addresses : delegate(a, b)
  \/ \E p \in Params : update_governance_params(p)
  \/ \E on \in BOOLEAN : SetPaused(on)
  \/ Tick

Spec == initialize /\ [][Next]_vars

-----------------------------------------------------------------------------

(* Types: proposals are numbered in the order of creation.                  *)
TypeOK ==
  /\ now \in 0 .. MaxTime
  /\ paused \in BOOLEAN
  /\ gov_params \in GovernanceParams
  /\ next_proposal_id \in 1 .. MaxProposals + 1
  /\ proposals \in [1 .. next_proposal_id - 1 -> AssetProposal]
  /\ IsMap(delegations, Addresses, Addresses)

PhaseOf(id) ==
  IF id \notin DOMAIN proposals THEN "none"
  ELSE IF proposals[id].executed THEN "executed" ELSE "open"

Phases == [id \in Ids |-> PhaseOf(id)]

VotesFor == [id \in Ids |-> IF id \in DOMAIN proposals THEN proposals[id].votes_for ELSE 0]

VotesAgainst ==
  [id \in Ids |-> IF id \in DOMAIN proposals THEN proposals[id].votes_against ELSE 0]

Promise == INSTANCE Ballot WITH
  phase <- Phases, votesFor <- VotesFor, votesAgainst <- VotesAgainst

(* Proposals, emergency ones too, live as Ballot says: no vote after the    *)
(* execution, one execution, by a majority only.                            *)
ImplementsBallot == Promise!BallotSpec

(* No proposal takes effect while it can still be voted on, whatever        *)
(* happened to delays and periods since its creation.                       *)
ExecutedAfterVoting ==
  \A id \in DOMAIN proposals :
    proposals[id].executed => now > proposals[id].voting_deadline

(* Types and times agree, emergency proposals included.                     *)
Consistent == TypeOK /\ ExecutedAfterVoting

(* While governance is paused nothing is executed, voted or delegated, and  *)
(* the only proposals are the administrator's.                              *)
PauseFreezes ==
  [][paused =>
       /\ UNCHANGED delegations
       /\ \A id \in DOMAIN proposals : proposals'[id] = proposals[id]
       /\ \A id \in DOMAIN proposals' \ DOMAIN proposals : proposals'[id].emergency]_vars
=============================================================================
