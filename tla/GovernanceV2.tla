---------------------------- MODULE GovernanceV2 ----------------------------
(***************************************************************************)
(* GovernanceContractV2 of governance_v2.rs: votes until a deadline of the *)
(* ledger's clock, execution after a delay, delegation. Every call that    *)
(* fails panics, and is rolled back.                                       *)
(***************************************************************************)
EXTENDS Maps, Integers, FiniteSets

CONSTANTS
  Addresses,
  BALANCE,                   \* the mocked balance of every address: 1_000_000
  TOTAL_SUPPLY,              \* mocked: 100_000_000_000
  BPS,                       \* 10_000 in the code
  DEFAULT_VOTING_PERIOD, MIN_VOTING_PERIOD, MAX_VOTING_PERIOD,
  DEFAULT_QUORUM_BPS, MIN_QUORUM_BPS, MAX_QUORUM_BPS,
  EXECUTION_DELAY,
  MIN_PROPOSAL_THRESHOLD_BPS,
  AdminIsContract,           \* the administrator is the contract itself: the one require_admin accepts
  Params,                    \* what update_params is called with
  MaxTime, MaxProposals, MaxVotes   \* bound the clock, the proposals, the votes on each

GovernanceParams ==
  [voting_period : Nat, quorum_bps : Nat, proposal_threshold_bps : Nat, execution_delay : Nat]

ASSUME GovernanceV2Assumption ==
  /\ IsFiniteSet(Addresses)
  /\ BALANCE \in Nat \ {0}
  /\ TOTAL_SUPPLY \in Nat
  /\ BPS \in Nat \ {0}
  /\ MIN_VOTING_PERIOD \in Nat /\ MAX_VOTING_PERIOD \in Nat
  /\ DEFAULT_VOTING_PERIOD \in MIN_VOTING_PERIOD .. MAX_VOTING_PERIOD
  /\ MIN_QUORUM_BPS \in Nat /\ MAX_QUORUM_BPS \in Nat
  /\ DEFAULT_QUORUM_BPS \in MIN_QUORUM_BPS .. MAX_QUORUM_BPS
  /\ EXECUTION_DELAY \in Nat
  /\ MIN_PROPOSAL_THRESHOLD_BPS \in Nat
  /\ AdminIsContract \in BOOLEAN
  /\ Params \subseteq GovernanceParams
  /\ MaxTime \in Nat
  /\ MaxProposals \in Nat
  /\ MaxVotes \in Nat

VARIABLES
  now,                       \* the ledger's clock
  paused,
  params,
  proposals,                 \* id -> GovernanceProposal
  voted,                     \* the <<voter, id>> of the votes kept in temporary storage
  delegations,               \* delegator -> delegate
  next_proposal_id

vars == <<now, paused, params, proposals, voted, delegations, next_proposal_id>>

Ids == 1 .. MaxProposals

GovernanceProposal ==
  [proposer : Addresses, created_at : Nat, voting_deadline : Nat,
   votes_for : Nat, votes_against : Nat, executed : BOOLEAN]

initialize ==
  /\ now = 0
  /\ paused = FALSE
  /\ params = [voting_period |-> DEFAULT_VOTING_PERIOD,
               quorum_bps |-> DEFAULT_QUORUM_BPS,
               proposal_threshold_bps |-> MIN_PROPOSAL_THRESHOLD_BPS,
               execution_delay |-> EXECUTION_DELAY]
  /\ proposals = EmptyMap
  /\ voted = {}
  /\ delegations = EmptyMap
  /\ next_proposal_id = 1

-----------------------------------------------------------------------------

require_admin == AdminIsContract

\* Mutant: the pause is not asked for.
IgnorePause == TRUE

require_not_paused == ~paused

\* The address n delegations away from a.
Delegate(a, n) ==
  LET d[i \in Nat] == IF i = 0 THEN a ELSE GetOr(delegations, d[i - 1], d[i - 1])
  IN  d[n]

\* get_voting_power follows delegations to an address that did not delegate; it does not
\* return, and the call that needs it fails, if they lead round in a circle.
HasVotingPower(a) == Delegate(a, Cardinality(Addresses)) \notin DOMAIN delegations

get_voting_power(a) == BALANCE

create_proposal(proposer) ==
  /\ require_not_paused
  /\ HasVotingPower(proposer)
  /\ get_voting_power(proposer) >= (TOTAL_SUPPLY * params.proposal_threshold_bps) \div BPS
  /\ next_proposal_id <= MaxProposals
  /\ next_proposal_id' = next_proposal_id + 1
  /\ proposals' = Put(proposals, next_proposal_id,
       [proposer |-> proposer, created_at |-> now,
        voting_deadline |-> now + params.voting_period,
        votes_for |-> 0, votes_against |-> 0, executed |-> FALSE])
  /\ UNCHANGED <<now, paused, params, voted, delegations>>

VotingOpen(id) == now <= proposals[id].voting_deadline

\* Mutant: votes against are not counted.
CountedWhenFor(p, support) ==
  IF support THEN [p EXCEPT !.votes_for = @ + BALANCE] ELSE p

Counted(p, support) ==
  IF support THEN [p EXCEPT !.votes_for = @ + BALANCE]
             ELSE [p EXCEPT !.votes_against = @ + BALANCE]

vote(voter, id, support) ==
  /\ require_not_paused
  /\ id \in DOMAIN proposals
  /\ ~proposals[id].executed
  /\ VotingOpen(id)
  /\ <<voter, id>> \notin voted
  /\ HasVotingPower(voter)
  /\ proposals[id].votes_for + proposals[id].votes_against < MaxVotes * BALANCE
  /\ voted' = voted \cup {<<voter, id>>}
  /\ proposals' = [proposals EXCEPT ![id] = Counted(@, support)]
  /\ UNCHANGED <<now, paused, params, delegations, next_proposal_id>>

Quorum == (TOTAL_SUPPLY * params.quorum_bps) \div BPS

\* Mutant: turnout is enough, whichever way it went.
TurnoutSuffices(p) == p.votes_for + p.votes_against >= Quorum

Passed(p) ==
  /\ p.votes_for + p.votes_against >= Quorum
  /\ p.votes_for > p.votes_against

\* Mutant: the delay is counted from the creation and stands for the deadline too.
DelayedFromCreation(p) == now >= p.created_at + params.execution_delay

Executable(p) ==
  /\ now > p.voting_deadline
  /\ now >= p.voting_deadline + params.execution_delay

execute_proposal(id) ==
  /\ require_not_paused
  /\ id \in DOMAIN proposals
  /\ ~proposals[id].executed
  /\ Passed(proposals[id])
  /\ Executable(proposals[id])
  /\ proposals' = [proposals EXCEPT ![id].executed = TRUE]
  /\ UNCHANGED <<now, paused, params, voted, delegations, next_proposal_id>>

delegate(delegator, delegatee) ==
  /\ require_not_paused
  /\ delegator # delegatee
  /\ delegations' = Put(delegations, delegator, delegatee)
  /\ UNCHANGED <<now, paused, params, proposals, voted, next_proposal_id>>

\* Mutant: the voting period is taken as it comes.
UpdateUnchecked(new_params) ==
  /\ require_admin
  /\ params' = new_params
  /\ UNCHANGED <<now, paused, proposals, voted, delegations, next_proposal_id>>

update_params(new_params) ==
  /\ require_admin
  /\ new_params.voting_period \in MIN_VOTING_PERIOD .. MAX_VOTING_PERIOD
  /\ new_params.quorum_bps \in MIN_QUORUM_BPS .. MAX_QUORUM_BPS
  /\ params' = new_params
  /\ UNCHANGED <<now, paused, proposals, voted, delegations, next_proposal_id>>

SetPaused(on) ==             \* emergency_pause, unpause
  /\ require_admin
  /\ paused' = on
  /\ UNCHANGED <<now, params, proposals, voted, delegations, next_proposal_id>>

\* Temporary storage: the ledger drops an entry when its time to live is over.
VoteEntryExpires ==
  /\ \E v \in voted : voted' = voted \ {v}
  /\ UNCHANGED <<now, paused, params, proposals, delegations, next_proposal_id>>

Tick ==
  /\ now < MaxTime
  /\ now' = now + 1
  /\ UNCHANGED <<paused, params, proposals, voted, delegations, next_proposal_id>>

Next ==
  \/ \E a \in Addresses : create_proposal(a)
  \/ \E a \in Addresses, id \in Ids, support \in BOOLEAN : vote(a, id, support)
  \/ \E id \in Ids : execute_proposal(id)
  \/ \E a, b \in Addresses : delegate(a, b)
  \/ \E p \in Params : update_params(p)
  \/ \E on \in BOOLEAN : SetPaused(on)
  \/ VoteEntryExpires
  \/ Tick

Spec == initialize /\ [][Next]_vars

-----------------------------------------------------------------------------

(* Types: proposals are numbered in the order of creation, votes kept are   *)
(* for proposals that exist.                                                *)
TypeOK ==
  /\ now \in 0 .. MaxTime
  /\ paused \in BOOLEAN
  /\ params \in GovernanceParams
  /\ next_proposal_id \in 1 .. MaxProposals + 1
  /\ proposals \in [1 .. next_proposal_id - 1 -> GovernanceProposal]
  /\ voted \subseteq Addresses \X (1 .. next_proposal_id - 1)
  /\ IsMap(delegations, Addresses, Addresses)

PhaseOf(id) ==
  IF id \notin DOMAIN proposals THEN "none"
  ELSE IF proposals[id].executed THEN "executed" ELSE "open"

Phases == [id \in Ids |-> PhaseOf(id)]

VotesFor == [id \in Ids |-> IF id \in DOMAIN proposals THEN proposals[id].votes_for ELSE 0]

VotesAgainst ==
  [id \in Ids |-> IF id \in DOMAIN proposals THEN proposals[id].votes_against ELSE 0]

Promise == INSTANCE Ballot WITH
  phase <- Phases, votesFor <- VotesFor, votesAgainst <- VotesAgainst

(* Proposals live as Ballot says, though nothing is ever rejected: no vote  *)
(* after the execution, one execution, by a majority only.                  *)
ImplementsBallot == Promise!BallotSpec

(* Whoever is kept from voting again has been counted: the vote entries and *)
(* the tally, two separate stores, agree up to entries that expired.        *)
KeptVotesAreCounted ==
  \A id \in DOMAIN proposals :
    BALANCE * Cardinality({v \in voted : v[2] = id})
      <= proposals[id].votes_for + proposals[id].votes_against

(* The parameters may change while proposals are open; each proposal's      *)
(* voting time is still one the contract allows.                            *)
VotingTimesInRange ==
  \A id \in DOMAIN proposals :
    proposals[id].voting_deadline - proposals[id].created_at
      \in MIN_VOTING_PERIOD .. MAX_VOTING_PERIOD

(* No proposal takes effect while it can still be voted on, whatever        *)
(* happened to delays and periods since its creation.                       *)
ExecutedAfterVoting ==
  \A id \in DOMAIN proposals :
    proposals[id].executed => now > proposals[id].voting_deadline

(* The times of a proposal hold from its creation to its execution.         *)
TimesAreKept == VotingTimesInRange /\ ExecutedAfterVoting

(* While governance is paused nothing is proposed, voted, delegated or      *)
(* executed.                                                                *)
PauseFreezes ==
  [][paused => UNCHANGED <<proposals, delegations, next_proposal_id>>]_vars
=============================================================================
