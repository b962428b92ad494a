----------------------------- MODULE Governance -----------------------------
(***************************************************************************)
(* GovernanceContract of governance.rs: proposals with a voting deadline   *)
(* and an execution time. Callers give the time (now) and, when they vote, *)
(* their voting power; every call that fails is refused before it changes  *)
(* anything, except execute_proposal, which may settle a proposal and then *)
(* report an error.                                                        *)
(***************************************************************************)
EXTENDS Maps, Integers, Functions

CONSTANTS
  Addresses,
  Powers,                    \* the powers voters claim
  Times,                     \* the times callers give
  PROPOSAL_THRESHOLD,
  TOTAL_POSSIBLE_VOTES,      \* 10_000 in the code
  BPS,                       \* 10_000 in the code
  QUORUM, VOTING_PERIOD, EXECUTION_DELAY,   \* given to new()
  Quorums, Periods, Delays,  \* given to update_parameters
  Notices,                   \* notice periods of delisting proposals
  DEFAULT_NOTICE,            \* 7 days
  MaxProposals               \* bounds the proposals ever created

GovernanceAssumption ==
  /\ Powers \subseteq Nat
  /\ Times \subseteq Nat
  /\ PROPOSAL_THRESHOLD \in Nat
  /\ TOTAL_POSSIBLE_VOTES \in Nat
  /\ BPS \in Nat \ {0}
  /\ Quorums \cup {QUORUM} \subseteq Nat
  /\ Periods \cup {VOTING_PERIOD} \subseteq Nat
  /\ Delays \cup {EXECUTION_DELAY} \subseteq Nat
  /\ Notices \subseteq Nat
  /\ DEFAULT_NOTICE \in Nat \ {0}
  /\ MaxProposals \in Nat

VARIABLES
  proposals,                 \* id -> Proposal
  votes,                     \* <<id, voter>> -> voting power
  next_proposal_id,
  quorum_percentage, voting_period, execution_delay,
  called_at                  \* history: the time the last execution was given

paramVars == <<quorum_percentage, voting_period, execution_delay>>
vars == <<proposals, votes, next_proposal_id, paramVars, called_at>>

Ids == 1 .. MaxProposals

Statuses == {"Active", "Succeeded", "Executed", "Defeated", "Cancelled"}

NoDelisting == [notice_period |-> 0, delist_at |-> 0]

Proposal ==
  [proposer : Addresses, delisting : [notice_period : Nat, delist_at : Nat],
   votes_for : Nat, votes_against : Nat, total_voting_power : Nat,
   voting_deadline : Nat, execution_time : Nat, status : Statuses]

Init ==
  /\ proposals = EmptyMap
  /\ votes = EmptyMap
  /\ next_proposal_id = 1
  /\ quorum_percentage = QUORUM
  /\ voting_period = VOTING_PERIOD
  /\ execution_delay = EXECUTION_DELAY
  /\ called_at = 0

-----------------------------------------------------------------------------

get_voting_power(voter) == 0

\* Mutant: the counter is not advanced.
CreateUncounted(proposer, delisting, now) ==
  /\ get_voting_power(proposer) >= PROPOSAL_THRESHOLD
  /\ next_proposal_id <= MaxProposals
  /\ proposals' = Put(proposals, next_proposal_id,
       [proposer |-> proposer, delisting |-> delisting, votes_for |-> 0,
        votes_against |-> 0, total_voting_power |-> 0,
        voting_deadline |-> now + voting_period,
        execution_time |-> now + voting_period + execution_delay,
        status |-> "Active"])
  /\ UNCHANGED <<next_proposal_id, votes, paramVars, called_at>>

Create(proposer, delisting, now) ==
  /\ get_voting_power(proposer) >= PROPOSAL_THRESHOLD
  /\ next_proposal_id <= MaxProposals
  /\ next_proposal_id' = next_proposal_id + 1
  /\ proposals' = Put(proposals, next_proposal_id,
       [proposer |-> proposer, delisting |-> delisting, votes_for |-> 0,
        votes_against |-> 0, total_voting_power |-> 0,
        voting_deadline |-> now + voting_period,
        execution_time |-> now + voting_period + execution_delay,
        status |-> "Active"])
  /\ UNCHANGED <<votes, paramVars, called_at>>

create_proposal(proposer, now) == Create(proposer, NoDelisting, now)

create_delisting_proposal(proposer, notice_period, now) ==
  LET effective_notice == IF notice_period = 0 THEN DEFAULT_NOTICE ELSE notice_period
  IN  Create(proposer,
             [notice_period |-> effective_notice,
              delist_at |-> now + voting_period + execution_delay + effective_notice],
             now)

\* Mutant: votes are taken as long as the proposal is not executed.
NotExecutedYet(id) == id \in DOMAIN proposals /\ proposals[id].status # "Executed"

IsActive(id) == id \in DOMAIN proposals /\ proposals[id].status = "Active"

\* Mutant: a second vote replaces the first, and is counted too.
MayVoteAgain(id, voter) == TRUE

NotVoted(id, voter) == <<id, voter>> \notin DOMAIN votes

Counted(p, support, power) ==
  [p EXCEPT !.votes_for = IF support THEN @ + power ELSE @,
            !.votes_against = IF support THEN @ ELSE @ + power,
            !.total_voting_power = @ + power]

vote(voter, id, support, voting_power) ==
  /\ voting_power > 0
  /\ IsActive(id)
  /\ NotVoted(id, voter)
  /\ votes' = Put(votes, <<id, voter>>, voting_power)
  /\ proposals' = [proposals EXCEPT ![id] = Counted(@, support, voting_power)]
  /\ UNCHANGED <<next_proposal_id, paramVars, called_at>>

QuorumVotes == (TOTAL_POSSIBLE_VOTES * quorum_percentage) \div BPS

\* Mutant: a tie passes.
PassedOrTied(p) ==
  /\ p.total_voting_power >= QuorumVotes
  /\ p.votes_for >= p.votes_against

has_proposal_passed(p) ==
  /\ p.total_voting_power >= QuorumVotes
  /\ p.votes_for > p.votes_against

\* Mutant: the delay of the day, not the proposal's own.
SettledByCurrentDelay(p, now) ==
  CASE ~has_proposal_passed(p) -> "Defeated"
    [] has_proposal_passed(p) /\ now < p.voting_deadline + execution_delay -> "Succeeded"
    [] OTHER -> "Executed"

\* The status execute_proposal leaves behind, of a proposal it may decide.
Settled(p, now) ==
  CASE ~has_proposal_passed(p) -> "Defeated"
    [] has_proposal_passed(p) /\ now < p.execution_time -> "Succeeded"
    [] OTHER -> "Executed"

execute_proposal(id, now) ==
  /\ id \in DOMAIN proposals
  /\ now >= proposals[id].voting_deadline
  /\ proposals[id].status \in {"Active", "Succeeded"}
  /\ proposals' = [proposals EXCEPT ![id].status = Settled(proposals[id], now)]
  /\ called_at' = now
  /\ UNCHANGED <<votes, next_proposal_id, paramVars>>

cancel_proposal(proposer, id) ==
  /\ id \in DOMAIN proposals
  /\ proposals[id].proposer = proposer
  /\ proposals[id].status # "Executed"
  /\ proposals' = [proposals EXCEPT ![id].status = "Cancelled"]
  /\ UNCHANGED <<votes, next_proposal_id, paramVars, called_at>>

update_parameters(new_quorum, new_voting_period, new_execution_delay) ==
  /\ new_quorum <= BPS
  /\ quorum_percentage' = new_quorum
  /\ voting_period' = new_voting_period
  /\ execution_delay' = new_execution_delay
  /\ UNCHANGED <<proposals, votes, next_proposal_id, called_at>>

Next ==
  \/ \E a \in Addresses, now \in Times : create_proposal(a, now)
  \/ \E a \in Addresses, n \in Notices, now \in Times :
       create_delisting_proposal(a, n, now)
  \/ \E a \in Addresses, id \in Ids, support \in BOOLEAN, power \in Powers :
       vote(a, id, support, power)
  \/ \E id \in Ids, now \in Times : execute_proposal(id, now)
  \/ \E a \in Addresses, id \in Ids : cancel_proposal(a, id)
  \/ \E q \in Quorums, p \in Periods, d \in Delays : update_parameters(q, p, d)

Spec == Init /\ [][Next]_vars

-----------------------------------------------------------------------------

(* Types: proposals are numbered in the order of creation, votes are for    *)
(* proposals that exist.                                                    *)
TypeOK ==
  /\ proposals \in [1 .. next_proposal_id - 1 -> Proposal]
  /\ next_proposal_id \in 1 .. MaxProposals + 1
  /\ IsMap(votes, Ids \X Addresses, Nat)
  /\ quorum_percentage \in Nat
  /\ voting_period \in Nat
  /\ execution_delay \in Nat
  /\ called_at \in Nat

(* A proposal's life, as Ballot sees it.                                    *)
PhaseOf(id) ==
  IF id \notin DOMAIN proposals THEN "none"
  ELSE CASE proposals[id].status \in {"Active", "Succeeded"} -> "open"
         [] proposals[id].status = "Executed" -> "executed"
         [] OTHER -> "rejected"

Phases == [id \in Ids |-> PhaseOf(id)]

VotesFor == [id \in Ids |-> IF id \in DOMAIN proposals THEN proposals[id].votes_for ELSE 0]

VotesAgainst ==
  [id \in Ids |-> IF id \in DOMAIN proposals THEN proposals[id].votes_against ELSE 0]

Promise == INSTANCE Ballot WITH
  phase <- Phases, votesFor <- VotesFor, votesAgainst <- VotesAgainst

(* Proposals live as Ballot says: no vote after the decision, one decision, *)
(* execution by a majority only.                                            *)
ImplementsBallot == Promise!BallotSpec

PowerOf(V) == FoldFunctionOnSet(+, 0, votes, V)

(* The tally of a proposal is the power recorded voter by voter: nothing is *)
(* counted twice, lost, or changed after it was cast.                       *)
TallyIsVotes ==
  \A id \in DOMAIN proposals :
    LET p == proposals[id]
        cast == {v \in DOMAIN votes : v[1] = id}
    IN  /\ p.votes_for + p.votes_against = PowerOf(cast)
        /\ p.total_voting_power = PowerOf(cast)

(* The result of a vote stands: a proposal found to have succeeded has a    *)
(* majority until it is executed, cancelled or fails a raised quorum.       *)
SucceededHasMajority ==
  \A id \in DOMAIN proposals :
    proposals[id].status \in {"Succeeded", "Executed"} =>
      proposals[id].votes_for > proposals[id].votes_against

(* The record agrees with the votes at every moment: types, tallies and      *)
(* results.                                                                 *)
VotesDecide == TypeOK /\ TallyIsVotes /\ SucceededHasMajority

(* What was changed by update_parameters does not shorten the time a        *)
(* proposal was created with: it is executed no earlier than then promised. *)
TermsAreKept ==
  [][\A id \in DOMAIN proposals :
       /\ proposals'[id].voting_deadline = proposals[id].voting_deadline
       /\ proposals'[id].execution_time = proposals[id].execution_time
       /\ proposals'[id].delisting = proposals[id].delisting
       /\ (proposals'[id].status = "Executed" /\ proposals[id].status # "Executed")
            => called_at' >= proposals[id].execution_time]_vars
=============================================================================
