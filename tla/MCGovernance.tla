---------------------------- MODULE MCGovernance ----------------------------
(***************************************************************************)
(* The three governance contracts, side by side: they do not know each     *)
(* other, so that one of them moves at a time while the others have yet to *)
(* start. GovernanceV2 has two addresses with one token each, of ten; with *)
(* the parameters it starts with nobody holds enough to propose, as in the *)
(* code, the two others lift the threshold, and one drops the execution    *)
(* delay. Governance has two proposals, votes of one, a quorum that is     *)
(* raised and a delay that is dropped on the way.                          *)
(***************************************************************************)
EXTENDS GovernanceV2, TLC

CONSTANTS
  \* what GovernanceContract is given and called with
  g_Powers, g_Times, g_PROPOSAL_THRESHOLD, g_TOTAL_POSSIBLE_VOTES, g_BPS,
  g_QUORUM, g_VOTING_PERIOD, g_EXECUTION_DELAY, g_Quorums, g_Periods, g_Delays,
  g_Notices, g_DEFAULT_NOTICE, g_MaxProposals,
  \* the constants of SyntheticGovernanceContract that are its own, and its calls
  s_Addresses, s_Admin, s_POWER, s_DEFAULT_VOTING_PERIOD, s_MIN_VOTING_PERIOD,
  s_MAX_VOTING_PERIOD, s_EMERGENCY_VOTING_PERIOD, s_MIN_POWER_TO_PROPOSE, s_Params

VARIABLES
  g_proposals, g_votes, g_next_proposal_id, quorum_percentage, voting_period, execution_delay, called_at,
  s_now, s_paused, gov_params, s_proposals, s_delegations, s_next_proposal_id

G == INSTANCE Governance WITH
  Powers <- g_Powers, Times <- g_Times, PROPOSAL_THRESHOLD <- g_PROPOSAL_THRESHOLD,
  TOTAL_POSSIBLE_VOTES <- g_TOTAL_POSSIBLE_VOTES, BPS <- g_BPS, QUORUM <- g_QUORUM,
  VOTING_PERIOD <- g_VOTING_PERIOD, EXECUTION_DELAY <- g_EXECUTION_DELAY, Quorums <- g_Quorums,
  Periods <- g_Periods, Delays <- g_Delays, Notices <- g_Notices,
  DEFAULT_NOTICE <- g_DEFAULT_NOTICE, MaxProposals <- g_MaxProposals,
  proposals <- g_proposals, votes <- g_votes, next_proposal_id <- g_next_proposal_id

S == INSTANCE SyntheticGovernance WITH
  Addresses <- s_Addresses, Admin <- s_Admin, POWER <- s_POWER,
  DEFAULT_VOTING_PERIOD <- s_DEFAULT_VOTING_PERIOD, MIN_VOTING_PERIOD <- s_MIN_VOTING_PERIOD,
  MAX_VOTING_PERIOD <- s_MAX_VOTING_PERIOD, EMERGENCY_VOTING_PERIOD <- s_EMERGENCY_VOTING_PERIOD,
  MIN_POWER_TO_PROPOSE <- s_MIN_POWER_TO_PROPOSE, Params <- s_Params,
  now <- s_now, paused <- s_paused, proposals <- s_proposals, delegations <- s_delegations,
  next_proposal_id <- s_next_proposal_id

ASSUME GAssumption == G!GovernanceAssumption
ASSUME SAssumption == S!SyntheticGovernanceAssumption

gVars == <<g_proposals, g_votes, g_next_proposal_id, quorum_percentage, voting_period, execution_delay, called_at>>
sVars == <<s_now, s_paused, gov_params, s_proposals, s_delegations, s_next_proposal_id>>

MCInit == initialize /\ G!Init /\ S!initialize

MCNext ==
  \/ Next   /\ UNCHANGED <<gVars, sVars>> /\ G!Init     /\ S!initialize
  \/ G!Next /\ UNCHANGED <<vars, sVars>>  /\ initialize /\ S!initialize
  \/ S!Next /\ UNCHANGED <<vars, gVars>>  /\ initialize /\ G!Init

MCSpec == MCInit /\ [][MCNext]_<<vars, gVars, sVars>>

Quick == [voting_period |-> 1, quorum_bps |-> 1, proposal_threshold_bps |-> 0, execution_delay |-> 0]
Slow  == [voting_period |-> 2, quorum_bps |-> 2, proposal_threshold_bps |-> 1, execution_delay |-> 2]
Refused == [voting_period |-> 3, quorum_bps |-> 1, proposal_threshold_bps |-> 0, execution_delay |-> 0]
MCParams == {Quick, Slow, Refused}

Urgent == [voting_period |-> 2, quorum_bps |-> 1, execution_delay |-> 0, min_voting_power_to_propose |-> 0]
Usual  == [voting_period |-> 3, quorum_bps |-> 2, execution_delay |-> 2, min_voting_power_to_propose |-> 1]
SyntheticParams == {Urgent, Usual}

\* Addresses are those of the first two contracts; nothing tells them apart.
Symmetry == Permutations(Addresses)

\* No action of Governance reads what its last execution was given.
View == <<vars, g_proposals, g_votes, g_next_proposal_id, quorum_percentage, voting_period, execution_delay, sVars>>

(* Votes and tallies agree, in the contracts that record the votes: see       *)
(* VotesDecide of Governance and KeptVotesAreCounted of GovernanceV2.         *)
VotesDecide == G!VotesDecide /\ KeptVotesAreCounted

(* Proposals of the two others live as Ballot says, too: see ImplementsBallot *)
(* of Governance and SyntheticGovernance.                                     *)
OthersImplementBallot == G!ImplementsBallot /\ S!ImplementsBallot

(* A proposal keeps the terms it was created with: see TermsAreKept of        *)
(* Governance.                                                                *)
TermsAreKept == G!TermsAreKept

(* Emergency proposals included, voting precedes execution, and a pause stops *)
(* all but them: see Consistent and PauseFreezes of SyntheticGovernance.      *)
SyntheticKept == []S!Consistent /\ S!PauseFreezes

(* docs/upgrade_governance_process.md:236 and :241: two days between the      *)
(* deadline and the execution are an exit window for users. update_params     *)
(* checks neither the new delay nor which proposals are open.                 *)
ExitWindow ==
  \A id \in DOMAIN proposals :
    proposals[id].executed => now >= proposals[id].voting_deadline + EXECUTION_DELAY
=============================================================================
