------------------------------- MODULE Ballot -------------------------------
(***************************************************************************)
(* What the three governance contracts promise of a proposal, whatever     *)
(* their clocks, quorums and parameters: it is opened once, collects votes *)
(* while it is open, and is then executed or rejected, for good; it is     *)
(* executed by a majority of the votes it collected.                       *)
(***************************************************************************)
EXTENDS Integers

CONSTANT Ids                 \* the numbers proposals may have

VARIABLES
  phase,                     \* of each number: "none", "open", "executed", "rejected"
  votesFor,
  votesAgainst

ballotVars == <<phase, votesFor, votesAgainst>>

BallotInit ==
  /\ phase = [id \in Ids |-> "none"]
  /\ votesFor = [id \in Ids |-> 0]
  /\ votesAgainst = [id \in Ids |-> 0]

Open(id) ==
  /\ phase[id] = "none"
  /\ phase' = [phase EXCEPT ![id] = "open"]
  /\ UNCHANGED <<votesFor, votesAgainst>>

Grows(tally, id) ==
  /\ tally'[id] > tally[id]
  /\ tally' = [tally EXCEPT ![id] = tally'[id]]

Cast(id) ==
  /\ phase[id] = "open"
  /\ \/ Grows(votesFor, id) /\ UNCHANGED votesAgainst
     \/ Grows(votesAgainst, id) /\ UNCHANGED votesFor
  /\ UNCHANGED phase

Execute(id) ==
  /\ phase[id] = "open"
  /\ votesFor[id] > votesAgainst[id]
  /\ phase' = [phase EXCEPT ![id] = "executed"]
  /\ UNCHANGED <<votesFor, votesAgainst>>

Reject(id) ==
  /\ phase[id] = "open"
  /\ phase' = [phase EXCEPT ![id] = "rejected"]
  /\ UNCHANGED <<votesFor, votesAgainst>>

BallotNext ==
  \E id \in Ids :
    \/ Open(id)
    \/ Cast(id)
    \/ Execute(id)
    \/ Reject(id)

BallotSpec == BallotInit /\ [][BallotNext]_ballotVars
=============================================================================
