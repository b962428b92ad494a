------------------------------- MODULE Escrow -------------------------------
(***************************************************************************)
(* CrossContractEscrowContract of contracts/escrow: an amount held for the *)
(* recipient until it expires, and for the sender from then on. The secret *)
(* is a preimage: only the right one opens the lock. Times are 64 bits     *)
(* wide, so that a long duration wraps.                                    *)
(***************************************************************************)
EXTENDS Integers, Maps

CONSTANTS
  NumUsers, TIME,
  EscrowIds, EscrowAmounts, EscrowDurations, Preimages,
  MaxEscrowTime   \* bound of the model

EscrowAssumption == TIME \in Nat \ {0} /\ EscrowDurations \subseteq 0 .. (TIME - 1)

VARIABLES escrows,     \* id -> escrow
          escrow_now

EscrowInit == escrows = EmptyMap /\ escrow_now = 0

\* The preimage stands for its hash.
create_escrow(sender, recipient, id, amount, hashlock, duration) ==
  /\ amount > 0
  /\ id \notin DOMAIN escrows
  /\ escrows' = Put(escrows, id, [sender |-> sender, recipient |-> recipient, amount |-> amount,
                                  hashlock |-> hashlock, expiration |-> (escrow_now + duration) % TIME,
                                  claimed |-> FALSE, refunded |-> FALSE])
  /\ UNCHANGED escrow_now

\* Mutant: only a refund is looked for.
NotRefundedYet(e) == ~e.refunded

NotSettled(e) == ~e.claimed /\ ~e.refunded

claim(recipient, id, preimage) ==
  /\ id \in DOMAIN escrows
  /\ escrows[id].recipient = recipient
  /\ NotSettled(escrows[id])
  /\ escrow_now <= escrows[id].expiration
  /\ preimage = escrows[id].hashlock
  /\ escrows' = [escrows EXCEPT ![id].claimed = TRUE]
  /\ UNCHANGED escrow_now

refund(sender, id) ==
  /\ id \in DOMAIN escrows
  /\ escrows[id].sender = sender
  /\ NotSettled(escrows[id])
  /\ escrow_now > escrows[id].expiration
  /\ escrows' = [escrows EXCEPT ![id].refunded = TRUE]
  /\ UNCHANGED escrow_now

Wait == escrow_now < MaxEscrowTime /\ escrow_now' = escrow_now + 1 /\ UNCHANGED escrows

EscrowNext ==
  \/ \E sender, recipient \in 1..NumUsers, id \in EscrowIds, amount \in EscrowAmounts,
        hashlock \in Preimages, duration \in EscrowDurations :
       create_escrow(sender, recipient, id, amount, hashlock, duration)
  \/ \E u \in 1..NumUsers, id \in EscrowIds, preimage \in Preimages : claim(u, id, preimage)
  \/ \E u \in 1..NumUsers, id \in EscrowIds : refund(u, id)
  \/ Wait

(* An escrow's amount goes one way and once: to the recipient, or back to the *)
(* sender after it expired. Its terms never change, nor does its end, and its *)
(* id is not used again.                                                      *)
SettledOnce ==
  [][\A id \in DOMAIN escrows :
       /\ id \in DOMAIN escrows'
       /\ LET was == escrows[id]
              is  == escrows'[id]
          IN  /\ is = [was EXCEPT !.claimed = is.claimed, !.refunded = is.refunded]
              /\ ~(is.claimed /\ is.refunded)
              /\ was.claimed => is.claimed
              /\ was.refunded => is.refunded
              /\ is.refunded /\ ~was.refunded => escrow_now > was.expiration]_escrows
=============================================================================
