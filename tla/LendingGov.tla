----------------------------- MODULE LendingGov -----------------------------
(***************************************************************************)
(* Who may change the lending protocol: the multisig, its proposals and    *)
(* the direct path of contracts/lending.rs, around the operations of the   *)
(* module Lending. With a threshold of at most 1 any administrator changes *)
(* everything directly; above it, what is governed goes through a proposal *)
(* that enough administrators approve. Caps, interest rate models, the     *)
(* reserve factor and the pause stay with any single administrator.        *)
(*                                                                         *)
(* A rejected call changes nothing and is no step: execution checks        *)
(* everything before it changes anything.                                  *)
(***************************************************************************)
EXTENDS Lending, Sequences, FiniteSets

CONSTANTS Admins,        \* everybody who may ever be an administrator
          MultiSigs,     \* the multisig configurations in use
          Actions,       \* the actions administrators propose
          MaxProposals   \* bounds the number of proposals

MultiSigConfig == [admins : SUBSET Admins, threshold : Nat]

AdminAction ==
  [kind : {"SetCloseFactor"}, bps : CloseFactors]
    \cup [kind : {"RegisterAsset", "UpdateReserveConfig"}, asset : Assets, config : Configs]
    \cup [kind : {"UpdateMultiSig"}, config : MultiSigs]
    \cup [kind : {"CollectProtocolFees"}, asset : Assets, amount : FeeRequests]

ASSUME GovAssumption ==
  /\ MultiSigs \subseteq MultiSigConfig
  /\ MultiSigs # {}
  /\ Actions \subseteq AdminAction
  /\ MaxProposals \in Nat
  /\ IsFiniteSet(Admins)

VARIABLES multisig,      \* the administrators and the threshold in force
          proposals      \* the sequence of all proposals; an id is a position

govVars == <<multisig, proposals>>
allVars == <<vars, govVars>>

AdminProposal ==
  [action : Actions, proposer : Admins, approvals : SUBSET Admins,
   status : {"Pending", "Executed", "Cancelled"}]

GovTypeOK ==
  /\ TypeOK
  /\ multisig \in MultiSigs
  /\ proposals \in Seq(AdminProposal)

GovInit ==
  /\ Init
  /\ multisig \in MultiSigs
  /\ proposals = <<>>

\* Mutant: a removed administrator may still act.
EverAdmin(caller) == caller \in Admins

IsAdmin(caller) == caller \in multisig.admins

Pending(id) == proposals[id].status = "Pending"

propose_admin_action(caller, action) ==
  /\ IsAdmin(caller)
  /\ Len(proposals) < MaxProposals
  /\ proposals' = Append(proposals,
       [action |-> action, proposer |-> caller, approvals |-> {caller},
        status |-> "Pending"])
  /\ UNCHANGED <<vars, multisig>>

approve_admin_proposal(caller, id) ==
  /\ IsAdmin(caller)
  /\ Pending(id)
  /\ caller \notin proposals[id].approvals
  /\ proposals' = [proposals EXCEPT ![id].approvals = @ \cup {caller}]
  /\ UNCHANGED <<vars, multisig>>

\* Mutant: the status is not looked at.
CancelledAnyTime(caller, id) ==
  /\ IsAdmin(caller)
  /\ proposals[id].proposer = caller
  /\ proposals' = [proposals EXCEPT ![id].status = "Cancelled"]
  /\ UNCHANGED <<vars, multisig>>

cancel_admin_proposal(caller, id) ==
  /\ IsAdmin(caller)
  /\ Pending(id)
  /\ proposals[id].proposer = caller
  /\ proposals' = [proposals EXCEPT ![id].status = "Cancelled"]
  /\ UNCHANGED <<vars, multisig>>

\* Mutant: the fees are written off and the cash stays.
CollectedOnPaper(a, amount) ==
  /\ a \in Listed
  /\ LET actual == min(amount, reserves[a].protocol_fees)
     IN  Succeeds([reserves EXCEPT ![a].protocol_fees = @ - actual], accounts)
  /\ UNCHANGED <<configVars, oracleVars>>

\* The same as the direct call, written out again by the code.
CollectProtocolFees(a, amount) == collect_protocol_fees(a, amount)

\* What carrying out an action does to the protocol at time t.
Perform(action, t) ==
  \/ /\ action.kind = "SetCloseFactor"
     /\ set_close_factor(action.bps)
     /\ UNCHANGED multisig
  \/ /\ action.kind = "RegisterAsset"
     /\ register_asset(action.asset, action.config, t)
     /\ UNCHANGED multisig
  \/ /\ action.kind = "UpdateReserveConfig"
     /\ update_reserve_config(action.asset, action.config)
     /\ UNCHANGED multisig
  \/ /\ action.kind = "CollectProtocolFees"
     /\ CollectProtocolFees(action.asset, action.amount)
     /\ UNCHANGED multisig
  \/ /\ action.kind = "UpdateMultiSig"
     /\ multisig' = action.config
     /\ UNCHANGED vars

\* Mutant: one approval too few will do.
NearlyEnoughApprovals(id) == Cardinality(proposals[id].approvals) + 1 >= multisig.threshold

\* Every approval ever given counts, also of administrators since removed.
EnoughApprovals(id) == Cardinality(proposals[id].approvals) >= multisig.threshold

execute_admin_proposal(caller, id, t) ==
  /\ IsAdmin(caller)
  /\ Pending(id)
  /\ EnoughApprovals(id)
  /\ Perform(proposals[id].action, t)
  /\ proposals' = [proposals EXCEPT ![id].status = "Executed"]

\* The direct calls of what is governed; fees must be a positive amount here.
Directly(caller) ==
  /\ IsAdmin(caller)
  /\ multisig.threshold <= 1
  /\ \/ \E a \in Assets, x \in FeeRequests : x > 0 /\ collect_protocol_fees(a, x)
     \/ \E a \in Assets, cfg \in Configs, t \in Timestamps : register_asset(a, cfg, t)
     \/ \E a \in Assets, cfg \in Configs : update_reserve_config(a, cfg)
     \/ \E bps \in CloseFactors : set_close_factor(bps)
  /\ UNCHANGED govVars

\* The calls open to any single administrator, whatever the threshold.
Alone(caller) ==
  /\ IsAdmin(caller)
  /\ Administered
  /\ UNCHANGED govVars

GovNext ==
  \/ \E caller \in Admins :
       \/ \E action \in Actions : propose_admin_action(caller, action)
       \/ \E id \in DOMAIN proposals :
            \/ approve_admin_proposal(caller, id)
            \/ cancel_admin_proposal(caller, id)
            \/ \E t \in Timestamps : execute_admin_proposal(caller, id, t)
       \/ Directly(caller)
       \/ Alone(caller)
  \/ (UserOperation \/ Environment) /\ UNCHANGED govVars

GovSpec == GovInit /\ [][GovNext]_allVars

-----------------------------------------------------------------------------
(* Properties *)

\* id is carried out in this step, with the approvals the threshold asks for.
CarriedOut(id, kinds) ==
  /\ Pending(id)
  /\ proposals'[id].status = "Executed"
  /\ proposals[id].action.kind \in kinds
  /\ Cardinality(proposals[id].approvals) >= multisig.threshold

\* A change of what is governed is either the direct act of a multisig with a
\* threshold of at most 1 or the execution of one pending proposal of the right
\* kind that had enough approvals. The administrators change by proposal only.
GovernedChangesAreApproved ==
  [][LET byProposal(kinds) == \E id \in DOMAIN proposals : CarriedOut(id, kinds)
         alone == multisig.threshold <= 1
     IN  /\ multisig' # multisig => byProposal({"UpdateMultiSig"})
         /\ close_factor_bps' # close_factor_bps => alone \/ byProposal({"SetCloseFactor"})
         /\ Listed' # Listed => alone \/ byProposal({"RegisterAsset"})
         /\ \A a \in Listed :
              /\ reserve_configs'[a].collateral_factor_bps
                   # reserve_configs[a].collateral_factor_bps
                 => alone \/ byProposal({"UpdateReserveConfig"})
              /\ reserves'[a].protocol_fees < reserves[a].protocol_fees
                 => alone \/ byProposal({"CollectProtocolFees"})
    ]_allVars

\* A proposal is decided once: neither approval, execution nor cancellation
\* ever touches one that was executed or cancelled, and no step executes two.
DecidedOnce ==
  [][/\ \A id \in DOMAIN proposals : ~Pending(id) => proposals'[id] = proposals[id]
     /\ Cardinality({id \in DOMAIN proposals : proposals'[id] # proposals[id]}) <= 1
    ]_allVars

\* What is governed can never be changed again: no proposal has enough
\* approvals, not even if every administrator in force gave theirs.
LockedOut ==
  /\ multisig.threshold > 1
  /\ Cardinality(multisig.admins) < multisig.threshold
  /\ \A id \in DOMAIN proposals :
       Pending(id) => Cardinality(proposals[id].approvals \cup multisig.admins)
                        < multisig.threshold

\* A multisig that is locked out stays so, and its close factor, its list of
\* assets and its fees stay as they are, whatever anybody calls.
LockedOutForGood ==
  [][LockedOut =>
       /\ LockedOut'
       /\ UNCHANGED <<multisig, close_factor_bps, Listed>>
       /\ \A a \in Listed : reserves'[a].protocol_fees >= reserves[a].protocol_fees
    ]_allVars
=============================================================================
