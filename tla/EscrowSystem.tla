----------------------------- MODULE EscrowSystem -----------------------------
(***************************************************************************)
(* The backend beside the contract: EscrowsService with the contract of    *)
(* EscrowContract in the place of the status machine it abstracts it by.   *)
(*                                                                         *)
(* The two run concurrently and share nothing but what the backend reads:  *)
(* the status of the deal registered under a row's chainEscrowId.  Wallets *)
(* sign and submit contract calls without the backend, and a call of the   *)
(* contract never waits for it.                                            *)
(***************************************************************************)
EXTENDS EscrowContract

CONSTANTS Milestones, Requests, Shapes   \* as in EscrowsService

VARIABLES configured, row, milestone, req, ruled,   \* as in EscrowsService
          rowStatus                                  \* escrow.status of a row

\* What getOnChainEscrow shows of a deal, null being "Absent".  It simulates
\* get_escrow, so reading changes nothing.  An archived entry may be shown too; a
\* read that fails instead is the request's Abort.
StatusView == [id \in Ids |-> Status(id)]

\* With its theorems, which the proofs about the composition cite.
Service == INSTANCE EscrowsServiceProofs WITH status <- rowStatus, chain <- StatusView

ASSUME SystemAssumption == Service!ShapeAssumption

backend == <<configured, row, rowStatus, milestone, ruled, req>>

systemVars == <<vars, backend>>

SystemInit == Init /\ Service!Init

ContractStep == Next /\ UNCHANGED backend

ServiceStep ==
  /\ UNCHANGED vars
  /\ Service!BackendStep \/ \E r \in Requests : Service!Abort(r)

SystemNext == ContractStep \/ ServiceStep

SystemSpec == SystemInit /\ [][SystemNext]_systemVars

-----------------------------------------------------------------------------
(* What the rows say about the money *)

Eligible(id) == Service!IsChainEligible(id)

\* The deal's money is in the contract, and the contract can pay it out.
InCustody(id) ==
  /\ Status(id) \in Held
  /\ balance[escrows[id].token][Self] >= escrows[id].amount

SignedByArbiter(id) == settledBy[id] = escrows[id].arbiter

\* The arbiter signed the outcome or, undisputed, the party it takes the money from.
Signed(id, outcome, giver) ==
  /\ Status(id) = outcome
  /\ \/ SignedByArbiter(id)
     \/ id \notin disputed /\ settledBy[id] = giver

\* Nobody's money moves on the backend's word: what an eligible row of a deal without
\* milestones shows is covered by the contract.  FUNDED: the deal's amount is in the
\* pool, or a signed settlement has moved it since.  RELEASED or REFUNDED: it went that
\* way, and the arbiter or the party that gave it up signed for it.
RowsTellWhereTheMoneyIs ==
  \A id \in Ids :
    Eligible(id) /\ Service!WholeDeal(id) =>
      /\ rowStatus[id] = "FUNDED"   => InCustody(id) \/ Status(id) \in Settled
      /\ rowStatus[id] = "RELEASED" => Signed(id, "Released", escrows[id].buyer)
      /\ rowStatus[id] = "REFUNDED" => Signed(id, "Refunded", escrows[id].seller)

\* While an eligible row, with milestones or not, shows a dispute, its money is out of
\* both parties' hands: still in custody, where only the arbiter can settle it, or
\* already settled by him.
ShownDisputeIsFrozen ==
  \A id \in Ids :
    Eligible(id) /\ rowStatus[id] = "DISPUTED" =>
      /\ id \in disputed
      /\ \/ Status(id) = "Disputed" /\ InCustody(id)
         \/ Status(id) \in Settled /\ SignedByArbiter(id)

\* resolve() of an eligible row only ever records what the arbiter has signed, although
\* any API key of the organization may call it, with the hash of any transaction that
\* succeeded.
RulingsAreTheArbiters ==
  \A id \in ruled : Eligible(id) => Status(id) \in Settled /\ SignedByArbiter(id)

\* The contract is the status machine the backend's handlers were checked against.
ImplementsService == Service!Spec
=============================================================================
