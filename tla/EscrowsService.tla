---------------------------- MODULE EscrowsService ----------------------------
(***************************************************************************)
(* The backend's escrow handlers, Backend/src/escrows/escrows.service.ts,  *)
(* with the chain reads they make through BlockchainService.               *)
(*                                                                         *)
(* Requests run concurrently and interleave at every await.  A handler     *)
(* reads the row, checks it, asks the chain, and then updates the row BY   *)
(* ID: the update does not repeat the check, so it lands on whatever the   *)
(* row has become in between.  The chain is EscrowLifecycle, which         *)
(* EscrowContract implements; it moves on its own, by transactions the     *)
(* parties sign without the backend.                                       *)
(***************************************************************************)
EXTENDS Naturals, FiniteSets

CONSTANTS Ids,         \* rows of the escrow table; also their chainEscrowId
          Milestones,  \* milestone rows of one escrow
          Requests,    \* requests the process has in flight at once
          Shapes       \* the rows create() may be asked for

ASSUME ShapeAssumption ==
  Shapes \subseteq [arbitrator : BOOLEAN, assetResolves : BOOLEAN, milestones : SUBSET Milestones]

VARIABLES configured,  \* ESCROW_CONTRACT_ID was set when the process started
          row,         \* escrow: what its columns decide about a request
          status,      \* escrow.status, "ABSENT" before create()
          milestone,   \* milestone.status, "NONE" for one the row does not have
          req,         \* the requests in flight and where they are
          ruled,       \* history: rows resolve() has ever written
          chain        \* contract status of the deal with this chainEscrowId

db == <<configured, row, status, milestone, ruled>>
vars == <<db, req, chain>>

Chain == INSTANCE EscrowLifecycle WITH status <- chain

DbStatuses == {"PENDING", "FUNDED", "RELEASED", "REFUNDED", "DISPUTED"}
DbSettled == {"RELEASED", "REFUNDED"}

\* The handlers that check one status, verify one chain status and write one
\* status; resolve() is two of them, by the outcome it is asked for.
VerifiedOps ==
  [fund          |-> [from |-> "PENDING",  expects |-> "Funded",   to |-> "FUNDED"],
   release       |-> [from |-> "FUNDED",   expects |-> "Released", to |-> "RELEASED"],
   refund        |-> [from |-> "FUNDED",   expects |-> "Refunded", to |-> "REFUNDED"],
   dispute       |-> [from |-> "FUNDED",   expects |-> "Disputed", to |-> "DISPUTED"],
   resolveToSeller |-> [from |-> "DISPUTED", expects |-> "Released", to |-> "RELEASED"],
   resolveToBuyer  |-> [from |-> "DISPUTED", expects |-> "Refunded", to |-> "REFUNDED"]]

OpNames == DOMAIN VerifiedOps
ResolveOps == {"resolveToSeller", "resolveToBuyer"}

Idle == [pc |-> "idle"]

Request ==
  [pc : {"verifyTx", "readChain", "write"}, op : OpNames, id : Ids]
    \cup [pc : {"releaseOne", "count", "complete"}, id : Ids, m : Milestones]
    \cup {Idle}

NoRow == [arbitrator |-> FALSE, assetResolves |-> FALSE]

TypeOK ==
  /\ configured \in BOOLEAN
  /\ row \in [Ids -> [arbitrator : BOOLEAN, assetResolves : BOOLEAN]]
  /\ status \in [Ids -> DbStatuses \cup {"ABSENT"}]
  /\ milestone \in [Ids -> [Milestones -> {"NONE", "PENDING", "RELEASED"}]]
  /\ req \in [Requests -> Request]
  /\ ruled \subseteq Ids
  /\ Chain!TypeOK

Init ==
  /\ configured \in BOOLEAN
  /\ row = [id \in Ids |-> NoRow]
  /\ status = [id \in Ids |-> "ABSENT"]
  /\ milestone = [id \in Ids |-> [m \in Milestones |-> "NONE"]]
  /\ req = [r \in Requests |-> Idle]
  /\ ruled = {}
  /\ Chain!Init

-----------------------------------------------------------------------------
(* What a row says *)

\* isChainEligible: recomputed from the row at every request.
IsChainEligible(id) == configured /\ row[id].arbitrator /\ row[id].assetResolves

Pending(id) == {m \in Milestones : milestone[id][m] = "PENDING"}

-----------------------------------------------------------------------------
(* create() *)

\* One row and its milestones in one insert.  The unsigned create_escrow
\* transaction built afterwards changes nothing here: signing and submitting
\* it, or never doing so, is the depositor's step on the chain.
Create(id, shape) ==
  /\ status[id] = "ABSENT"
  /\ status' = [status EXCEPT ![id] = "PENDING"]
  /\ row' = [row EXCEPT ![id] = [arbitrator |-> shape.arbitrator,
                                 assetResolves |-> shape.assetResolves]]
  /\ milestone' = [milestone EXCEPT ![id] =
                     [m \in Milestones |-> IF m \in shape.milestones THEN "PENDING" ELSE "NONE"]]
  /\ UNCHANGED <<configured, ruled, req, chain>>

-----------------------------------------------------------------------------
(* fund(), release(), refund(), dispute(), resolve() *)

\* get(), assertStatus() and the handler's own checks, on the row as read.
PassesChecks(op, id) ==
  /\ status[id] = VerifiedOps[op].from
  /\ op = "release" => Pending(id) = {}
  /\ op = "dispute" => row[id].arbitrator

\* Up to the first await after the read: verifyOnChain asks nothing for a row
\* that is not eligible.  An eligible one needs a hash; without it the request
\* is refused here.
Begin(r, op, id) ==
  /\ req[r] = Idle
  /\ PassesChecks(op, id)
  /\ req' = [req EXCEPT ![r] =
               [pc |-> IF IsChainEligible(id) THEN "verifyTx" ELSE "write", op |-> op, id |-> id]]
  /\ UNCHANGED <<db, chain>>

\* verifyTransactionSucceeded: the hash names SOME transaction that succeeded;
\* nothing ties it to this deal.
VerifyTx(r) ==
  /\ req[r].pc = "verifyTx"
  /\ req' = [req EXCEPT ![r].pc = "readChain"]
  /\ UNCHANGED <<db, chain>>

\* Variants: the deal is on the chain, in whatever status; a settlement is
\* believed as soon as the deal is funded.
AnyRegistered(expected, actual) == actual # "Absent"
NotYetSettled(expected, actual) == actual \in {expected, "Funded"}

\* What the contract must show for the update to go ahead.
AsExpected(expected, actual) == actual = expected

\* getOnChainEscrow and the comparison that ends verifyOnChain.
ReadChain(r) ==
  /\ req[r].pc = "readChain"
  /\ req' = [req EXCEPT ![r] =
               IF AsExpected(VerifiedOps[@.op].expects, chain[@.id])
               THEN [@ EXCEPT !.pc = "write"] ELSE Idle]
  /\ UNCHANGED <<db, chain>>

\* Variant: the row is given the contract's word for the status.
WriteChainWord(r) ==
  /\ req[r].pc = "write"
  /\ status' = [status EXCEPT ![req[r].id] = VerifiedOps[req[r].op].expects]
  /\ ruled' = IF req[r].op \in ResolveOps THEN ruled \cup {req[r].id} ELSE ruled
  /\ req' = [req EXCEPT ![r] = Idle]
  /\ UNCHANGED <<configured, row, milestone, chain>>

\* escrow.update({ where: { id } }): unconditional.
Write(r) ==
  /\ req[r].pc = "write"
  /\ status' = [status EXCEPT ![req[r].id] = VerifiedOps[req[r].op].to]
  /\ ruled' = IF req[r].op \in ResolveOps THEN ruled \cup {req[r].id} ELSE ruled
  /\ req' = [req EXCEPT ![r] = Idle]
  /\ UNCHANGED <<configured, row, milestone, chain>>

-----------------------------------------------------------------------------
(* releaseMilestone(): three updates, no transaction, no look at the chain *)

BeginMilestone(r, id, m) ==
  /\ req[r] = Idle
  /\ status[id] = "FUNDED"
  /\ milestone[id][m] = "PENDING"
  /\ req' = [req EXCEPT ![r] = [pc |-> "releaseOne", id |-> id, m |-> m]]
  /\ UNCHANGED <<db, chain>>

ReleaseOne(r) ==
  /\ req[r].pc = "releaseOne"
  /\ milestone' = [milestone EXCEPT ![req[r].id][req[r].m] = "RELEASED"]
  /\ req' = [req EXCEPT ![r].pc = "count"]
  /\ UNCHANGED <<configured, row, status, ruled, chain>>

\* Variant: the count still includes the milestone just released.
AtMostOneLeft(id) == Cardinality(Pending(id)) <= 1

NoneLeft(id) == Pending(id) = {}

Count(r) ==
  /\ req[r].pc = "count"
  /\ req' = [req EXCEPT ![r] = IF NoneLeft(@.id) THEN [@ EXCEPT !.pc = "complete"] ELSE Idle]
  /\ UNCHANGED <<db, chain>>

Complete(r) ==
  /\ req[r].pc = "complete"
  /\ status' = [status EXCEPT ![req[r].id] = "RELEASED"]
  /\ req' = [req EXCEPT ![r] = Idle]
  /\ UNCHANGED <<configured, row, milestone, ruled, chain>>

-----------------------------------------------------------------------------
(* Failures, the chain, and the composition *)

\* A hash that did not succeed, an unreachable RPC or database, the process
\* dying: the request ends where it is and what it has written stays.
Abort(r) ==
  /\ req[r] # Idle
  /\ req' = [req EXCEPT ![r] = Idle]
  /\ UNCHANGED <<db, chain>>

\* Anybody who signs for it may act on the chain at any time, even under an id that
\* create() has not given to a row yet: ids are consecutive numbers.
ChainStep ==
  /\ \E id \in Ids : Chain!Step(id)
  /\ UNCHANGED <<db, req>>

HandlerStep(r) ==
  VerifyTx(r) \/ ReadChain(r) \/ Write(r) \/ ReleaseOne(r) \/ Count(r) \/ Complete(r)

BeginSome(r) ==
  \E id \in Ids :
    \/ \E op \in OpNames : Begin(r, op, id)
    \/ \E m \in Milestones : BeginMilestone(r, id, m)

BackendStep ==
  \/ \E id \in Ids, shape \in Shapes : Create(id, shape)
  \/ \E r \in Requests : BeginSome(r) \/ HandlerStep(r)

NextWithoutFailures == BackendStep \/ ChainStep

Next == NextWithoutFailures \/ \E r \in Requests : Abort(r)

Spec == Init /\ [][Next]_vars

\* The event loop runs every request to its end, and whoever reports a settled
\* deal keeps reporting it for as long as the row would take the report.
Reports == {"release", "refund", "resolveToSeller", "resolveToBuyer"}

FairSpec ==
  /\ Init /\ [][NextWithoutFailures]_vars
  /\ \A r \in Requests : WF_vars(HandlerStep(r))
  /\ \A id \in Ids, op \in Reports : SF_vars(\E r \in Requests : Begin(r, op, id))

-----------------------------------------------------------------------------
(* Safety *)

\* The chain statuses that are compatible with a row that shows s: the row may
\* lag behind the chain, and it never leads it.
Behind(s) ==
  CASE s \in {"ABSENT", "PENDING"} -> Chain!Statuses
    [] s = "FUNDED"   -> Chain!Onwards("Funded")
    [] s = "DISPUTED" -> Chain!Onwards("Disputed")
    [] s = "RELEASED" -> {"Released"}
    [] s = "REFUNDED" -> {"Refunded"}

WholeDeal(id) == \A m \in Milestones : milestone[id][m] = "NONE"

\* fund, release, refund, dispute and resolve of an eligible row never show money
\* where the chain does not have it, however requests interleave, stall, fail and
\* overwrite each other: a late write may set the row back, never ahead.
NeverAheadOfChain ==
  \A id \in Ids : IsChainEligible(id) /\ WholeDeal(id) => chain[id] \in Behind(status[id])

\* A row is RELEASED with a milestone still pending only by an arbitrator's ruling:
\* neither release() nor the count in releaseMilestone() gets there first.
ReleaseWaitsForMilestones ==
  \A id \in Ids : status[id] = "RELEASED" /\ id \notin ruled => Pending(id) = {}

\* A settled row that the chain vouches for never changes to the other outcome: of two
\* requests that settle it, in whichever order they write, only one can be confirmed.
VerifiedOutcomeIsFinal ==
  [][\A id \in Ids :
       IsChainEligible(id) /\ WholeDeal(id) /\ status[id] \in DbSettled
         => status'[id] \notin DbSettled \ {status[id]}]_vars

ChainSettled(id) == chain[id] \in Chain!Settled

SeenFunded(id) == status[id] \notin {"ABSENT", "PENDING"}

Agrees(id) ==
  \/ chain[id] = "Released" /\ status[id] = "RELEASED"
  \/ chain[id] = "Refunded" /\ status[id] = "REFUNDED"

CanBeReported(id) ==
  \E op \in Reports : PassesChecks(op, id) /\ AsExpected(VerifiedOps[op].expects, chain[id])

\* There is no dead end: whatever late writes have made of an eligible row that has been
\* seen funded, once the chain has settled the deal the row agrees with it, or a report of
\* that outcome passes every check.
SettledDealHasAReport ==
  \A id \in Ids :
    ChainSettled(id) /\ SeenFunded(id) /\ IsChainEligible(id) /\ WholeDeal(id)
      => Agrees(id) \/ CanBeReported(id)

-----------------------------------------------------------------------------
(* Liveness *)

\* Once an eligible row of a deal without milestones has been seen funded, a
\* settlement on the chain reaches it and stays, whatever stale writes are still
\* under way: every status it can be set back to still takes the report.
FundedRowCatchesUp ==
  \A id \in Ids :
    [](ChainSettled(id) /\ SeenFunded(id) /\ IsChainEligible(id) /\ WholeDeal(id)
         => <>[]Agrees(id))

-----------------------------------------------------------------------------
(* What the documentation, the comments and the tests say and the code does not do *)

\* docs/ARCHITECTURE.md:54-56: the DB and the chain can never drift out of sync.
EligibleRowNeverAhead ==
  \A id \in Ids : IsChainEligible(id) => chain[id] \in Behind(status[id])

\* docs/ARCHITECTURE.md:54-56, over time: what the chain settles the row shows.
SettledDealReachesTheRow ==
  \A id \in Ids : [](ChainSettled(id) /\ IsChainEligible(id) => <>Agrees(id))

\* escrows.service.ts:222, 246, 274, 294: a settled row accepts no other outcome.
SettledRowIsFinal ==
  [][\A id \in Ids : status[id] \in DbSettled => status'[id] \notin DbSettled \ {status[id]}]_vars
=============================================================================
