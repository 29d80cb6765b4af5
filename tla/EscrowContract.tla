---------------------------- MODULE EscrowContract ----------------------------
(***************************************************************************)
(* The Soroban escrow contract, Blockchain/contracts/escrow/src/lib.rs.    *)
(*                                                                         *)
(* A contract call is a transaction: the host applies it whole or, when it *)
(* returns an Error, when an authorization is missing or when the token    *)
(* transfer traps, not at all (the time-to-live bump of require_escrow is  *)
(* rolled back with the rest).  So a call is one action, its error returns *)
(* are the conjuncts of its guard, and a refused call is a stutter.        *)
(*                                                                         *)
(* Ledger time runs in units in which the two time-to-live constants are   *)
(* small numbers.  An entry whose time-to-live has run out is archived: it *)
(* still exists, but no call can reach it until somebody restores it.      *)
(*                                                                         *)
(* Tokens move only by the contract's calls here.  Transfers between       *)
(* wallets are left out, and so are those straight to the contract's own   *)
(* address: no call takes them out again, so they would only add to the    *)
(* pool.                                                                   *)
(***************************************************************************)
EXTENDS Integers, FiniteSetsExt

CONSTANTS Ids,               \* the u64 escrow ids in use
          Parties,           \* addresses that can sign
          Self,              \* the contract's own address: it receives, never signs
          Tokens,            \* token contracts; each keeps its own balances
          Amounts,           \* amounts asked for, zero and negative ones too
          InitialBalance,    \* what each party holds of each token
          TtlThreshold,      \* ESCROW_TTL_THRESHOLD
          TtlExtendTo,       \* ESCROW_TTL_EXTEND_TO
          MinPersistentTtl,  \* what the network gives a new or restored entry
          NoTerms, Nobody    \* nothing agreed yet; nobody has settled

ASSUME BalanceAssumption == InitialBalance \in Nat

ASSUME AmountAssumption == Amounts \subseteq Int

ASSUME AddressAssumption == Self \notin Parties /\ Nobody \notin Parties \cup {Self}

ASSUME TtlAssumption ==
  /\ TtlThreshold \in Nat
  /\ TtlExtendTo \in Nat
  /\ MinPersistentTtl \in Nat \ {0}
  /\ TtlThreshold < TtlExtendTo

VARIABLES escrows,    \* persistent storage: DataKey::Escrow(id) -> Escrow
          ttl,        \* ledgers until the entry is archived
          balance,    \* the token contracts: token -> address -> balance
          idle,       \* history: time since the last call that touched the entry
          disputed,   \* history: deals somebody has ever disputed
          settledBy   \* history: whose signature moved the money out

vars == <<escrows, ttl, balance, idle, disputed, settledBy>>

Addresses == Parties \cup {Self}
Wanted == {a \in Amounts : a > 0}
Held == {"Funded", "Disputed"}
Settled == {"Released", "Refunded"}

Escrow ==
  [buyer : Parties, seller : Addresses, arbiter : Addresses,
   token : Tokens, amount : Wanted, status : {"Created"} \cup Held \cup Settled]

NoEscrow == [status |-> "Absent"]

Status(id) == escrows[id].status

TypeOK ==
  /\ escrows \in [Ids -> Escrow \cup {NoEscrow}]
  /\ ttl \in [Ids -> Nat]
  /\ balance \in [Tokens -> [Addresses -> Nat]]
  /\ idle \in [Ids -> 0..(TtlThreshold + 1)]
  /\ disputed \subseteq Ids
  /\ settledBy \in [Ids -> Parties \cup {Nobody}]

Init ==
  /\ escrows = [id \in Ids |-> NoEscrow]
  /\ ttl = [id \in Ids |-> 0]
  /\ balance = [t \in Tokens |->
                  [a \in Addresses |-> IF a = Self THEN 0 ELSE InitialBalance]]
  /\ idle = [id \in Ids |-> 0]
  /\ disputed = {}
  /\ settledBy = [id \in Ids |-> Nobody]

-----------------------------------------------------------------------------
(* Storage and the token contract *)

Has(id) == Status(id) # "Absent"

Reachable(id) == Has(id) /\ ttl[id] > 0

\* Variant: the bump waits until nothing is left.
BumpTooLate(t) == IF t = 0 THEN TtlExtendTo ELSE t

\* extend_ttl(threshold, extend_to): nothing happens above the threshold.
Bump(t) == IF t <= TtlThreshold THEN TtlExtendTo ELSE t

Touch(id, t) ==
  /\ ttl' = [ttl EXCEPT ![id] = Bump(t)]
  /\ idle' = [idle EXCEPT ![id] = 0]

\* require_escrow and write_escrow around the body of a call: both bump the
\* same entry in the same transaction.
SetStatus(id, s) ==
  /\ escrows' = [escrows EXCEPT ![id].status = s]
  /\ Touch(id, ttl[id])

\* The token's transfer traps when the payer does not hold the amount.
Transfer(token, from, to, amount) ==
  /\ balance[token][from] >= amount
  /\ balance' = IF from = to THEN balance
                ELSE [balance EXCEPT ![token][from] = @ - amount,
                                     ![token][to] = @ + amount]

Payout(id, to) == Transfer(escrows[id].token, Self, to, escrows[id].amount)

-----------------------------------------------------------------------------
(* The contract's calls; the signer is the address whose require_auth holds *)

\* Variant: no look at what the id already holds.
CreateEscrowBlindly(id, e) ==
  /\ e.amount > 0
  /\ escrows' = [escrows EXCEPT ![id] = e]
  /\ Touch(id, MinPersistentTtl)
  /\ UNCHANGED <<balance, disputed, settledBy>>

\* Variant: no look at the amount.
CreateEscrowAnyAmount(id, e) ==
  /\ ~Has(id)
  /\ escrows' = [escrows EXCEPT ![id] = e]
  /\ Touch(id, MinPersistentTtl)
  /\ UNCHANGED <<balance, disputed, settledBy>>

\* The buyer signs.  An archived entry still counts as one that exists.
CreateEscrow(id, e) ==
  /\ e.amount > 0
  /\ ~Has(id)
  /\ escrows' = [escrows EXCEPT ![id] = e]
  /\ Touch(id, MinPersistentTtl)
  /\ UNCHANGED <<balance, disputed, settledBy>>

\* Variant: a second deposit is taken.
FundTwice(id) ==
  /\ Reachable(id)
  /\ Status(id) \in {"Created", "Funded"}
  /\ Transfer(escrows[id].token, escrows[id].buyer, Self, escrows[id].amount)
  /\ SetStatus(id, "Funded")
  /\ UNCHANGED <<disputed, settledBy>>

\* The buyer signs.
Fund(id) ==
  /\ Reachable(id)
  /\ Status(id) = "Created"
  /\ Transfer(escrows[id].token, escrows[id].buyer, Self, escrows[id].amount)
  /\ SetStatus(id, "Funded")
  /\ UNCHANGED <<disputed, settledBy>>

\* Variants: a disputed deal passes; any deal past its funding passes.
StillHeld(id) == Status(id) \in Held
EverFunded(id) == Status(id) # "Created"

\* release, refund and dispute each demand the same status.
RequireFunded(id) == Status(id) = "Funded"

Release(id, caller) ==
  /\ Reachable(id)
  /\ caller \in {escrows[id].buyer, escrows[id].arbiter}
  /\ RequireFunded(id)
  /\ Payout(id, escrows[id].seller)
  /\ SetStatus(id, "Released")
  /\ settledBy' = [settledBy EXCEPT ![id] = caller]
  /\ UNCHANGED disputed

Refund(id, caller) ==
  /\ Reachable(id)
  /\ caller \in {escrows[id].seller, escrows[id].arbiter}
  /\ RequireFunded(id)
  /\ Payout(id, escrows[id].buyer)
  /\ SetStatus(id, "Refunded")
  /\ settledBy' = [settledBy EXCEPT ![id] = caller]
  /\ UNCHANGED disputed

Dispute(id, caller) ==
  /\ Reachable(id)
  /\ caller \in {escrows[id].buyer, escrows[id].seller}
  /\ RequireFunded(id)
  /\ SetStatus(id, "Disputed")
  /\ disputed' = disputed \cup {id}
  /\ UNCHANGED <<balance, settledBy>>

\* The arbiter signs; an arbiter that is the contract itself never can.
Resolve(id, signer, releaseToSeller) ==
  /\ Reachable(id)
  /\ signer = escrows[id].arbiter
  /\ Status(id) = "Disputed"
  /\ Payout(id, IF releaseToSeller THEN escrows[id].seller ELSE escrows[id].buyer)
  /\ SetStatus(id, IF releaseToSeller THEN "Released" ELSE "Refunded")
  /\ settledBy' = [settledBy EXCEPT ![id] = signer]
  /\ UNCHANGED disputed

\* Submitted as a transaction it bumps the entry; simulated it changes nothing.
GetEscrow(id) ==
  /\ Reachable(id)
  /\ Touch(id, ttl[id])
  /\ UNCHANGED <<escrows, balance, disputed, settledBy>>

-----------------------------------------------------------------------------
(* The ledger *)

AdvanceLedger ==
  /\ ttl' = [id \in Ids |-> IF ttl[id] > 0 THEN ttl[id] - 1 ELSE 0]
  /\ idle' = [id \in Ids |-> IF idle[id] <= TtlThreshold THEN idle[id] + 1 ELSE idle[id]]
  /\ UNCHANGED <<escrows, balance, disputed, settledBy>>

\* Anyone may pay to bring an archived entry back.
RestoreEntry(id) ==
  /\ Has(id)
  /\ ttl[id] = 0
  /\ ttl' = [ttl EXCEPT ![id] = MinPersistentTtl]
  /\ UNCHANGED <<escrows, balance, idle, disputed, settledBy>>

Call(id) ==
  \/ \E buyer \in Parties, seller, arbiter \in Addresses, token \in Tokens, amount \in Amounts :
       CreateEscrow(id, [buyer |-> buyer, seller |-> seller, arbiter |-> arbiter,
                         token |-> token, amount |-> amount, status |-> "Created"])
  \/ Fund(id)
  \/ \E caller \in Parties : Release(id, caller)
  \/ \E caller \in Parties : Refund(id, caller)
  \/ \E caller \in Parties : Dispute(id, caller)
  \/ \E signer \in Parties, releaseToSeller \in BOOLEAN : Resolve(id, signer, releaseToSeller)
  \/ GetEscrow(id)
  \/ RestoreEntry(id)

Next == AdvanceLedger \/ \E id \in Ids : Call(id)

Spec == Init /\ [][Next]_vars

-----------------------------------------------------------------------------
(* Safety *)

HeldOf(token) == {id \in Ids : Status(id) \in Held /\ escrows[id].token = token}

\* Tokens released to the contract's own address stay in the pool for good.
StrandedOf(token) ==
  {id \in Ids : /\ Status(id) = "Released"
                /\ escrows[id].token = token
                /\ escrows[id].seller = Self}

\* The pooled balance of a token is, to the unit, what the deals in custody
\* need (plus what was released to the contract's own address): whatever the
\* interleaving of deals, every payout can be made and none is made from
\* another deal's deposit.
PoolCoversEveryDeal ==
  \A token \in Tokens :
    balance[token][Self] =
      MapThenSumSet(LAMBDA id : escrows[id].amount, HeldOf(token) \cup StrandedOf(token))

\* Whose signature moved a deal's money.  Undisputed, a release was signed by the
\* buyer or the arbiter and a refund by the seller or the arbiter, so nobody pays
\* himself unless the deal gave him a second role; once anybody has disputed the
\* deal, release and refund are frozen for everybody and only the arbiter's
\* resolve settles it.
SettledByTheRightSignature ==
  \A id \in Ids :
    LET e == escrows[id] IN
    Status(id) \in Settled =>
      \/ settledBy[id] = e.arbiter
      \/ id \notin disputed /\ Status(id) = "Released" /\ settledBy[id] = e.buyer
      \/ id \notin disputed /\ Status(id) = "Refunded" /\ settledBy[id] = e.seller

\* An entry nobody touches for up to TtlThreshold ledgers, fifteen days, is still there:
\* every touch, at whatever age, leaves more than the threshold to go.  This is all the
\* code guarantees: above the threshold a touch changes nothing.
TouchedIsReachable ==
  \A id \in Ids : Has(id) /\ idle[id] <= TtlThreshold => ttl[id] + idle[id] > TtlThreshold

\* lib.rs:8-11 says more: entries are kept alive for about thirty days "and bumped back up
\* to that whenever an escrow is touched".
TouchedHasFullLife ==
  \A id \in Ids : Has(id) /\ idle[id] = 0 => ttl[id] >= TtlExtendTo

\* The agreement behind an id never changes once made: no call, and no second
\* create_escrow (not even while the entry is archived), replaces a party, the
\* token or the amount of a deal that may already hold money.
TermsNeverChange ==
  [][\A id \in Ids : Has(id) =>
       /\ Has(id)'
       /\ \A f \in {"buyer", "seller", "arbiter", "token", "amount"} :
            escrows'[id][f] = escrows[id][f]]_vars

-----------------------------------------------------------------------------
(* What it implements *)

Terms ==
  [buyer : Parties, seller : Addresses, arbiter : Addresses, token : Tokens, amount : Wanted]

ASSUME TermsAssumption == NoTerms \notin Terms

Agreed(id) ==
  LET e == escrows[id] IN
  [buyer |-> e.buyer, seller |-> e.seller, arbiter |-> e.arbiter,
   token |-> e.token, amount |-> e.amount]

TermsView  == [id \in Ids |-> IF Has(id) THEN Agreed(id) ELSE NoTerms]
VaultView  == [id \in Ids |-> IF Status(id) \in Held THEN escrows[id].amount ELSE 0]
OpenView   == {id \in Ids : Status(id) \in {"Created"} \cup Held}
WalletView == [t \in Tokens |-> [p \in Parties |-> balance[t][p]]]

Lifecycle == INSTANCE EscrowLifecycle WITH status <- [id \in Ids |-> Status(id)]

Vault == INSTANCE EscrowVault WITH
  terms <- TermsView, vault <- VaultView, open <- OpenView, wallet <- WalletView

\* Seen through the status alone, the contract is the lifecycle the backend
\* relies on: no skipped step, and no way back from a settled deal.
ImplementsLifecycle == Lifecycle!Spec

\* Seen through the parties' wallets, the one pool behaves as a vault per deal.
ImplementsVault == Vault!Spec
=============================================================================
