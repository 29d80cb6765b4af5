------------------------------ MODULE EscrowIntake ------------------------------
(***************************************************************************)
(* How a deal gets from an HTTP request to the contract: validation and    *)
(* create() of Backend/src/escrows, the conversion of amounts and the      *)
(* create_escrow transaction of BlockchainService, the contract client     *)
(* that builds it, the 30 seconds and the account sequence number it is    *)
(* good for, the client that asks again when an answer is lost, and        *)
(* fund(), which believes whatever deal the chain has under the row's id.  *)
(*                                                                         *)
(* The contract is configured.  Every order has its own wallets, and two   *)
(* may share a depositor, whose account then numbers the transactions of   *)
(* both; anybody else may register deals on the contract too.              *)
(*                                                                         *)
(* An amount is asked for as a JavaScript number, the shortest decimal of  *)
(* which is counted here in grains, Grain of them to a stroop; a stroop is *)
(* the last digit of the database's Decimal(20,7) and of the contract's    *)
(* i128.  The database rounds the decimal; a computation in binary is off  *)
(* by a part in Precision of its operands, and which way is a choice.      *)
(***************************************************************************)
EXTENDS Integers, FiniteSets, Sequences, Functions

CONSTANTS MaxId,        \* bound on chainEscrowId, which the database counts up
          Orders,       \* what the client wants one deal each for
          Asks,         \* the requests it may make for each order
          Grain,
          Precision,    \* 2^51 in the code: a rounded operand and a rounded result
          MaxStroops,   \* what Decimal(20,7) holds, 10^20 - 1
          MaxSequence,  \* bound on the sequence number of an account
          Wallets,      \* the wallets of the orders
          Stranger,     \* a wallet of no order
          Native,       \* the token contract of XLM
          Usdc,         \* that of USDC under the configured issuer, None without one
          None          \* no wallet, no token, no row, no transaction, no deal

Ids == 1..MaxId

\* Asset codes, trimmed and in capitals; EURX stands for every other one.
Assets == {"XLM", "NATIVE", "USDC", "EURX"}

Tokens == {Native, Usdc} \ {None}

Ask == [amount : Nat \ {0}, milestones : Seq(Nat \ {0}), asset : Assets,
        depositor : Wallets, beneficiary : Wallets, arbitrator : Wallets \cup {None}]

ASSUME IntakeAssumption ==
  /\ MaxId \in Nat
  /\ MaxStroops \in Nat
  /\ MaxSequence \in Nat
  /\ Grain \in Nat \ {0} /\ Grain % 2 = 0
  /\ Precision \in Nat \ {0}
  /\ Asks \in [Orders -> SUBSET Ask]

VARIABLES ask,       \* what the client asks for, the same at every retry
          call,      \* POST /escrows of each order, and where it is
          row,       \* the escrow table
          offer,     \* the unsigned transaction the client holds for a row
          sequence,  \* sequence number of each wallet's account
          deal       \* the contract's deals

vars == <<ask, call, row, offer, sequence, deal>>

-----------------------------------------------------------------------------
(* Amounts *)

Abs(n) == IF n < 0 THEN -n ELSE n

\* What a computation in binary with these many grains may be off by.
Blur(grains) == grains \div Precision

\* A sum is rounded after every term.
SumBlur(amount, milestones) == Blur(Len(milestones) * SumFunction(milestones) + amount)

\* Variant: a tolerance of one in the sixth digit.
SumWithinTen(amount, milestones) == Abs(SumFunction(milestones) - amount) <= 10 * Grain

\* The difference is compared with AMOUNT_EPSILON, one stroop; one of exactly a
\* stroop goes either way in binary, so nothing is told apart up to there.
SumCloseEnough(amount, milestones) ==
  Abs(SumFunction(milestones) - amount) <= Grain + SumBlur(amount, milestones)

\* Decimal(20,7): the database rounds what it is sent to the nearest stroop, a tie
\* away from zero.
Stored(grains) == (grains + Grain \div 2) \div Grain

\* Variant: the fraction of a stroop is cut off.
Truncated(grains) == {grains \div Grain}

\* toContractAmount: Math.round of a binary product.
ToContractAmount(grains) ==
  {n \in 0..(grains + 1) : 2 * Abs(n * Grain - grains) <= Grain + 2 * Blur(grains)}

-----------------------------------------------------------------------------
(* Rows, transactions and deals *)

\* Variant: whatever the code, XLM is paid.
NativeForAll(asset) == IF asset = "EURX" THEN None ELSE Native

ResolveAssetContract(asset) ==
  CASE asset \in {"XLM", "NATIVE"} -> Native
    [] asset = "USDC" -> Usdc
    [] OTHER -> None

\* Variant: the arbitrator is not asked for.
EligibleByAsset(r) == ResolveAssetContract(r.asset) # None

\* isChainEligible of a row, and the early returns of buildChainCreateTx for a request.
ChainEligible(r) == r.arbitrator # None /\ ResolveAssetContract(r.asset) # None

Exists(id) == row[id] # None

\* @default(autoincrement())
NextId == Cardinality({id \in Ids : Exists(id)}) + 1

\* What the contract client puts in a create_escrow call, in the order of the
\* contract's parameters.  The terms are those of the request.
CreateEscrowArgs(id, a, amount) ==
  <<id, a.depositor, a.beneficiary, a.arbitrator, ResolveAssetContract(a.asset), amount>>

\* What the contract makes of the arguments.
RegisteredTerms(args) ==
  [buyer |-> args[2], seller |-> args[3], arbiter |-> args[4],
   token |-> args[5], amount |-> args[6]]

Registered == {id \in Ids : deal[id] # None}

Tx == [from : Wallets, args : Ids \X Wallets \X Wallets \X Wallets \X Tokens \X (Nat \ {0}),
       seq : Nat, knew : SUBSET Ids]

Row == [order : Orders, depositor : Wallets, beneficiary : Wallets,
        arbitrator : Wallets \cup {None}, asset : Assets,
        amount : Nat, milestones : Seq(Nat), status : {"PENDING", "FUNDED"}]

Party == Wallets \cup {Stranger}

Deal == [buyer : Party, seller : Party, arbiter : Party, token : Tokens,
         amount : Nat \ {0}, status : {"Created", "Funded"},
         by : {"offer", "stranger"}, knew : SUBSET Ids]

ASSUME NoneAssumption == None \notin Wallets \cup {Native} \cup Tx \cup Row \cup Deal

Call ==
  [pc : {"idle"}] \cup [pc : {"getAccount", "respond", "done"}, id : Ids, tx : {None}]
    \cup [pc : {"respond"}, id : Ids, tx : Tx]
    \cup [pc : {"prepare"}, id : Ids, seq : Nat, knew : SUBSET Ids]

TypeOK ==
  /\ ask \in [Orders -> Ask]
  /\ call \in [Orders -> Call]
  /\ row \in [Ids -> Row \cup {None}]
  /\ offer \in [Ids -> Tx \cup {None}]
  /\ sequence \in [Wallets -> Nat]
  /\ deal \in [Ids -> Deal \cup {None}]

Idle == [pc |-> "idle"]

Init ==
  /\ ask \in [Orders -> UNION {Asks[o] : o \in Orders}]
  /\ \A o \in Orders : ask[o] \in Asks[o]
  /\ call = [o \in Orders |-> Idle]
  /\ row = [id \in Ids |-> None]
  /\ offer = [id \in Ids |-> None]
  /\ sequence = [w \in Wallets |-> 0]
  /\ deal = [id \in Ids |-> None]

-----------------------------------------------------------------------------
(* create() *)

\* The client asks, and asks again while it does not know its deal to be on the chain: the
\* answer was lost or had no transaction, or the wallet has not said what became of the
\* one it has.  Nothing ties the retry to the first row.
WantsADeal(o) ==
  \/ call[o] = Idle
  \/ call[o].pc = "done" /\ ChainEligible(row[call[o].id])

\* The row and its milestones, in one statement, as the request says.
RowFor(o) ==
  LET a == ask[o] IN
  [order |-> o, depositor |-> a.depositor, beneficiary |-> a.beneficiary,
   arbitrator |-> a.arbitrator, asset |-> a.asset,
   amount |-> Stored(a.amount),
   milestones |-> [i \in 1..Len(a.milestones) |-> Stored(a.milestones[i])],
   status |-> "PENDING"]

\* A number the column does not hold fails the statement.
FitsTheColumns(o) ==
  /\ Stored(ask[o].amount) <= MaxStroops
  /\ \A i \in 1..Len(ask[o].milestones) : Stored(ask[o].milestones[i]) <= MaxStroops

\* A request whose milestones do not sum to its amount is refused and leaves nothing.
Receive(o) ==
  /\ WantsADeal(o)
  /\ NextId \in Ids
  /\ ask[o].milestones # <<>> => SumCloseEnough(ask[o].amount, ask[o].milestones)
  /\ FitsTheColumns(o)
  /\ row' = [row EXCEPT ![NextId] = RowFor(o)]
  /\ call' = [call EXCEPT ![o] =
                [pc |-> IF ChainEligible(ask[o]) THEN "getAccount" ELSE "respond",
                 id |-> NextId, tx |-> None]]
  /\ UNCHANGED <<ask, offer, sequence, deal>>

\* Variant: every transaction takes the next number nobody has been given.
GetFreshAccount(o) ==
  /\ call[o].pc = "getAccount"
  /\ LET w == ask[o].depositor IN
     \E n \in (sequence[w] + 1)..(sequence[w] + Cardinality(Ids)) :
       /\ \A id \in Ids : offer[id] # None /\ offer[id].from = w => offer[id].seq < n
       /\ call' = [call EXCEPT ![o] =
                     [pc |-> "prepare", id |-> @.id, seq |-> n, knew |-> Registered]]
  /\ UNCHANGED <<ask, row, offer, sequence, deal>>

\* server.getAccount of the depositor: the transaction takes the number after the account's.
GetAccount(o) ==
  /\ call[o].pc = "getAccount"
  /\ call' = [call EXCEPT ![o] =
                [pc |-> "prepare", id |-> @.id, seq |-> sequence[ask[o].depositor] + 1,
                 knew |-> Registered]]
  /\ UNCHANGED <<ask, row, offer, sequence, deal>>

\* prepareTransaction simulates the call: it fails for an id the contract has and for
\* an amount of nothing, and create() then answers with the row alone.
Prepare(o) ==
  /\ call[o].pc = "prepare"
  /\ \E amount \in ToContractAmount(ask[o].amount) :
       call' = [call EXCEPT ![o] =
         [pc |-> "respond", id |-> @.id,
          tx |-> IF deal[@.id] = None /\ amount > 0
                 THEN [from |-> ask[o].depositor,
                       args |-> CreateEscrowArgs(@.id, ask[o], amount),
                       seq |-> @.seq, knew |-> @.knew]
                 ELSE None]]
  /\ UNCHANGED <<ask, row, offer, sequence, deal>>

\* The RPC cannot be reached: the row is the answer.
BuildFails(o) ==
  /\ call[o].pc \in {"getAccount", "prepare"}
  /\ call' = [call EXCEPT ![o] = [pc |-> "respond", id |-> @.id, tx |-> None]]
  /\ UNCHANGED <<ask, row, offer, sequence, deal>>

Respond(o) ==
  /\ call[o].pc = "respond"
  /\ offer' = [offer EXCEPT ![call[o].id] = call[o].tx]
  /\ call' = [call EXCEPT ![o] = [pc |-> "done", id |-> @.id, tx |-> None]]
  /\ UNCHANGED <<ask, row, sequence, deal>>

\* The process dies, or the client hears nothing in time: the row stays.
Lose(o) ==
  /\ call[o].pc \in {"getAccount", "prepare", "respond"}
  /\ call' = [call EXCEPT ![o] = Idle]
  /\ UNCHANGED <<ask, row, offer, sequence, deal>>

-----------------------------------------------------------------------------
(* The depositors' wallets and the contract *)

\* The transaction is not in a ledger within TX_TIMEOUT_SECONDS.
Expire(id) ==
  /\ offer[id] # None
  /\ offer' = [offer EXCEPT ![id] = None]
  /\ UNCHANGED <<ask, call, row, sequence, deal>>

\* Signed and in a ledger: the account's next number, and create_escrow refuses an id
\* it has.  A refused call has used up the number all the same.
Submit(id) ==
  /\ offer[id] # None
  /\ LET w == offer[id].from IN
     /\ sequence[w] < MaxSequence
     /\ offer[id].seq = sequence[w] + 1
     /\ sequence' = [sequence EXCEPT ![w] = @ + 1]
  /\ offer' = [offer EXCEPT ![id] = None]
  /\ deal' = IF deal[id] # None THEN deal
             ELSE LET t == RegisteredTerms(offer[id].args) IN
               [deal EXCEPT ![id] =
                  [buyer |-> t.buyer, seller |-> t.seller, arbiter |-> t.arbiter,
                   token |-> t.token, amount |-> t.amount, status |-> "Created",
                   by |-> "offer", knew |-> offer[id].knew]]
  /\ UNCHANGED <<ask, call, row>>

\* A depositor signs something else.  Nobody reads the number of another wallet's account.
OtherTransaction(o) ==
  LET w == ask[o].depositor IN
  /\ sequence[w] < MaxSequence
  /\ sequence' = [sequence EXCEPT ![w] = @ + 1]
  /\ UNCHANGED <<ask, call, row, offer, deal>>

\* A deal the backend knows nothing of, under whatever id.
StrangerRegisters(id) ==
  /\ deal[id] = None
  /\ deal' = [deal EXCEPT ![id] =
                [buyer |-> Stranger, seller |-> Stranger, arbiter |-> Stranger,
                 token |-> Native, amount |-> 1, status |-> "Created",
                 by |-> "stranger", knew |-> {}]]
  /\ UNCHANGED <<ask, call, row, offer, sequence>>

FundDeal(id) ==
  /\ deal[id] # None
  /\ deal[id].status = "Created"
  /\ deal' = [deal EXCEPT ![id].status = "Funded"]
  /\ UNCHANGED <<ask, call, row, offer, sequence>>

\* fund(): one step here, since a deal does not leave Funded in this module; what can
\* come between its awaits is the business of EscrowsService.
Fund(id) ==
  /\ Exists(id)
  /\ row[id].status = "PENDING"
  /\ ChainEligible(row[id]) => deal[id] # None /\ deal[id].status = "Funded"
  /\ row' = [row EXCEPT ![id].status = "FUNDED"]
  /\ UNCHANGED <<ask, call, offer, sequence, deal>>

CreateStep(o) ==
  Receive(o) \/ GetAccount(o) \/ Prepare(o) \/ BuildFails(o) \/ Respond(o) \/ Lose(o)

ChainStep(id) ==
  Expire(id) \/ Submit(id) \/ StrangerRegisters(id) \/ FundDeal(id) \/ Fund(id)

Next ==
  \/ \E o \in Orders : CreateStep(o) \/ OtherTransaction(o)
  \/ \E id \in Ids : ChainStep(id)

Spec == Init /\ [][Next]_vars

-----------------------------------------------------------------------------

OwnDeal(id) == deal[id] # None /\ deal[id].by = "offer"

\* A deal registered from an offer is the deal of the row with its id: the wallets in
\* their roles, the token its asset names, the nearest whole stroop to what the order asked
\* for, and the row's own amount but for the one stroop of a tie, each as far as binary
\* numbers go, whatever retries, losses, other deployments and transactions came between.
DealMatchesItsRow ==
  \A id \in Ids : OwnDeal(id) =>
    /\ Exists(id)
    /\ deal[id].buyer = row[id].depositor
    /\ deal[id].seller = row[id].beneficiary
    /\ deal[id].arbiter = row[id].arbitrator
    /\ row[id].asset \in {"XLM", "NATIVE"} => deal[id].token = Native
    /\ row[id].asset = "USDC" => deal[id].token = Usdc
    /\ row[id].asset # "EURX"
    /\ LET asked == ask[row[id].order].amount IN
       /\ 2 * Abs(deal[id].amount * Grain - asked) <= Grain + 2 * Blur(asked)
       /\ Grain * Abs(deal[id].amount - row[id].amount) <= Grain + Blur(asked)

\* The milestones of a row sum to its amount up to the tolerance of a stroop, half a
\* stroop for each number that is rounded when it is stored, and what the binary sum is
\* off by.
MilestonesCoverAmount ==
  \A id \in Ids : Exists(id) /\ row[id].milestones # <<>> =>
    LET a == ask[row[id].order] IN
    2 * Grain * Abs(SumFunction(row[id].milestones) - row[id].amount)
      <= Grain * (Len(row[id].milestones) + 3) + 2 * SumBlur(a.amount, a.milestones)

\* A retried order makes another row, and may make another deal.  Never by accident:
\* of two deals for one order, one transaction was built with the other deal already
\* on the chain, for two built before either share their depositor's sequence number.
DuplicatesAreBuiltKnowingly ==
  \A i, j \in Ids :
    i # j /\ OwnDeal(i) /\ OwnDeal(j) /\ row[i].order = row[j].order
      => i \in deal[j].knew \/ j \in deal[i].knew
=============================================================================
