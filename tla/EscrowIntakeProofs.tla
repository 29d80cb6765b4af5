--------------------------- MODULE EscrowIntakeProofs ---------------------------
(***************************************************************************)
(* Theorems about EscrowIntake, for any orders between any wallets, any    *)
(* number of rows, any even number of grains to a stroop and any precision.*)
(***************************************************************************)
EXTENDS EscrowIntake, FiniteSums

LEMMA Division ==
  ASSUME NEW a \in Nat, NEW b \in Nat \ {0}
  PROVE  /\ a \div b \in Nat
         /\ a % b \in 0..(b - 1)
         /\ a = b * (a \div b) + (a % b)
  OBVIOUS

LEMMA HalfGrain ==
  \E h \in Nat \ {0} : Grain = 2 * h /\ Grain \div 2 = h
  BY IntakeAssumption

LEMMA StoredIsNearest ==
  ASSUME NEW g \in Nat
  PROVE  /\ Stored(g) \in Nat
         /\ 2 * Abs(Stored(g) * Grain - g) <= Grain
  <1>1. PICK h \in Nat \ {0} : Grain = 2 * h /\ Grain \div 2 = h
    BY HalfGrain
  <1>2. /\ Stored(g) \in Nat
        /\ g + h = Grain * Stored(g) + ((g + h) % Grain)
        /\ (g + h) % Grain \in 0..(Grain - 1)
    <2>1. g + h \in Nat /\ Grain \in Nat \ {0}
      BY <1>1
    <2>2. /\ (g + h) \div Grain \in Nat
          /\ (g + h) % Grain \in 0..(Grain - 1)
          /\ g + h = Grain * ((g + h) \div Grain) + ((g + h) % Grain)
      BY <2>1, Division
    <2> QED BY <1>1, <2>2 DEF Stored
  <1> DEFINE d == Grain * Stored(g)
  <1>3. d \in Nat /\ Stored(g) * Grain = d
    BY <1>1, <1>2
  <1> HIDE DEF d
  <1>4. g + h = d + ((g + h) % Grain)
    BY <1>2, <1>3 DEF d
  <1> QED
    BY <1>1, <1>2, <1>3, <1>4 DEF Abs

LEMMA BlurIsNat ==
  ASSUME NEW g \in Nat
  PROVE  Blur(g) \in Nat
  BY Division, IntakeAssumption DEF Blur

\* toContractAmount is within half a stroop of what was asked for, as far as binary
\* numbers go, and within a stroop of what the database holds.
LEMMA ContractAmountIsNearest ==
  ASSUME NEW g \in Nat, NEW amount \in ToContractAmount(g)
  PROVE  /\ amount \in Nat
         /\ 2 * Abs(amount * Grain - g) <= Grain + 2 * Blur(g)
         /\ Grain * Abs(amount - Stored(g)) <= Grain + Blur(g)
  <1>1. amount \in Nat /\ 2 * Abs(amount * Grain - g) <= Grain + 2 * Blur(g)
    BY DEF ToContractAmount
  <1>2. PICK h \in Nat \ {0} : Grain = 2 * h /\ Grain \div 2 = h
    BY HalfGrain
  <1> DEFINE b == Blur(g)
             s == Stored(g)
             p == amount * Grain
             q == s * Grain
  <1>3. b \in Nat /\ s \in Nat /\ p \in Nat /\ q \in Nat
    BY <1>1, <1>2, BlurIsNat, StoredIsNearest
  <1>4. 2 * Abs(q - g) <= Grain /\ 2 * Abs(p - g) <= Grain + 2 * b
    BY <1>1, StoredIsNearest
  <1>5. Grain * (amount - s) = p - q /\ Grain * (s - amount) = q - p
    BY <1>1, <1>2, <1>3
  <1> HIDE DEF b, s, p, q
  <1>6. p - q <= Grain + b /\ q - p <= Grain + b
    BY <1>2, <1>3, <1>4 DEF Abs
  <1>7. Grain * Abs(amount - s) <= Grain + b
    <2>1. CASE amount - s < 0
      BY <1>1, <1>3, <1>5, <1>6, <2>1 DEF Abs
    <2>2. CASE ~(amount - s < 0)
      BY <1>1, <1>3, <1>5, <1>6, <2>2 DEF Abs
    <2> QED BY <2>1, <2>2
  <1> QED BY <1>1, <1>7 DEF b, s
-----------------------------------------------------------------------------
(* The invariant *)

\* The database has given the ids 1 to n, so that the next one is free.
RowsAreConsecutive == \E n \in 0..MaxId : {id \in Ids : Exists(id)} = 1..n

\* A call works on the row it wrote, and builds a transaction only for an eligible one.
CallHasRow(o) ==
  /\ call[o].pc # "idle" =>
       call[o].id \in Ids /\ Exists(call[o].id) /\ row[call[o].id].order = o
  /\ call[o].pc \in {"getAccount", "prepare"} => ChainEligible(ask[o])

CallsHaveRows == \A o \in Orders : CallHasRow(o)

\* A row holds what its order asked for, each number rounded, and the order passed the
\* check of its milestones.
RowIsAsAsked(id) ==
  Exists(id) =>
    LET a == ask[row[id].order] IN
    /\ row[id].depositor = a.depositor /\ row[id].beneficiary = a.beneficiary
    /\ row[id].arbitrator = a.arbitrator /\ row[id].asset = a.asset
    /\ row[id].amount = Stored(a.amount)
    /\ row[id].milestones = [i \in 1..Len(a.milestones) |-> Stored(a.milestones[i])]
    /\ a.milestones # <<>> => SumCloseEnough(a.amount, a.milestones)

RowsAreAsAsked == \A id \in Ids : RowIsAsAsked(id)

\* What an order asks for, as the terms of a deal.
AskedFor(a, terms) ==
  /\ ChainEligible(a)
  /\ terms.buyer = a.depositor /\ terms.seller = a.beneficiary
  /\ terms.arbiter = a.arbitrator /\ terms.token = ResolveAssetContract(a.asset)
  /\ terms.amount \in ToContractAmount(a.amount)

\* A transaction asks for the deal of its row, from the account of its depositor.
Faithful(id, tx) ==
  /\ Exists(id)
  /\ tx.from = ask[row[id].order].depositor
  /\ AskedFor(ask[row[id].order], RegisteredTerms(tx.args))

AnswerIsFaithful(o) ==
  call[o].pc = "respond" /\ call[o].tx # None => Faithful(call[o].id, call[o].tx)

OfferIsFaithful(id) == offer[id] # None => Faithful(id, offer[id])

TransactionsAreFaithful ==
  /\ \A o \in Orders : AnswerIsFaithful(o)
  /\ \A id \in Ids : OfferIsFaithful(id)

OwnDealIsFaithful(id) ==
  OwnDeal(id) => Exists(id) /\ AskedFor(ask[row[id].order], deal[id])

OwnDealsAreFaithful == \A id \in Ids : OwnDealIsFaithful(id)

\* A sequence number that is still good was read after every deal of its account there
\* is, and with it the deals the builder could know.
Current(w, seq, knew) ==
  /\ seq <= sequence[w] + 1
  /\ seq = sequence[w] + 1 =>
       \A id \in Ids : OwnDeal(id) /\ deal[id].buyer = w => id \in knew

CallIsCurrent(o) ==
  /\ call[o].pc = "prepare" => Current(ask[o].depositor, call[o].seq, call[o].knew)
  /\ call[o].pc = "respond" /\ call[o].tx # None =>
       Current(call[o].tx.from, call[o].tx.seq, call[o].tx.knew)

OfferIsCurrent(id) ==
  offer[id] # None => Current(offer[id].from, offer[id].seq, offer[id].knew)

NumbersAreCurrent ==
  /\ \A o \in Orders : CallIsCurrent(o)
  /\ \A id \in Ids : OfferIsCurrent(id)

OneKnewOfTheOther ==
  \A i, j \in Ids : i # j /\ OwnDeal(i) /\ OwnDeal(j) /\ deal[i].buyer = deal[j].buyer
                     => i \in deal[j].knew \/ j \in deal[i].knew

IInv ==
  /\ TypeOK
  /\ RowsAreConsecutive
  /\ CallsHaveRows
  /\ RowsAreAsAsked
  /\ TransactionsAreFaithful
  /\ OwnDealsAreFaithful
  /\ NumbersAreCurrent
  /\ OneKnewOfTheOther

-----------------------------------------------------------------------------
(* What several steps rest on *)

\* The id of a new row is free.
LEMMA NextIdIsFree ==
  ASSUME RowsAreConsecutive, NextId \in Ids
  PROVE  /\ ~Exists(NextId)
         /\ {id \in Ids : Exists(id)} \cup {NextId} = 1..NextId
  <1>1. PICK n \in 0..MaxId : {id \in Ids : Exists(id)} = 1..n
    BY DEF RowsAreConsecutive
  <1>2. Cardinality(1..n) = n
    BY FS_Interval, IntakeAssumption
  <1>3. NextId = n + 1
    BY <1>1, <1>2 DEF NextId
  <1>4. n + 1 \notin 1..n /\ (1..n) \cup {n + 1} = 1..(n + 1)
    BY IntakeAssumption
  <1> QED BY <1>1, <1>3, <1>4

\* What an order asks for never changes and has a type.
LEMMA AsksAreTyped ==
  ASSUME TypeOK, NEW o \in Orders
  PROVE  /\ ask[o] \in Ask
         /\ ask[o].amount \in Nat \ {0}
         /\ ask[o].asset \in Assets
         /\ ask[o].depositor \in Wallets /\ ask[o].beneficiary \in Wallets
         /\ ask[o].arbitrator \in Wallets \cup {None}
         /\ ask[o].milestones \in Seq(Nat \ {0})
  BY DEF TypeOK, Ask

LEMMA NewRowsAreTyped ==
  ASSUME TypeOK, NEW o \in Orders
  PROVE  RowFor(o) \in Row
  <1>1. Stored(ask[o].amount) \in Nat
    BY AsksAreTyped, StoredIsNearest
  <1> DEFINE m == [i \in 1..Len(ask[o].milestones) |-> Stored(ask[o].milestones[i])]
  <1>2. m \in Seq(Nat)
    <2>1. ask[o].milestones \in Seq(Nat \ {0})
      BY AsksAreTyped
    <2>2. \A i \in 1..Len(ask[o].milestones) : Stored(ask[o].milestones[i]) \in Nat
      <3> SUFFICES ASSUME NEW i \in 1..Len(ask[o].milestones)
                   PROVE  Stored(ask[o].milestones[i]) \in Nat
        OBVIOUS
      <3>1. ask[o].milestones[i] \in Nat
        BY <2>1
      <3> QED BY <3>1, StoredIsNearest
    <2>3. Len(ask[o].milestones) \in Nat
      BY <2>1
    <2> QED BY <2>2, <2>3
  <1> HIDE DEF m
  <1>3. RowFor(o) = [order |-> o, depositor |-> ask[o].depositor,
                     beneficiary |-> ask[o].beneficiary, arbitrator |-> ask[o].arbitrator, asset |-> ask[o].asset,
                     amount |-> Stored(ask[o].amount), milestones |-> m,
                     status |-> "PENDING"]
    BY DEF RowFor, m
  <1> QED BY <1>1, <1>2, <1>3, AsksAreTyped DEF Row

-----------------------------------------------------------------------------
(* Rows *)

\* A row stays and keeps everything but its status; an order asks for the same.
LEMMA RowsStay ==
  ASSUME TypeOK, RowsAreConsecutive, Next
  PROVE  /\ ask' = ask
         /\ \A id \in Ids : row[id] # None =>
              /\ row'[id] # None
              /\ row'[id].order = row[id].order
              /\ row'[id].depositor = row[id].depositor
              /\ row'[id].beneficiary = row[id].beneficiary
              /\ row'[id].arbitrator = row[id].arbitrator
              /\ row'[id].asset = row[id].asset
              /\ row'[id].amount = row[id].amount
              /\ row'[id].milestones = row[id].milestones
  <1>1. None \notin Row
    BY NoneAssumption
  <1>2. ASSUME NEW o \in Orders, Receive(o)
        PROVE  /\ ask' = ask
               /\ \A id \in Ids : row[id] # None => row'[id] = row[id]
    <2>1. NextId \in Ids /\ row' = [row EXCEPT ![NextId] = RowFor(o)] /\ ask' = ask
      BY <1>2 DEF Receive
    <2>2. row[NextId] = None
      BY <2>1, NextIdIsFree DEF Exists
    <2> QED BY <2>1, <2>2 DEF TypeOK
  <1>3. ASSUME NEW id \in Ids, Fund(id)
        PROVE  /\ ask' = ask
               /\ row[id] \in Row /\ row'[id] = [row[id] EXCEPT !.status = "FUNDED"]
               /\ \A other \in Ids \ {id} : row'[other] = row[other]
    BY <1>3 DEF Fund, Exists, TypeOK
  <1>4. ASSUME NEW id \in Ids, Fund(id)
        PROVE  /\ row'[id] \in Row
               /\ row'[id].order = row[id].order
               /\ row'[id].depositor = row[id].depositor
               /\ row'[id].beneficiary = row[id].beneficiary
               /\ row'[id].arbitrator = row[id].arbitrator
               /\ row'[id].asset = row[id].asset
               /\ row'[id].amount = row[id].amount
               /\ row'[id].milestones = row[id].milestones
    <2> DEFINE r == row[id]
    <2>1. r \in Row /\ row'[id] = [r EXCEPT !.status = "FUNDED"]
      BY <1>3, <1>4
    <2> HIDE DEF r
    <2>2. [r EXCEPT !.status = "FUNDED"] \in Row
      BY <2>1 DEF Row
    <2>3. LET f == [r EXCEPT !.status = "FUNDED"] IN
          /\ f.order = r.order /\ f.depositor = r.depositor
          /\ f.beneficiary = r.beneficiary /\ f.arbitrator = r.arbitrator
          /\ f.asset = r.asset /\ f.amount = r.amount /\ f.milestones = r.milestones
      BY <2>1 DEF Row
    <2> QED BY <2>1, <2>2, <2>3 DEF r
  <1>5. CASE \E o \in Orders : GetAccount(o) \/ Prepare(o) \/ BuildFails(o) \/ Respond(o) \/ Lose(o)
    BY <1>5 DEF GetAccount, Prepare, BuildFails, Respond, Lose
  <1>6. CASE \/ \E o \in Orders : OtherTransaction(o)
             \/ \E id \in Ids : Expire(id) \/ Submit(id) \/ StrangerRegisters(id) \/ FundDeal(id)
    BY <1>6 DEF Expire, Submit, StrangerRegisters, FundDeal, OtherTransaction
  <1>7. CASE \E o \in Orders : Receive(o)
    BY <1>2, <1>7
  <1>8. CASE \E id \in Ids : Fund(id)
    BY <1>1, <1>3, <1>4, <1>8
  <1> QED BY <1>5, <1>6, <1>7, <1>8 DEF Next, CreateStep, ChainStep

LEMMA ConsecutiveStep ==
  ASSUME TypeOK, RowsAreConsecutive, Next
  PROVE  RowsAreConsecutive'
  <1>1. CASE \E o \in Orders : Receive(o)
    <2>1. PICK o \in Orders : Receive(o)
      BY <1>1
    <2>2. /\ NextId \in Ids /\ row' = [row EXCEPT ![NextId] = RowFor(o)]
          /\ {id \in Ids : Exists(id)} \cup {NextId} = 1..NextId
      BY <2>1, NextIdIsFree DEF Receive
    <2>3. RowFor(o) # None
      BY NewRowsAreTyped, NoneAssumption
    <2> DEFINE n == NextId
    <2>4. n \in 0..MaxId
      BY <2>2, IntakeAssumption DEF Ids
    <2> HIDE DEF n
    <2>5. {id \in Ids : row'[id] # None} = {id \in Ids : row[id] # None} \cup {n}
      BY <2>2, <2>3 DEF TypeOK, n
    <2>6. {id \in Ids : row'[id] # None} = 1..n
      BY <2>2, <2>5 DEF Exists, n
    <2> QED BY <2>4, <2>6 DEF RowsAreConsecutive, Exists
  <1>2. CASE \A id \in Ids : row[id] = None => row'[id] = None
    BY <1>2, RowsStay DEF RowsAreConsecutive, Exists
  <1>3. CASE \E o \in Orders : GetAccount(o) \/ Prepare(o) \/ BuildFails(o) \/ Respond(o) \/ Lose(o)
    BY <1>2, <1>3 DEF GetAccount, Prepare, BuildFails, Respond, Lose
  <1>4. CASE \E id \in Ids : ChainStep(id)
    BY <1>2, <1>4 DEF ChainStep, Expire, Submit, StrangerRegisters, FundDeal, Fund, Exists, TypeOK
  <1>5. CASE \E o \in Orders : OtherTransaction(o)
    BY <1>2, <1>5 DEF OtherTransaction
  <1> QED BY <1>1, <1>3, <1>4, <1>5 DEF Next, CreateStep

LEMMA RowsAreAsAskedStep ==
  ASSUME TypeOK, RowsAreConsecutive, RowsAreAsAsked, Next
  PROVE  RowsAreAsAsked'
  <1> SUFFICES ASSUME NEW id \in Ids, Exists(id)' PROVE RowIsAsAsked(id)'
    BY DEF RowsAreAsAsked, RowIsAsAsked
  <1>1. CASE Exists(id)
    BY <1>1, RowsStay DEF RowsAreAsAsked, RowIsAsAsked, Exists
  <1>2. CASE ~Exists(id)
    <2>1. PICK o \in Orders : Receive(o)
      <3>1. row'[id] # row[id]
        BY <1>2 DEF Exists
      <3>2. ASSUME NEW other \in Ids, Fund(other) PROVE FALSE
        BY <1>2, <3>2 DEF Fund, Exists, TypeOK
      <3> QED BY <1>2, <3>1, <3>2
        DEF Next, CreateStep, ChainStep, GetAccount, Prepare, BuildFails, Respond, Lose,
            Expire, Submit, StrangerRegisters, FundDeal, OtherTransaction
    <2>2. /\ row' = [row EXCEPT ![NextId] = RowFor(o)] /\ ask' = ask
          /\ ask[o].milestones # <<>> => SumCloseEnough(ask[o].amount, ask[o].milestones)
      BY <2>1 DEF Receive
    <2>3. id = NextId /\ row'[id] = RowFor(o)
      BY <1>2, <2>2 DEF Exists, TypeOK
    <2> DEFINE r == RowFor(o)
    <2>4. /\ r.order = o /\ r.amount = Stored(ask[o].amount)
          /\ r.depositor = ask[o].depositor /\ r.beneficiary = ask[o].beneficiary
          /\ r.arbitrator = ask[o].arbitrator /\ r.asset = ask[o].asset
          /\ r.milestones = [i \in 1..Len(ask[o].milestones) |-> Stored(ask[o].milestones[i])]
      BY DEF RowFor
    <2> HIDE DEF r
    <2>5. row'[id] = r
      BY <2>3 DEF r
    <2> QED BY <2>2, <2>4, <2>5 DEF RowIsAsAsked
  <1> QED BY <1>1, <1>2

-----------------------------------------------------------------------------
(* Type correctness *)

\* A deal that is eligible is between three known wallets, in a token there is.
LEMMA TokenIsResolved ==
  ASSUME NEW o \in Orders, TypeOK, ChainEligible(ask[o])
  PROVE  /\ ask[o].arbitrator \in Wallets
         /\ ResolveAssetContract(ask[o].asset) \in Tokens
  BY AsksAreTyped, NoneAssumption DEF ChainEligible, ResolveAssetContract, Assets, Tokens

\* What the contract client is given is a call of the contract with known wallets, a
\* token and an amount.
LEMMA BuiltArgsAreTyped ==
  ASSUME TypeOK, NEW o \in Orders, NEW id \in Ids, ChainEligible(ask[o]),
         NEW amount \in ToContractAmount(ask[o].amount), amount > 0
  PROVE  CreateEscrowArgs(id, ask[o], amount) \in
           Ids \X Wallets \X Wallets \X Wallets \X Tokens \X (Nat \ {0})
  <1>1. amount \in Nat \ {0}
    BY AsksAreTyped, ContractAmountIsNearest
  <1> QED BY <1>1, AsksAreTyped, TokenIsResolved DEF CreateEscrowArgs

LEMMA InitTyped == Init => TypeOK
  <1> SUFFICES ASSUME Init PROVE TypeOK
    OBVIOUS
  <1>1. \A o \in Orders : ask[o] \in Ask
    BY IntakeAssumption DEF Init
  <1>2. ask \in [Orders -> Ask]
    BY <1>1 DEF Init
  <1>3. call \in [Orders -> Call]
    BY DEF Init, Idle, Call
  <1> QED BY <1>2, <1>3 DEF Init, TypeOK

LEMMA TypeStep ==
  ASSUME TypeOK, CallsHaveRows, TransactionsAreFaithful, [Next]_vars
  PROVE  TypeOK'
  <1>1. ASSUME NEW o \in Orders, Receive(o) PROVE TypeOK'
    <2>1. /\ NextId \in Ids
          /\ row' = [row EXCEPT ![NextId] = RowFor(o)]
          /\ UNCHANGED <<ask, offer, sequence, deal>>
      BY <1>1 DEF Receive
    <2>2. RowFor(o) \in Row
      BY NewRowsAreTyped
    <2>3. row' \in [Ids -> Row \cup {None}]
      BY <2>1, <2>2 DEF TypeOK
    <2>4. PICK c \in {"getAccount", "respond"} :
            call' = [call EXCEPT ![o] = [pc |-> c, id |-> NextId, tx |-> None]]
      BY <1>1 DEF Receive
    <2>5. [pc |-> c, id |-> NextId, tx |-> None] \in Call
      BY <2>1 DEF Call
    <2>6. call' \in [Orders -> Call]
      BY <2>4, <2>5 DEF TypeOK
    <2> QED BY <2>1, <2>3, <2>6 DEF TypeOK
  <1>2. ASSUME NEW o \in Orders, GetAccount(o) PROVE TypeOK'
    <2>1. call[o].id \in Ids
      BY <1>2 DEF GetAccount, TypeOK, Call
    <2>2. sequence[ask[o].depositor] + 1 \in Nat
      BY AsksAreTyped DEF TypeOK
    <2> DEFINE n == sequence[ask[o].depositor] + 1
    <2> HIDE DEF n
    <2>3. [pc |-> "prepare", id |-> call[o].id, seq |-> n, knew |-> Registered] \in Call
      BY <2>1, <2>2 DEF Call, Registered, n
    <2>4. call' \in [Orders -> Call]
      BY <1>2, <2>3 DEF GetAccount, TypeOK, n
    <2> QED BY <1>2, <2>4 DEF GetAccount, TypeOK
  <1>3. ASSUME NEW o \in Orders, Prepare(o) PROVE TypeOK'
    <2>1. /\ call[o].id \in Ids /\ call[o].seq \in Nat /\ call[o].knew \in SUBSET Ids
      BY <1>3 DEF Prepare, TypeOK, Call
    <2>2. PICK amount \in ToContractAmount(ask[o].amount) :
            call' = [call EXCEPT ![o] =
              [pc |-> "respond", id |-> @.id,
               tx |-> IF deal[@.id] = None /\ amount > 0
                      THEN [from |-> ask[o].depositor,
                            args |-> CreateEscrowArgs(@.id, ask[o], amount),
                            seq |-> @.seq, knew |-> @.knew]
                      ELSE None]]
      BY <1>3 DEF Prepare
    <2>3. ChainEligible(ask[o])
      BY <1>3 DEF Prepare, CallsHaveRows, CallHasRow
    <2>4. CASE deal[call[o].id] = None /\ amount > 0
      <3> DEFINE args == CreateEscrowArgs(call[o].id, ask[o], amount)
                 w == ask[o].depositor
      <3>1. args \in Ids \X Wallets \X Wallets \X Wallets \X Tokens \X (Nat \ {0})
        BY <2>1, <2>2, <2>3, <2>4, BuiltArgsAreTyped
      <3>2. call' = [call EXCEPT ![o] =
              [pc |-> "respond", id |-> call[o].id,
               tx |-> [from |-> w, args |-> args, seq |-> call[o].seq, knew |-> call[o].knew]]]
        BY <2>2, <2>4 DEF TypeOK
      <3>3. w \in Wallets
        BY AsksAreTyped
      <3> HIDE DEF args, w
      <3>4. [from |-> w, args |-> args, seq |-> call[o].seq, knew |-> call[o].knew] \in Tx
        BY <2>1, <3>1, <3>3 DEF Tx
      <3>5. [pc |-> "respond", id |-> call[o].id,
             tx |-> [from |-> w, args |-> args, seq |-> call[o].seq, knew |-> call[o].knew]] \in Call
        BY <2>1, <3>4 DEF Call
      <3>6. call' \in [Orders -> Call]
        BY <3>2, <3>5 DEF TypeOK
      <3> QED BY <1>3, <3>6 DEF Prepare, TypeOK
    <2>5. CASE ~(deal[call[o].id] = None /\ amount > 0)
      <3>1. call' = [call EXCEPT ![o] = [pc |-> "respond", id |-> call[o].id, tx |-> None]]
        BY <2>2, <2>5 DEF TypeOK
      <3>2. [pc |-> "respond", id |-> call[o].id, tx |-> None] \in Call
        BY <2>1 DEF Call
      <3>3. call' \in [Orders -> Call]
        BY <3>1, <3>2 DEF TypeOK
      <3> QED BY <1>3, <3>3 DEF Prepare, TypeOK
    <2> QED BY <2>4, <2>5
  <1>4. ASSUME NEW o \in Orders, BuildFails(o) PROVE TypeOK'
    <2>1. call[o].id \in Ids
      BY <1>4 DEF BuildFails, TypeOK, Call
    <2>2. [pc |-> "respond", id |-> call[o].id, tx |-> None] \in Call
      BY <2>1 DEF Call
    <2>3. call' \in [Orders -> Call]
      BY <1>4, <2>2 DEF BuildFails, TypeOK
    <2> QED BY <1>4, <2>3 DEF BuildFails, TypeOK
  <1>5. ASSUME NEW o \in Orders, Respond(o) PROVE TypeOK'
    <2>1. call[o].id \in Ids /\ call[o].tx \in Tx \cup {None}
      BY <1>5 DEF Respond, TypeOK, Call
    <2>2. [pc |-> "done", id |-> call[o].id, tx |-> None] \in Call
      BY <2>1 DEF Call
    <2>3. call' \in [Orders -> Call]
      BY <1>5, <2>2 DEF Respond, TypeOK
    <2>4. offer' \in [Ids -> Tx \cup {None}]
      BY <1>5, <2>1 DEF Respond, TypeOK
    <2> QED BY <1>5, <2>3, <2>4 DEF Respond, TypeOK
  <1>6. ASSUME NEW o \in Orders, Lose(o) PROVE TypeOK'
    <2>1. Idle \in Call
      BY DEF Idle, Call
    <2>2. call' \in [Orders -> Call]
      BY <1>6, <2>1 DEF Lose, TypeOK
    <2> QED BY <1>6, <2>2 DEF Lose, TypeOK
  <1>7. ASSUME NEW id \in Ids, Expire(id) PROVE TypeOK'
    BY <1>7 DEF Expire, TypeOK
  <1>8. ASSUME NEW id \in Ids, Submit(id) PROVE TypeOK'
    <2>1. /\ offer' \in [Ids -> Tx \cup {None}]
          /\ sequence' \in [Wallets -> Nat]
          /\ UNCHANGED <<ask, call, row>>
      <3>1. offer[id].from \in Wallets
        BY <1>8 DEF Submit, TypeOK, Tx
      <3>2. /\ sequence' = [sequence EXCEPT ![offer[id].from] = @ + 1]
            /\ offer' = [offer EXCEPT ![id] = None]
            /\ UNCHANGED <<ask, call, row>>
        BY <1>8 DEF Submit
      <3> QED BY <3>1, <3>2 DEF TypeOK
    <2>2. CASE deal[id] # None
      BY <1>8, <2>1, <2>2 DEF Submit, TypeOK
    <2>3. CASE deal[id] = None
      <3>1. offer[id] \in Tx
        BY <1>8 DEF Submit, TypeOK
      <3> DEFINE t == RegisteredTerms(offer[id].args)
                 d == [buyer |-> t.buyer, seller |-> t.seller, arbiter |-> t.arbiter,
                       token |-> t.token, amount |-> t.amount, status |-> "Created",
                       by |-> "offer", knew |-> offer[id].knew]
      <3>2. d \in Deal
        BY <3>1 DEF Tx, RegisteredTerms, Deal, Party
      <3>3. deal' = [deal EXCEPT ![id] = d]
        BY <1>8, <2>3 DEF Submit
      <3> HIDE DEF d
      <3>4. deal' \in [Ids -> Deal \cup {None}]
        BY <3>2, <3>3 DEF TypeOK
      <3> QED BY <2>1, <3>4 DEF TypeOK
    <2> QED BY <2>2, <2>3
  <1>9. ASSUME NEW id \in Ids, StrangerRegisters(id) PROVE TypeOK'
    <2> DEFINE d == [buyer |-> Stranger, seller |-> Stranger, arbiter |-> Stranger,
                     token |-> Native, amount |-> 1, status |-> "Created",
                     by |-> "stranger", knew |-> {}]
    <2>1. d \in Deal
      BY NoneAssumption DEF Deal, Party, Tokens
    <2>2. deal' = [deal EXCEPT ![id] = d] /\ UNCHANGED <<ask, call, row, offer, sequence>>
      BY <1>9 DEF StrangerRegisters
    <2> HIDE DEF d
    <2> QED BY <2>1, <2>2 DEF TypeOK
  <1>10. ASSUME NEW id \in Ids, FundDeal(id) PROVE TypeOK'
    <2>1. deal[id] \in Deal
      BY <1>10 DEF FundDeal, TypeOK
    <2>2. [deal[id] EXCEPT !.status = "Funded"] \in Deal
      BY <2>1 DEF Deal
    <2>3. deal' = [deal EXCEPT ![id] = [deal[id] EXCEPT !.status = "Funded"]]
      BY <1>10 DEF FundDeal
    <2> QED BY <1>10, <2>2, <2>3 DEF FundDeal, TypeOK
  <1>11. ASSUME NEW id \in Ids, Fund(id) PROVE TypeOK'
    <2>1. row[id] \in Row
      BY <1>11 DEF Fund, Exists, TypeOK
    <2>2. [row[id] EXCEPT !.status = "FUNDED"] \in Row
      BY <2>1 DEF Row
    <2>3. row' = [row EXCEPT ![id] = [row[id] EXCEPT !.status = "FUNDED"]]
      BY <1>11 DEF Fund
    <2> QED BY <1>11, <2>2, <2>3 DEF Fund, TypeOK
  <1>12. ASSUME NEW o \in Orders, OtherTransaction(o) PROVE TypeOK'
    <2>1. ask[o].depositor \in Wallets
      BY AsksAreTyped
    <2>2. sequence' \in [Wallets -> Nat]
      BY <1>12, <2>1 DEF OtherTransaction, TypeOK
    <2> QED BY <1>12, <2>2 DEF OtherTransaction, TypeOK
  <1>13. CASE UNCHANGED vars
    BY <1>13 DEF vars, TypeOK
  <1> QED
    BY <1>1, <1>2, <1>3, <1>4, <1>5, <1>6, <1>7, <1>8, <1>9, <1>10, <1>11, <1>12, <1>13
       DEF Next, CreateStep, ChainStep

-----------------------------------------------------------------------------
(* Calls, transactions and deals stay true to their rows *)

LEMMA CallsStep ==
  ASSUME TypeOK, RowsAreConsecutive, CallsHaveRows, Next
  PROVE  CallsHaveRows'
  <1>1. ASSUME NEW p \in Orders, call'[p] = call[p]
        PROVE  CallHasRow(p)'
    BY <1>1, RowsStay DEF CallsHaveRows, CallHasRow, Exists, ChainEligible
  <1>2. ASSUME NEW o \in Orders, Receive(o) PROVE CallsHaveRows'
    <2>1. /\ NextId \in Ids
          /\ row' = [row EXCEPT ![NextId] = RowFor(o)]
          /\ call' = [call EXCEPT ![o] =
                [pc |-> IF ChainEligible(ask[o]) THEN "getAccount" ELSE "respond",
                 id |-> NextId, tx |-> None]]
      BY <1>2 DEF Receive
    <2>2. row'[NextId] = RowFor(o) /\ RowFor(o) # None /\ RowFor(o).order = o
      BY <2>1, NewRowsAreTyped, NoneAssumption DEF TypeOK, RowFor
    <2>3. /\ call'[o].pc # "prepare" /\ call'[o].id = NextId
          /\ call'[o].pc = "getAccount" => ChainEligible(ask[o])
          /\ ask' = ask
      BY <1>2, <2>1 DEF Receive, TypeOK
    <2>4. CallHasRow(o)'
      BY <2>1, <2>2, <2>3 DEF CallHasRow, Exists, ChainEligible
    <2>5. \A p \in Orders \ {o} : call'[p] = call[p]
      BY <2>1 DEF TypeOK
    <2> QED BY <1>1, <2>4, <2>5 DEF CallsHaveRows
  <1>3. ASSUME NEW o \in Orders,
               GetAccount(o) \/ Prepare(o) \/ BuildFails(o) \/ Respond(o) \/ Lose(o)
        PROVE  CallsHaveRows'
    <2>1. row' = row /\ ask' = ask /\ \A p \in Orders \ {o} : call'[p] = call[p]
      BY <1>3 DEF GetAccount, Prepare, BuildFails, Respond, Lose, TypeOK
    <2>2. call[o].pc # "idle"
      BY <1>3 DEF GetAccount, Prepare, BuildFails, Respond, Lose
    <2>3. \/ call'[o].pc = "idle"
          \/ /\ call'[o].id = call[o].id
             /\ call'[o].pc = "prepare" => call[o].pc = "getAccount"
             /\ call'[o].pc # "getAccount"
      BY <1>3 DEF GetAccount, Prepare, BuildFails, Respond, Lose, TypeOK, Idle
    <2>4. CallHasRow(o)'
      BY <2>1, <2>2, <2>3 DEF CallsHaveRows, CallHasRow, Exists, ChainEligible
    <2> QED BY <1>1, <2>1, <2>4 DEF CallsHaveRows
  <1>4. ASSUME call' = call PROVE CallsHaveRows'
    BY <1>1, <1>4 DEF CallsHaveRows
  <1>5. CASE \E id \in Ids : ChainStep(id)
    BY <1>4, <1>5 DEF ChainStep, Expire, Submit, StrangerRegisters, FundDeal, Fund
  <1>6. CASE \E o \in Orders : OtherTransaction(o)
    BY <1>4, <1>6 DEF OtherTransaction
  <1> QED BY <1>2, <1>3, <1>5, <1>6 DEF Next, CreateStep

\* A row stays, and what its order asks for.
LEMMA FaithfulStays ==
  ASSUME TypeOK, RowsAreConsecutive, Next
  PROVE  \A id \in Ids :
           Exists(id) => row'[id] # None /\ ask'[row'[id].order] = ask[row[id].order]
  BY RowsStay DEF Exists

LEMMA TransactionsStep ==
  ASSUME TypeOK, RowsAreConsecutive, CallsHaveRows, TransactionsAreFaithful, Next
  PROVE  TransactionsAreFaithful'
  <1>1. ASSUME NEW p \in Orders, call'[p] = call[p]
        PROVE  AnswerIsFaithful(p)'
    <2> SUFFICES ASSUME call[p].pc = "respond", call[p].tx # None
                 PROVE  Faithful(call[p].id, call[p].tx)'
      BY <1>1 DEF AnswerIsFaithful
    <2>1. call[p].id \in Ids
      BY DEF TypeOK, Call
    <2>2. Faithful(call[p].id, call[p].tx)
      BY DEF TransactionsAreFaithful, AnswerIsFaithful
    <2>3. row'[call[p].id] # None /\ ask'[row'[call[p].id].order] = ask[row[call[p].id].order]
      BY <2>1, <2>2, FaithfulStays DEF Faithful, Exists
    <2> QED BY <1>1, <2>2, <2>3
      DEF Faithful, Exists, AskedFor, RegisteredTerms, ChainEligible, ResolveAssetContract,
          ToContractAmount, Blur, Abs
  <1>2. ASSUME NEW id \in Ids, offer'[id] \in {offer[id], None}
        PROVE  OfferIsFaithful(id)'
    <2> SUFFICES ASSUME offer[id] # None, offer'[id] = offer[id]
                 PROVE  Faithful(id, offer[id])'
      BY <1>2 DEF OfferIsFaithful
    <2>1. Faithful(id, offer[id])
      BY DEF TransactionsAreFaithful, OfferIsFaithful
    <2>2. row'[id] # None /\ ask'[row'[id].order] = ask[row[id].order]
      BY <2>1, FaithfulStays DEF Faithful
    <2> QED BY <2>1, <2>2
      DEF Faithful, Exists, AskedFor, RegisteredTerms, ChainEligible, ResolveAssetContract,
          ToContractAmount, Blur, Abs
  <1>3. ASSUME NEW o \in Orders, Respond(o) PROVE TransactionsAreFaithful'
    <2>1. call[o].id \in Ids
      BY <1>3 DEF Respond, TypeOK, Call
    <2>2. /\ row' = row /\ ask' = ask
          /\ call'[o].pc = "done"
          /\ \A p \in Orders \ {o} : call'[p] = call[p]
          /\ offer'[call[o].id] = call[o].tx
          /\ \A id \in Ids \ {call[o].id} : offer'[id] = offer[id]
      BY <1>3, <2>1 DEF Respond, TypeOK
    <2>3. AnswerIsFaithful(o)'
      BY <2>2 DEF AnswerIsFaithful
    <2>4. call[o].tx # None => Faithful(call[o].id, call[o].tx)
      BY <1>3 DEF Respond, TransactionsAreFaithful, AnswerIsFaithful
    <2>5. ASSUME NEW id \in Ids, id = call[o].id PROVE OfferIsFaithful(id)'
      BY <2>2, <2>4, <2>5
         DEF OfferIsFaithful, Faithful, Exists, AskedFor, RegisteredTerms, ChainEligible,
             ResolveAssetContract, ToContractAmount, Blur, Abs
    <2> QED BY <1>1, <1>2, <2>1, <2>2, <2>3, <2>5 DEF TransactionsAreFaithful
  <1>4. ASSUME NEW o \in Orders, Prepare(o) PROVE TransactionsAreFaithful'
    <2>1. /\ row' = row /\ ask' = ask /\ offer' = offer
          /\ \A p \in Orders \ {o} : call'[p] = call[p]
          /\ call[o].id \in Ids
      BY <1>4 DEF Prepare, TypeOK, Call
    <2>2. PICK amount \in ToContractAmount(ask[o].amount) :
            call' = [call EXCEPT ![o] =
              [pc |-> "respond", id |-> @.id,
               tx |-> IF deal[@.id] = None /\ amount > 0
                      THEN [from |-> ask[o].depositor,
                            args |-> CreateEscrowArgs(@.id, ask[o], amount),
                            seq |-> @.seq, knew |-> @.knew]
                      ELSE None]]
      BY <1>4 DEF Prepare
    <2>3. Exists(call[o].id) /\ ChainEligible(ask[o]) /\ row[call[o].id].order = o
      BY <1>4 DEF Prepare, CallsHaveRows, CallHasRow
    <2>4. /\ call'[o].id = call[o].id
          /\ call'[o].tx # None =>
               /\ call'[o].tx.from = ask[o].depositor
               /\ call'[o].tx.args = CreateEscrowArgs(call[o].id, ask[o], amount)
      BY <2>2 DEF TypeOK
    <2>5. AskedFor(ask[o], RegisteredTerms(CreateEscrowArgs(call[o].id, ask[o], amount)))
      BY <2>2, <2>3 DEF AskedFor, RegisteredTerms, CreateEscrowArgs
    <2>6. call'[o].tx # None => Faithful(call[o].id, call'[o].tx)
      BY <2>3, <2>4, <2>5 DEF Faithful
    <2>7. AnswerIsFaithful(o)'
      BY <2>1, <2>4, <2>6
         DEF AnswerIsFaithful, Faithful, Exists, AskedFor, RegisteredTerms, ChainEligible,
             ResolveAssetContract, ToContractAmount, Blur, Abs
    <2> QED BY <1>1, <1>2, <2>1, <2>7 DEF TransactionsAreFaithful
  <1>5. ASSUME NEW o \in Orders, Receive(o) \/ GetAccount(o) \/ BuildFails(o) \/ Lose(o)
        PROVE  TransactionsAreFaithful'
    <2>1. /\ offer' = offer
          /\ \A p \in Orders \ {o} : call'[p] = call[p]
          /\ call'[o].pc # "respond" \/ call'[o].tx = None
      BY <1>5 DEF Receive, GetAccount, BuildFails, Lose, TypeOK, Idle
    <2>2. AnswerIsFaithful(o)'
      BY <2>1 DEF AnswerIsFaithful
    <2> QED BY <1>1, <1>2, <2>1, <2>2 DEF TransactionsAreFaithful
  <1>6. ASSUME call' = call, \A id \in Ids : offer'[id] \in {offer[id], None}
        PROVE  TransactionsAreFaithful'
    BY <1>1, <1>2, <1>6 DEF TransactionsAreFaithful
  <1>7. CASE \E id \in Ids : ChainStep(id)
    BY <1>6, <1>7 DEF ChainStep, Expire, Submit, StrangerRegisters, FundDeal, Fund, TypeOK
  <1>8. CASE \E o \in Orders : OtherTransaction(o)
    BY <1>6, <1>8 DEF OtherTransaction
  <1> QED BY <1>3, <1>4, <1>5, <1>7, <1>8 DEF Next, CreateStep

LEMMA OwnDealsStep ==
  ASSUME TypeOK, RowsAreConsecutive, TransactionsAreFaithful, OwnDealsAreFaithful, Next
  PROVE  OwnDealsAreFaithful'
  <1>1. ASSUME NEW id \in Ids, deal'[id] = deal[id]
        PROVE  OwnDealIsFaithful(id)'
    <2> SUFFICES ASSUME OwnDeal(id) PROVE (Exists(id) /\ AskedFor(ask[row[id].order], deal[id]))'
      BY <1>1 DEF OwnDealIsFaithful, OwnDeal
    <2>1. Exists(id) /\ AskedFor(ask[row[id].order], deal[id])
      BY DEF OwnDealsAreFaithful, OwnDealIsFaithful
    <2>2. row'[id] # None /\ ask'[row'[id].order] = ask[row[id].order]
      BY <2>1, FaithfulStays
    <2> QED BY <1>1, <2>1, <2>2
      DEF Exists, AskedFor, ChainEligible, ResolveAssetContract, ToContractAmount, Blur, Abs
  <1>2. ASSUME NEW id \in Ids, Submit(id) PROVE OwnDealsAreFaithful'
    <2>1. \A other \in Ids \ {id} : deal'[other] = deal[other]
      BY <1>2 DEF Submit, TypeOK
    <2>2. CASE deal[id] # None
      BY <1>1, <1>2, <2>2 DEF Submit, OwnDealsAreFaithful
    <2>3. CASE deal[id] = None
      <3> DEFINE t == RegisteredTerms(offer[id].args)
      <3>1. Exists(id) /\ AskedFor(ask[row[id].order], t)
        BY <1>2 DEF Submit, TransactionsAreFaithful, OfferIsFaithful, Faithful
      <3>2. /\ deal'[id].buyer = t.buyer /\ deal'[id].seller = t.seller
            /\ deal'[id].arbiter = t.arbiter /\ deal'[id].token = t.token
            /\ deal'[id].amount = t.amount
        <4> HIDE DEF t
        <4> QED BY <1>2, <2>3 DEF Submit, TypeOK, t
      <3>3. row' = row /\ ask' = ask
        BY <1>2 DEF Submit
      <3> HIDE DEF t
      <3>4. AskedFor(ask[row[id].order], deal'[id])
        BY <3>1, <3>2 DEF AskedFor
      <3>5. OwnDealIsFaithful(id)'
        BY <3>1, <3>3, <3>4
           DEF OwnDealIsFaithful, Exists, AskedFor, ChainEligible, ResolveAssetContract,
               ToContractAmount, Blur, Abs
      <3> QED BY <1>1, <2>1, <3>5 DEF OwnDealsAreFaithful
    <2> QED BY <2>2, <2>3
  <1>3. ASSUME NEW id \in Ids, StrangerRegisters(id) PROVE OwnDealsAreFaithful'
    <2>1. /\ deal'[id].by = "stranger"
          /\ \A other \in Ids \ {id} : deal'[other] = deal[other]
      BY <1>3 DEF StrangerRegisters, TypeOK
    <2>2. OwnDealIsFaithful(id)'
      BY <2>1 DEF OwnDealIsFaithful, OwnDeal
    <2> QED BY <1>1, <2>1, <2>2 DEF OwnDealsAreFaithful
  <1>4. ASSUME NEW id \in Ids, FundDeal(id) PROVE OwnDealsAreFaithful'
    <2>1. deal[id] \in Deal
      BY <1>4 DEF FundDeal, TypeOK
    <2>2. /\ deal'[id].by = deal[id].by /\ deal'[id].buyer = deal[id].buyer
          /\ deal'[id].seller = deal[id].seller /\ deal'[id].arbiter = deal[id].arbiter
          /\ deal'[id].token = deal[id].token /\ deal'[id].amount = deal[id].amount
      BY <1>4, <2>1 DEF FundDeal, TypeOK, Deal
    <2>3. /\ \A other \in Ids \ {id} : deal'[other] = deal[other]
          /\ row' = row /\ ask' = ask /\ deal[id] # None
      BY <1>4 DEF FundDeal, TypeOK
    <2>4. OwnDealIsFaithful(id)'
      <3> SUFFICES ASSUME OwnDeal(id)' PROVE (Exists(id) /\ AskedFor(ask[row[id].order], deal[id]))'
        BY DEF OwnDealIsFaithful
      <3>1. Exists(id) /\ AskedFor(ask[row[id].order], deal[id])
        BY <2>2, <2>3 DEF OwnDealsAreFaithful, OwnDealIsFaithful, OwnDeal
      <3>2. AskedFor(ask[row[id].order], deal'[id])
        BY <2>2, <3>1 DEF AskedFor
      <3> QED BY <2>3, <3>1, <3>2
        DEF Exists, AskedFor, ChainEligible, ResolveAssetContract, ToContractAmount, Blur, Abs
    <2> QED BY <1>1, <2>3, <2>4 DEF OwnDealsAreFaithful
  <1>5. ASSUME deal' = deal PROVE OwnDealsAreFaithful'
    BY <1>1, <1>5 DEF OwnDealsAreFaithful
  <1>6. CASE \E o \in Orders : CreateStep(o)
    BY <1>5, <1>6 DEF CreateStep, Receive, GetAccount, Prepare, BuildFails, Respond, Lose
  <1>7. CASE \E id \in Ids : Expire(id) \/ Fund(id)
    BY <1>5, <1>7 DEF Expire, Fund
  <1>8. CASE \E o \in Orders : OtherTransaction(o)
    BY <1>5, <1>8 DEF OtherTransaction
  <1> QED BY <1>2, <1>3, <1>4, <1>6, <1>7, <1>8 DEF Next, ChainStep

-----------------------------------------------------------------------------
(* Sequence numbers and what their builders knew *)

\* An offer registers a deal of the wallet whose number it takes.
LEMMA OffersAreTheBuyers ==
  ASSUME TypeOK, TransactionsAreFaithful, NEW id \in Ids, offer[id] # None
  PROVE  /\ offer[id].from \in Wallets
         /\ RegisteredTerms(offer[id].args).buyer = offer[id].from
  <1>1. offer[id] \in Tx /\ Faithful(id, offer[id])
    BY DEF TypeOK, TransactionsAreFaithful, OfferIsFaithful
  <1> QED BY <1>1 DEF Tx, Faithful, AskedFor

\* A wallet gets another deal of the backend's own only by a submission, which uses up
\* one of its numbers.
LEMMA OwnDealsMove ==
  ASSUME TypeOK, TransactionsAreFaithful, Next, NEW w \in Wallets
  PROVE  /\ sequence'[w] \in {sequence[w], sequence[w] + 1}
         /\ sequence'[w] = sequence[w] =>
              \A id \in Ids : OwnDeal(id)' /\ deal'[id].buyer = w
                              => OwnDeal(id) /\ deal[id].buyer = w
  <1> USE DEF TypeOK
  <1>1. CASE \E o \in Orders : CreateStep(o)
    BY <1>1 DEF CreateStep, Receive, GetAccount, Prepare, BuildFails, Respond, Lose, OwnDeal
  <1>2. CASE \E id \in Ids : Expire(id) \/ Fund(id)
    BY <1>2 DEF Expire, Fund, OwnDeal
  <1>3. ASSUME NEW id \in Ids, Submit(id)
        PROVE  /\ sequence'[w] \in {sequence[w], sequence[w] + 1}
               /\ sequence'[w] = sequence[w] =>
                    \A other \in Ids : OwnDeal(other)' /\ deal'[other].buyer = w
                                       => OwnDeal(other) /\ deal[other].buyer = w
    <2> DEFINE from == offer[id].from
               t == RegisteredTerms(offer[id].args)
    <2>1. from \in Wallets /\ t.buyer = from
      BY <1>3, OffersAreTheBuyers DEF Submit
    <2>2. sequence' = [sequence EXCEPT ![from] = @ + 1]
      BY <1>3 DEF Submit
    <2>3. /\ \A other \in Ids \ {id} : deal'[other] = deal[other]
          /\ deal'[id] = deal[id] \/ deal'[id].buyer = t.buyer
      <3> HIDE DEF t
      <3> QED BY <1>3 DEF Submit, t
    <2> HIDE DEF t, from
    <2>4. CASE from = w
      BY <2>1, <2>2, <2>4
    <2>5. CASE from # w
      BY <2>1, <2>2, <2>3, <2>5 DEF OwnDeal
    <2> QED BY <2>4, <2>5
  <1>4. CASE \E o \in Orders : OtherTransaction(o)
    <2>1. PICK o \in Orders : OtherTransaction(o)
      BY <1>4
    <2>2. ask[o].depositor \in Wallets
      BY AsksAreTyped
    <2>3. /\ sequence' = [sequence EXCEPT ![ask[o].depositor] = @ + 1]
          /\ deal' = deal
      BY <2>1 DEF OtherTransaction
    <2> QED BY <2>2, <2>3 DEF OwnDeal
  <1>5. CASE \E id \in Ids : StrangerRegisters(id)
    BY <1>5 DEF StrangerRegisters, OwnDeal
  <1>6. ASSUME NEW id \in Ids, FundDeal(id)
        PROVE  /\ sequence' = sequence
               /\ \A other \in Ids : OwnDeal(other)' /\ deal'[other].buyer = w
                                  => OwnDeal(other) /\ deal[other].buyer = w
    <2>1. deal[id] \in Deal
      BY <1>6 DEF FundDeal
    <2>2. deal'[id].by = deal[id].by /\ deal'[id].buyer = deal[id].buyer
      BY <1>6, <2>1 DEF FundDeal, Deal
    <2> QED BY <1>6, <2>2 DEF FundDeal, OwnDeal
  <1> QED BY <1>1, <1>2, <1>3, <1>4, <1>5, <1>6 DEF Next, ChainStep

LEMMA CurrentStays ==
  ASSUME TypeOK, TransactionsAreFaithful, Next,
         NEW w \in Wallets, NEW seq \in Nat, NEW knew, Current(w, seq, knew)
  PROVE  /\ seq <= sequence'[w] + 1
         /\ seq = sequence'[w] + 1 =>
              \A id \in Ids : OwnDeal(id)' /\ deal'[id].buyer = w => id \in knew
  <1>1. sequence[w] \in Nat
    BY DEF TypeOK
  <1> QED BY <1>1, OwnDealsMove DEF Current

LEMMA NumbersStep ==
  ASSUME TypeOK, RowsAreConsecutive, TransactionsAreFaithful, NumbersAreCurrent, Next
  PROVE  NumbersAreCurrent'
  <1>1. ASSUME NEW p \in Orders, call'[p] = call[p]
        PROVE  CallIsCurrent(p)'
    <2>1. CASE call[p].pc = "prepare"
      <3>1. call[p].seq \in Nat /\ ask[p].depositor \in Wallets /\ ask' = ask
        BY <2>1, AsksAreTyped, RowsStay DEF TypeOK, Call
      <3>2. Current(ask[p].depositor, call[p].seq, call[p].knew)
        BY <2>1 DEF NumbersAreCurrent, CallIsCurrent
      <3>3. Current(ask[p].depositor, call[p].seq, call[p].knew)'
        BY <1>1, <3>1, <3>2, CurrentStays DEF Current
      <3> QED BY <1>1, <2>1, <3>3 DEF CallIsCurrent
    <2>2. CASE call[p].pc = "respond" /\ call[p].tx # None
      <3>1. call[p].tx.seq \in Nat /\ call[p].tx.from \in Wallets
        BY <2>2 DEF TypeOK, Call, Tx
      <3>2. Current(call[p].tx.from, call[p].tx.seq, call[p].tx.knew)
        BY <2>2 DEF NumbersAreCurrent, CallIsCurrent
      <3>3. Current(call[p].tx.from, call[p].tx.seq, call[p].tx.knew)'
        BY <1>1, <3>1, <3>2, CurrentStays DEF Current
      <3> QED BY <1>1, <2>2, <3>3 DEF CallIsCurrent
    <2> QED BY <1>1, <2>1, <2>2 DEF CallIsCurrent
  <1>2. ASSUME NEW id \in Ids, offer'[id] \in {offer[id], None}
        PROVE  OfferIsCurrent(id)'
    <2> SUFFICES ASSUME offer[id] # None, offer'[id] = offer[id]
                 PROVE  Current(offer[id].from, offer[id].seq, offer[id].knew)'
      BY <1>2 DEF OfferIsCurrent
    <2>1. offer[id].seq \in Nat /\ offer[id].from \in Wallets
      BY DEF TypeOK, Tx
    <2>2. Current(offer[id].from, offer[id].seq, offer[id].knew)
      BY DEF NumbersAreCurrent, OfferIsCurrent
    <2> QED BY <2>1, <2>2, CurrentStays DEF Current
  <1>3. ASSUME NEW o \in Orders, GetAccount(o) PROVE NumbersAreCurrent'
    <2>1. /\ call'[o].pc = "prepare" /\ call'[o].knew = Registered
          /\ call'[o].seq = sequence[ask[o].depositor] + 1
          /\ \A p \in Orders \ {o} : call'[p] = call[p]
          /\ offer' = offer /\ sequence' = sequence /\ deal' = deal /\ ask' = ask
      BY <1>3 DEF GetAccount, TypeOK
    <2>2. CallIsCurrent(o)'
      BY <2>1, AsksAreTyped DEF CallIsCurrent, Current, OwnDeal, Registered, TypeOK
    <2> QED BY <1>1, <1>2, <2>1, <2>2 DEF NumbersAreCurrent
  <1>4. ASSUME NEW o \in Orders, Prepare(o) PROVE NumbersAreCurrent'
    <2>1. /\ \A p \in Orders \ {o} : call'[p] = call[p]
          /\ offer' = offer /\ sequence' = sequence /\ deal' = deal
          /\ call'[o].pc = "respond"
          /\ call'[o].tx # None =>
               /\ call'[o].tx.from = ask[o].depositor
               /\ call'[o].tx.seq = call[o].seq /\ call'[o].tx.knew = call[o].knew
      BY <1>4 DEF Prepare, TypeOK
    <2>2. Current(ask[o].depositor, call[o].seq, call[o].knew)
      BY <1>4 DEF Prepare, NumbersAreCurrent, CallIsCurrent
    <2>3. CallIsCurrent(o)'
      BY <2>1, <2>2 DEF CallIsCurrent, Current, OwnDeal
    <2> QED BY <1>1, <1>2, <2>1, <2>3 DEF NumbersAreCurrent
  <1>5. ASSUME NEW o \in Orders, Respond(o) PROVE NumbersAreCurrent'
    <2>1. call[o].id \in Ids
      BY <1>5 DEF Respond, TypeOK, Call
    <2>2. /\ \A p \in Orders \ {o} : call'[p] = call[p]
          /\ call'[o].pc = "done"
          /\ sequence' = sequence /\ deal' = deal
          /\ offer'[call[o].id] = call[o].tx
          /\ \A id \in Ids \ {call[o].id} : offer'[id] = offer[id]
      BY <1>5, <2>1 DEF Respond, TypeOK
    <2>3. call[o].tx # None => Current(call[o].tx.from, call[o].tx.seq, call[o].tx.knew)
      BY <1>5 DEF Respond, NumbersAreCurrent, CallIsCurrent
    <2>4. ASSUME NEW id \in Ids, id = call[o].id PROVE OfferIsCurrent(id)'
      BY <2>2, <2>3, <2>4 DEF OfferIsCurrent, Current, OwnDeal
    <2>5. CallIsCurrent(o)'
      BY <2>2 DEF CallIsCurrent
    <2> QED BY <1>1, <1>2, <2>2, <2>4, <2>5 DEF NumbersAreCurrent
  <1>6. ASSUME NEW o \in Orders, Receive(o) \/ BuildFails(o) \/ Lose(o)
        PROVE  NumbersAreCurrent'
    <2>1. /\ \A p \in Orders \ {o} : call'[p] = call[p]
          /\ offer' = offer
          /\ call'[o].pc # "prepare"
          /\ call'[o].pc # "respond" \/ call'[o].tx = None
      BY <1>6 DEF Receive, BuildFails, Lose, TypeOK, Idle
    <2>2. CallIsCurrent(o)'
      BY <2>1 DEF CallIsCurrent
    <2> QED BY <1>1, <1>2, <2>1, <2>2 DEF NumbersAreCurrent
  <1>7. ASSUME call' = call, \A id \in Ids : offer'[id] \in {offer[id], None}
        PROVE  NumbersAreCurrent'
    BY <1>1, <1>2, <1>7 DEF NumbersAreCurrent
  <1>8. CASE \E id \in Ids : ChainStep(id)
    BY <1>7, <1>8 DEF ChainStep, Expire, Submit, StrangerRegisters, FundDeal, Fund, TypeOK
  <1>9. CASE \E o \in Orders : OtherTransaction(o)
    BY <1>7, <1>9 DEF OtherTransaction
  <1> QED BY <1>3, <1>4, <1>5, <1>6, <1>8, <1>9 DEF Next, CreateStep

LEMMA OneKnewStep ==
  ASSUME TypeOK, TransactionsAreFaithful, NumbersAreCurrent, OneKnewOfTheOther, Next
  PROVE  OneKnewOfTheOther'
  <1>1. ASSUME \A id \in Ids : OwnDeal(id)' =>
                 /\ OwnDeal(id)
                 /\ deal'[id].knew = deal[id].knew /\ deal'[id].buyer = deal[id].buyer
        PROVE  OneKnewOfTheOther'
    BY <1>1 DEF OneKnewOfTheOther
  <1>2. ASSUME NEW id \in Ids, Submit(id) PROVE OneKnewOfTheOther'
    <2>1. CASE deal[id] # None
      BY <1>1, <1>2, <2>1 DEF Submit, OwnDeal
    <2>2. CASE deal[id] = None
      <3> DEFINE w == offer[id].from
                 t == RegisteredTerms(offer[id].args)
      <3>1. w \in Wallets /\ t.buyer = w
        BY <1>2, OffersAreTheBuyers DEF Submit
      <3>2. /\ deal'[id].knew = offer[id].knew /\ deal'[id].buyer = t.buyer
            /\ \A other \in Ids \ {id} : deal'[other] = deal[other]
        <4> HIDE DEF t
        <4> QED BY <1>2, <2>2 DEF Submit, TypeOK, t
      <3>3. offer[id].seq = sequence[w] + 1 /\ Current(w, offer[id].seq, offer[id].knew)
        BY <1>2 DEF Submit, NumbersAreCurrent, OfferIsCurrent
      <3>4. \A other \in Ids : OwnDeal(other) /\ deal[other].buyer = w => other \in offer[id].knew
        BY <3>3 DEF Current
      <3> HIDE DEF t, w
      <3>5. \A other \in Ids \ {id} : OwnDeal(other)' => OwnDeal(other)
        BY <3>2 DEF OwnDeal
      <3> QED BY <3>1, <3>2, <3>4, <3>5 DEF OneKnewOfTheOther
    <2> QED BY <2>1, <2>2
  <1>3. ASSUME NEW id \in Ids, StrangerRegisters(id) PROVE OneKnewOfTheOther'
    BY <1>1, <1>3 DEF StrangerRegisters, OwnDeal, TypeOK
  <1>4. ASSUME NEW id \in Ids, FundDeal(id) PROVE OneKnewOfTheOther'
    <2>1. deal[id] \in Deal
      BY <1>4 DEF FundDeal, TypeOK
    <2>2. /\ deal'[id].by = deal[id].by /\ deal'[id].knew = deal[id].knew
          /\ deal'[id].buyer = deal[id].buyer
          /\ \A other \in Ids \ {id} : deal'[other] = deal[other]
      BY <1>4, <2>1 DEF FundDeal, TypeOK, Deal
    <2> QED BY <1>1, <1>4, <2>2 DEF FundDeal, OwnDeal
  <1>5. ASSUME deal' = deal PROVE OneKnewOfTheOther'
    BY <1>1, <1>5 DEF OwnDeal
  <1>6. CASE \E o \in Orders : CreateStep(o)
    BY <1>5, <1>6 DEF CreateStep, Receive, GetAccount, Prepare, BuildFails, Respond, Lose
  <1>7. CASE \E id \in Ids : Expire(id) \/ Fund(id)
    BY <1>5, <1>7 DEF Expire, Fund
  <1>8. CASE \E o \in Orders : OtherTransaction(o)
    BY <1>5, <1>8 DEF OtherTransaction
  <1> QED BY <1>2, <1>3, <1>4, <1>6, <1>7, <1>8 DEF Next, ChainStep

-----------------------------------------------------------------------------
(* Theorems *)

LEMMA InitIInv == Init => IInv
  <1> SUFFICES ASSUME Init PROVE IInv
    OBVIOUS
  <1>1. TypeOK
    BY InitTyped
  <1>2. RowsAreConsecutive
    <2>1. {id \in Ids : Exists(id)} = 1..0 /\ 0 \in 0..MaxId
      BY IntakeAssumption DEF Init, Exists
    <2> QED BY <2>1 DEF RowsAreConsecutive
  <1>3. CallsHaveRows /\ RowsAreAsAsked /\ TransactionsAreFaithful /\ OwnDealsAreFaithful
    BY DEF Init, Idle, CallsHaveRows, CallHasRow, RowsAreAsAsked, RowIsAsAsked, Exists, TransactionsAreFaithful, AnswerIsFaithful,
           OfferIsFaithful, OwnDealsAreFaithful, OwnDealIsFaithful, OwnDeal
  <1>4. NumbersAreCurrent /\ OneKnewOfTheOther
    BY DEF Init, Idle, NumbersAreCurrent, CallIsCurrent, OfferIsCurrent, OneKnewOfTheOther, OwnDeal
  <1> QED BY <1>1, <1>2, <1>3, <1>4 DEF IInv

LEMMA StutterIInv ==
  ASSUME IInv, UNCHANGED vars
  PROVE  IInv'
  <1>1. TypeOK'
    BY TypeStep DEF IInv
  <1>2. RowsAreConsecutive' /\ CallsHaveRows' /\ RowsAreAsAsked'
    BY DEF IInv, vars, RowsAreConsecutive, CallsHaveRows, CallHasRow, Exists, ChainEligible,
           ResolveAssetContract, RowsAreAsAsked, RowIsAsAsked, Stored, SumCloseEnough, SumBlur,
           Blur, Abs
  <1>3. TransactionsAreFaithful' /\ OwnDealsAreFaithful'
    <2> USE DEF vars, Exists, AskedFor, RegisteredTerms, ChainEligible, ResolveAssetContract,
                ToContractAmount, Blur, Abs
    <2>1. ASSUME NEW o \in Orders PROVE AnswerIsFaithful(o)'
      <3>1. AnswerIsFaithful(o)
        BY DEF IInv, TransactionsAreFaithful
      <3> QED BY <3>1 DEF AnswerIsFaithful, Faithful
    <2>2. ASSUME NEW id \in Ids PROVE OfferIsFaithful(id)' /\ OwnDealIsFaithful(id)'
      <3>1. OfferIsFaithful(id) /\ OwnDealIsFaithful(id)
        BY DEF IInv, TransactionsAreFaithful, OwnDealsAreFaithful
      <3> QED BY <3>1 DEF OfferIsFaithful, OwnDealIsFaithful, OwnDeal, Faithful
    <2> QED BY <2>1, <2>2 DEF TransactionsAreFaithful, OwnDealsAreFaithful
  <1>4. NumbersAreCurrent' /\ OneKnewOfTheOther'
    BY DEF IInv, vars, NumbersAreCurrent, CallIsCurrent, OfferIsCurrent, Current,
           OneKnewOfTheOther, OwnDeal
  <1> QED BY <1>1, <1>2, <1>3, <1>4 DEF IInv

LEMMA StepIInv == IInv /\ [Next]_vars => IInv'
  <1> SUFFICES ASSUME IInv, [Next]_vars PROVE IInv'
    OBVIOUS
  <1>1. CASE UNCHANGED vars
    BY <1>1, StutterIInv
  <1>2. CASE Next
    BY <1>2, TypeStep, ConsecutiveStep, CallsStep, RowsAreAsAskedStep, TransactionsStep, OwnDealsStep, NumbersStep,
       OneKnewStep DEF IInv
  <1> QED BY <1>1, <1>2

LEMMA IntakeInvariant == Spec => []IInv
  BY InitIInv, StepIInv, PTL DEF Spec

\* Type correctness: rows, transactions and deals, with every transaction a call for
\* a positive amount between known wallets, for any number of orders and retries.
THEOREM IntakeTypeCorrect == Spec => []TypeOK
  <1>1. IInv => TypeOK
    BY DEF IInv
  <1> QED BY <1>1, IntakeInvariant, PTL

\* A deal registered from an offer is its row's deal, in wallets, token and amount, for any
\* orders between any wallets, any even number of grains to a stroop and any precision.
THEOREM DealsMatchTheirRows == Spec => []DealMatchesItsRow
  <1>1. IInv => DealMatchesItsRow
    <2> SUFFICES ASSUME IInv, NEW id \in Ids, OwnDeal(id)
                 PROVE  /\ Exists(id)
                        /\ deal[id].buyer = row[id].depositor
                        /\ deal[id].seller = row[id].beneficiary
                        /\ deal[id].arbiter = row[id].arbitrator
                        /\ row[id].asset \in {"XLM", "NATIVE"} => deal[id].token = Native
                        /\ row[id].asset = "USDC" => deal[id].token = Usdc
                        /\ row[id].asset # "EURX"
                        /\ LET asked == ask[row[id].order].amount IN
                           /\ 2 * Abs(deal[id].amount * Grain - asked) <= Grain + 2 * Blur(asked)
                           /\ Grain * Abs(deal[id].amount - row[id].amount) <= Grain + Blur(asked)
      BY DEF DealMatchesItsRow
    <2> DEFINE a == ask[row[id].order]
    <2>1. Exists(id) /\ AskedFor(a, deal[id]) /\ TypeOK
      BY DEF IInv, OwnDealsAreFaithful, OwnDealIsFaithful
    <2>2. /\ row[id].depositor = a.depositor /\ row[id].beneficiary = a.beneficiary
          /\ row[id].arbitrator = a.arbitrator /\ row[id].asset = a.asset
          /\ row[id].amount = Stored(a.amount)
      BY <2>1 DEF IInv, RowsAreAsAsked, RowIsAsAsked
    <2>3. row[id].order \in Orders
      BY <2>1 DEF TypeOK, Exists, Row
    <2>4. a.amount \in Nat
      BY <2>1, <2>3, AsksAreTyped
    <2> HIDE DEF a
    <2>5. deal[id].amount \in ToContractAmount(a.amount)
      BY <2>1 DEF AskedFor
    <2>6. /\ 2 * Abs(deal[id].amount * Grain - a.amount) <= Grain + 2 * Blur(a.amount)
          /\ Grain * Abs(deal[id].amount - row[id].amount) <= Grain + Blur(a.amount)
      BY <2>2, <2>4, <2>5, ContractAmountIsNearest
    <2>7. /\ deal[id].buyer = a.depositor /\ deal[id].seller = a.beneficiary
          /\ deal[id].arbiter = a.arbitrator /\ deal[id].token = ResolveAssetContract(a.asset)
      BY <2>1 DEF AskedFor
    <2>8. deal[id].token # None
      BY <2>1 DEF TypeOK, OwnDeal, Deal, Tokens
    <2>9. /\ row[id].asset \in {"XLM", "NATIVE"} => deal[id].token = Native
          /\ row[id].asset = "USDC" => deal[id].token = Usdc
          /\ row[id].asset # "EURX"
      BY <2>2, <2>7, <2>8 DEF ResolveAssetContract
    <2> QED BY <2>1, <2>2, <2>6, <2>7, <2>9 DEF a
  <1> QED BY <1>1, IntakeInvariant, PTL

\* Two deals for one order are never both registered by builders that knew nothing of
\* each other, for any number of retries, losses and other transactions.
THEOREM NoAccidentalDuplicates == Spec => []DuplicatesAreBuiltKnowingly
  <1>1. IInv => DuplicatesAreBuiltKnowingly
    <2> SUFFICES ASSUME IInv, NEW i \in Ids, NEW j \in Ids, i # j, OwnDeal(i), OwnDeal(j),
                        row[i].order = row[j].order
                 PROVE  i \in deal[j].knew \/ j \in deal[i].knew
      BY DEF DuplicatesAreBuiltKnowingly
    <2>1. deal[i].buyer = deal[j].buyer
      BY DEF IInv, OwnDealsAreFaithful, OwnDealIsFaithful, AskedFor
    <2> QED BY <2>1 DEF IInv, OneKnewOfTheOther
  <1> QED BY <1>1, IntakeInvariant, PTL
-----------------------------------------------------------------------------
(* Milestones *)

\* Numbers that are rounded one by one drift from their sum by half a stroop each, and the
\* sum that was checked by what binary numbers blur.
LEMMA RoundedSum ==
  ASSUME NEW asked \in Seq(Nat \ {0}), NEW amount \in Nat, SumCloseEnough(amount, asked)
  PROVE  LET stored == [i \in 1..Len(asked) |-> Stored(asked[i])]
         IN  2 * Grain * Abs(SumFunction(stored) - Stored(amount))
               <= Grain * (Len(stored) + 3) + 2 * SumBlur(amount, asked)
  <1> DEFINE n == Len(asked)
             stored == [i \in 1..n |-> Stored(asked[i])]
             S == 1..n
             s == Total(stored, S)
             g == Total(asked, S)
             a == Stored(amount)
  <1>1. PICK h \in Nat \ {0} : Grain = 2 * h /\ Grain \div 2 = h
    BY HalfGrain
  <1>2. /\ n \in Nat /\ IsFiniteSet(S) /\ Cardinality(S) = n
        /\ DOMAIN asked = S /\ DOMAIN stored = S
        /\ \A i \in S : asked[i] \in Nat
    <2>1. n \in Nat
      OBVIOUS
    <2>2. IsFiniteSet(S) /\ Cardinality(S) = n
      <3> HIDE DEF n
      <3> QED BY <2>1, FS_Interval
    <2>3. DOMAIN asked = S /\ \A i \in S : asked[i] \in Nat
      OBVIOUS
    <2> QED BY <2>1, <2>2, <2>3
  <1>3. Len(stored) = n
    BY <1>2
  <1>4. SumFunction(stored) = s /\ SumFunction(asked) = g
    BY <1>2 DEF SumFunction, SumFunctionOnSet, FoldFunctionOnSet, Total, MapThenSumSet
  <1>5. \A x \in Nat : /\ Stored(x) \in Nat
                       /\ Grain * Stored(x) - x <= h /\ x - Grain * Stored(x) <= h
    <2> SUFFICES ASSUME NEW x \in Nat
                 PROVE  /\ Stored(x) \in Nat
                        /\ Grain * Stored(x) - x <= h /\ x - Grain * Stored(x) <= h
      OBVIOUS
    <2> DEFINE p == Stored(x) * Grain
    <2>1. Stored(x) \in Nat /\ 2 * Abs(p - x) <= Grain
      BY StoredIsNearest
    <2>2. p \in Nat /\ p = Grain * Stored(x)
      BY <1>1, <2>1
    <2> HIDE DEF p
    <2>3. p - x <= h /\ x - p <= h
      BY <1>1, <2>1, <2>2 DEF Abs
    <2> QED BY <2>1, <2>2, <2>3
  <1>6. \A i \in S : /\ stored[i] \in Int /\ asked[i] \in Int
                     /\ Grain * stored[i] - asked[i] <= h /\ asked[i] - Grain * stored[i] <= h
    <2> SUFFICES ASSUME NEW i \in S
                 PROVE  /\ stored[i] \in Int /\ asked[i] \in Int
                        /\ Grain * stored[i] - asked[i] <= h
                        /\ asked[i] - Grain * stored[i] <= h
      OBVIOUS
    <2>1. asked[i] \in Nat /\ stored[i] = Stored(asked[i])
      BY <1>2
    <2> DEFINE x == asked[i]
    <2>2. /\ Stored(x) \in Nat
          /\ Grain * Stored(x) - x <= h /\ x - Grain * Stored(x) <= h
      BY <1>5, <2>1
    <2> HIDE DEF stored
    <2> QED BY <2>1, <2>2
  <1> HIDE DEF n, stored, S
  <1>7. /\ Grain * s - g <= h * n /\ g - Grain * s <= h * n
        /\ s \in Int /\ g \in Int
    <2>1. Grain \in Nat /\ h \in Nat
      BY <1>1
    <2>2. s \in Int /\ g \in Int
      BY <1>2, <1>6, TotalIsInt
    <2>3. /\ Grain * s - g <= h * Cardinality(S) /\ g - Grain * s <= h * Cardinality(S)
      BY <1>2, <1>6, <2>1, TotalsKeepPace
    <2> QED BY <1>2, <2>2, <2>3
  <1> DEFINE b == SumBlur(amount, asked)
  <1>8. b \in Nat /\ g - amount <= 2 * h + b /\ amount - g <= 2 * h + b
    <2>1. g \in Nat
      BY <1>2, TotalIsNat
    <2>2. n * g + amount \in Nat
      BY <1>2, <2>1
    <2>3. b = Blur(n * g + amount)
      BY <1>4 DEF SumBlur, n
    <2>4. b \in Nat
      BY <2>2, <2>3, BlurIsNat
    <2> HIDE DEF b
    <2>5. Abs(g - amount) <= Grain + b
      BY <1>4 DEF SumCloseEnough, b
    <2> QED BY <1>1, <1>7, <2>4, <2>5 DEF Abs
  <1>9. a \in Nat /\ Grain * a - amount <= h /\ amount - Grain * a <= h
    BY <1>5
  <1> HIDE DEF s, g, a, b
  <1>10. /\ Grain * s - Grain * a <= h * n + 3 * h + b
         /\ Grain * a - Grain * s <= h * n + 3 * h + b
    <2>1. Grain * s \in Int /\ Grain * a \in Int /\ h * n \in Int
      BY <1>1, <1>2, <1>7, <1>9
    <2> QED BY <1>1, <1>7, <1>8, <1>9, <2>1
  <1>11. /\ 2 * Grain * (s - a) <= Grain * (n + 3) + 2 * b
         /\ 2 * Grain * (a - s) <= Grain * (n + 3) + 2 * b
    <2>1. /\ 2 * Grain * (s - a) = 2 * (Grain * s - Grain * a)
          /\ 2 * Grain * (a - s) = 2 * (Grain * a - Grain * s)
          /\ Grain * (n + 3) = 2 * (h * n + 3 * h)
      BY <1>1, <1>2, <1>7, <1>9
    <2>2. Grain * s \in Int /\ Grain * a \in Int /\ h * n \in Int /\ h \in Int /\ b \in Int
      BY <1>1, <1>2, <1>7, <1>8, <1>9
    <2> DEFINE p == Grain * s
               q == Grain * a
               m == h * n
    <2>3. /\ p \in Int /\ q \in Int /\ m \in Int /\ h \in Int /\ b \in Int
          /\ p - q <= m + 3 * h + b /\ q - p <= m + 3 * h + b
      BY <1>10, <2>2
    <2>4. /\ 2 * Grain * (s - a) = 2 * (p - q)
          /\ 2 * Grain * (a - s) = 2 * (q - p)
          /\ Grain * (n + 3) = 2 * (m + 3 * h)
      BY <2>1
    <2> HIDE DEF p, q, m
    <2>5. /\ 2 * (p - q) <= 2 * (m + 3 * h) + 2 * b
          /\ 2 * (q - p) <= 2 * (m + 3 * h) + 2 * b
      BY <2>3
    <2> QED BY <2>4, <2>5
  <1>12. 2 * Grain * Abs(s - a) <= Grain * (n + 3) + 2 * b
    <2>1. CASE s - a < 0
      <3>1. Abs(s - a) = a - s
        BY <1>7, <1>9, <2>1 DEF Abs
      <3> QED BY <1>11, <3>1
    <2>2. CASE ~(s - a < 0)
      <3>1. Abs(s - a) = s - a
        BY <1>7, <1>9, <2>2 DEF Abs
      <3> QED BY <1>11, <3>1
    <2> QED BY <2>1, <2>2
  <1> QED BY <1>2, <1>3, <1>4, <1>12 DEF a, n, stored, b

\* create() checks the milestones in binary and stores each number rounded: whatever the
\* request, those of a row sum to its amount up to one stroop, half a stroop for each
\* number stored and what the sum in binary is off by.
THEOREM MilestonesSumUp == Spec => []MilestonesCoverAmount
  <1>1. IInv => MilestonesCoverAmount
    <2> SUFFICES ASSUME TypeOK, RowsAreAsAsked, NEW id \in Ids, Exists(id),
                        row[id].milestones # <<>>
                 PROVE  LET a == ask[row[id].order] IN
                        2 * Grain * Abs(SumFunction(row[id].milestones) - row[id].amount)
                          <= Grain * (Len(row[id].milestones) + 3)
                               + 2 * SumBlur(a.amount, a.milestones)
      BY DEF IInv, MilestonesCoverAmount
    <2> DEFINE a == ask[row[id].order]
    <2>1. row[id].order \in Orders
      BY DEF TypeOK, Exists, Row
    <2>2. a.milestones \in Seq(Nat \ {0}) /\ a.amount \in Nat
      BY <2>1, AsksAreTyped
    <2>3. /\ row[id].amount = Stored(a.amount)
          /\ row[id].milestones = [i \in 1..Len(a.milestones) |-> Stored(a.milestones[i])]
          /\ a.milestones # <<>> => SumCloseEnough(a.amount, a.milestones)
      BY DEF RowsAreAsAsked, RowIsAsAsked
    <2> HIDE DEF a
    <2>4. a.milestones # <<>>
      BY <2>2, <2>3
    <2>5. 2 * Grain * Abs(SumFunction(row[id].milestones) - row[id].amount)
            <= Grain * (Len(row[id].milestones) + 3) + 2 * SumBlur(a.amount, a.milestones)
      BY <2>2, <2>3, <2>4, RoundedSum
    <2> QED BY <2>5 DEF a
  <1> QED BY <1>1, IntakeInvariant, PTL

=============================================================================
