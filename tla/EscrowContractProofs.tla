------------------------- MODULE EscrowContractProofs -------------------------
(***************************************************************************)
(* Theorems about EscrowContract, for any number of deals, parties, tokens *)
(* and amounts and any time-to-live constants, and, in the last section,   *)
(* about EscrowSystem, the contract with the backend's handlers beside it. *)
(***************************************************************************)
EXTENDS EscrowSystem, FiniteSums

\* A disputed deal never leads back to one that release, refund or dispute
\* would accept: what TypeOK must be strengthened with.
DisputeLeadsOn == \A id \in disputed : Status(id) \in {"Disputed"} \cup Settled

IInv ==
  /\ TypeOK
  /\ DisputeLeadsOn
  /\ SettledByTheRightSignature
  /\ TouchedIsReachable

-----------------------------------------------------------------------------
(* Lemmas about the operators the calls are built from *)

\* An entry that exists is an Escrow record.
LEMMA PresentIsEscrow ==
  ASSUME TypeOK, NEW id \in Ids, Has(id)
  PROVE  escrows[id] \in Escrow
  BY DEF TypeOK, Has, Status, NoEscrow

\* Changing the status of an entry that exists keeps it an Escrow record, keeps
\* its terms, and leaves every other entry alone.
LEMMA SetStatusEffect ==
  ASSUME TypeOK, NEW id \in Ids, Has(id),
         NEW s \in {"Created"} \cup Held \cup Settled,
         escrows' = [escrows EXCEPT ![id].status = s]
  PROVE  /\ escrows' \in [Ids -> Escrow \cup {NoEscrow}]
         /\ escrows'[id] \in Escrow
         /\ escrows'[id] = [escrows[id] EXCEPT !.status = s]
         /\ \A other \in Ids \ {id} : escrows'[other] = escrows[other]
  <1>1. escrows[id] \in Escrow
    BY PresentIsEscrow
  <1>2. [escrows[id] EXCEPT !.status = s] \in Escrow
    BY <1>1 DEF Escrow
  <1> QED BY <1>1, <1>2 DEF TypeOK

\* A touch leaves more than the threshold to go, and disturbs no other entry.
LEMMA TouchEffect ==
  ASSUME TypeOK, NEW id \in Ids, NEW t \in Nat, Touch(id, t)
  PROVE  /\ ttl' \in [Ids -> Nat]
         /\ ttl'[id] > TtlThreshold
         /\ idle' \in [Ids -> 0..(TtlThreshold + 1)]
         /\ idle'[id] = 0
         /\ \A other \in Ids \ {id} : ttl'[other] = ttl[other] /\ idle'[other] = idle[other]
  BY TtlAssumption DEF TypeOK, Touch, Bump

\* A transfer of a positive amount keeps every balance a natural number.
LEMMA TransferEffect ==
  ASSUME TypeOK, NEW token \in Tokens, NEW from \in Addresses, NEW to \in Addresses,
         NEW amount \in Wanted, Transfer(token, from, to, amount)
  PROVE  balance' \in [Tokens -> [Addresses -> Nat]]
  <1>1. amount \in Nat
    BY AmountAssumption DEF Wanted
  <1>2. balance[token][from] \in Nat /\ balance[token][to] \in Nat
    BY DEF TypeOK
  <1>3. CASE from = to
    BY <1>3 DEF Transfer, TypeOK
  <1>4. CASE from # to
    <2>1. balance' = [balance EXCEPT ![token] =
                        [balance[token] EXCEPT ![from] = @ - amount, ![to] = @ + amount]]
      BY <1>4 DEF Transfer, TypeOK
    <2>2. [balance[token] EXCEPT ![from] = @ - amount, ![to] = @ + amount]
            \in [Addresses -> Nat]
      BY <1>1, <1>2, <1>4 DEF Transfer, TypeOK
    <2> QED BY <2>1, <2>2 DEF TypeOK
  <1> QED BY <1>3, <1>4

-----------------------------------------------------------------------------
(* The inductive invariant *)

LEMMA InitIInv == Init => IInv
  <1> SUFFICES ASSUME Init PROVE IInv
    OBVIOUS
  <1>1. TypeOK
    BY BalanceAssumption, TtlAssumption DEF Init, TypeOK
  <1>2. \A id \in Ids : Status(id) = "Absent"
    BY DEF Init, Status, NoEscrow
  <1> QED BY <1>1, <1>2
    DEF Init, IInv, DisputeLeadsOn, SettledByTheRightSignature, TouchedIsReachable, Has, Settled

\* What Release, Refund and Resolve share: one signature settles one deal.
LEMMA SettlementStep ==
  ASSUME IInv, NEW id \in Ids, NEW signer \in Parties, NEW outcome \in Settled,
         NEW to \in Addresses,
         Reachable(id), Payout(id, to), SetStatus(id, outcome),
         settledBy' = [settledBy EXCEPT ![id] = signer],
         UNCHANGED disputed,
         \/ signer = escrows[id].arbiter
         \/ id \notin disputed /\ outcome = "Released" /\ signer = escrows[id].buyer
         \/ id \notin disputed /\ outcome = "Refunded" /\ signer = escrows[id].seller
  PROVE  IInv'
  <1>1. TypeOK /\ Has(id)
    BY DEF IInv, Reachable
  <1>2. escrows[id] \in Escrow
    BY <1>1, PresentIsEscrow
  <1>3. /\ escrows' \in [Ids -> Escrow \cup {NoEscrow}]
        /\ escrows'[id] = [escrows[id] EXCEPT !.status = outcome]
        /\ \A other \in Ids \ {id} : escrows'[other] = escrows[other]
    BY <1>1, SetStatusEffect DEF SetStatus, Settled
  <1>4. /\ escrows'[id].status = outcome
        /\ escrows'[id].buyer = escrows[id].buyer
        /\ escrows'[id].seller = escrows[id].seller
        /\ escrows'[id].arbiter = escrows[id].arbiter
    BY <1>2, <1>3 DEF Escrow
  <1>5. /\ ttl' \in [Ids -> Nat]
        /\ ttl'[id] > TtlThreshold
        /\ idle' \in [Ids -> 0..(TtlThreshold + 1)]
        /\ idle'[id] = 0
        /\ \A other \in Ids \ {id} : ttl'[other] = ttl[other] /\ idle'[other] = idle[other]
    <2>1. ttl[id] \in Nat
      BY <1>1 DEF TypeOK
    <2>2. Touch(id, ttl[id])
      BY DEF SetStatus
    <2> QED BY <1>1, <2>1, <2>2, TouchEffect
  <1>6. balance' \in [Tokens -> [Addresses -> Nat]]
    <2>1. /\ escrows[id].token \in Tokens
          /\ escrows[id].amount \in Wanted
          /\ Self \in Addresses
      BY <1>2 DEF Escrow, Addresses
    <2> QED BY <1>1, <2>1, TransferEffect DEF Payout
  <1>7. TypeOK'
    BY <1>1, <1>3, <1>5, <1>6 DEF TypeOK
  <1>8. DisputeLeadsOn'
    BY <1>1, <1>3, <1>4 DEF IInv, DisputeLeadsOn, Status, TypeOK
  <1>9. SettledByTheRightSignature'
    <2> SUFFICES ASSUME NEW other \in Ids, escrows'[other].status \in Settled
                 PROVE  LET e == escrows'[other] IN
                        \/ settledBy'[other] = e.arbiter
                        \/ other \notin disputed' /\ e.status = "Released" /\ settledBy'[other] = e.buyer
                        \/ other \notin disputed' /\ e.status = "Refunded" /\ settledBy'[other] = e.seller
      BY DEF SettledByTheRightSignature, Status
    <2>1. CASE other = id
      BY <1>1, <1>4, <2>1 DEF TypeOK
    <2>2. CASE other # id
      BY <1>1, <1>3, <2>2 DEF IInv, SettledByTheRightSignature, Status, TypeOK
    <2> QED BY <2>1, <2>2
  <1>10. TouchedIsReachable'
    <2> SUFFICES ASSUME NEW other \in Ids, Has(other)', idle'[other] <= TtlThreshold
                 PROVE  ttl'[other] + idle'[other] > TtlThreshold
      BY DEF TouchedIsReachable
    <2>1. CASE other = id
      BY <1>5, <2>1, TtlAssumption
    <2>2. CASE other # id
      BY <1>3, <1>5, <2>2 DEF IInv, TouchedIsReachable, Has, Status
    <2> QED BY <2>1, <2>2
  <1> QED BY <1>7, <1>8, <1>9, <1>10 DEF IInv

\* What the calls that settle nothing share: one entry gets a status that is not
\* a settlement, or none does, and the history stays.
LEMMA OpenStep ==
  ASSUME IInv, NEW id \in Ids, NEW s \in {"Created"} \cup Held, NEW t \in Nat,
         escrows' \in [Ids -> Escrow \cup {NoEscrow}],
         escrows'[id] \in Escrow, escrows'[id].status = s,
         \A other \in Ids \ {id} : escrows'[other] = escrows[other],
         Touch(id, t),
         balance' \in [Tokens -> [Addresses -> Nat]],
         disputed' \in {disputed, disputed \cup {id}},
         id \in disputed' => s = "Disputed",
         UNCHANGED settledBy
  PROVE  IInv'
  <1>1. TypeOK
    BY DEF IInv
  <1>2. /\ ttl' \in [Ids -> Nat]
        /\ ttl'[id] > TtlThreshold
        /\ idle' \in [Ids -> 0..(TtlThreshold + 1)]
        /\ idle'[id] = 0
        /\ \A other \in Ids \ {id} : ttl'[other] = ttl[other] /\ idle'[other] = idle[other]
    BY <1>1, TouchEffect
  <1>3. TypeOK'
    BY <1>1, <1>2 DEF TypeOK
  <1>4. DisputeLeadsOn'
    BY <1>1 DEF IInv, DisputeLeadsOn, Status, TypeOK
  <1>5. SettledByTheRightSignature'
    <2> SUFFICES ASSUME NEW other \in Ids, escrows'[other].status \in Settled
                 PROVE  LET e == escrows'[other] IN
                        \/ settledBy'[other] = e.arbiter
                        \/ other \notin disputed' /\ e.status = "Released" /\ settledBy'[other] = e.buyer
                        \/ other \notin disputed' /\ e.status = "Refunded" /\ settledBy'[other] = e.seller
      BY DEF SettledByTheRightSignature, Status
    <2>1. other # id
      BY DEF Settled, Held
    <2> QED BY <2>1 DEF IInv, SettledByTheRightSignature, Status
  <1>6. TouchedIsReachable'
    <2> SUFFICES ASSUME NEW other \in Ids, Has(other)', idle'[other] <= TtlThreshold
                 PROVE  ttl'[other] + idle'[other] > TtlThreshold
      BY DEF TouchedIsReachable
    <2>1. CASE other = id
      BY <1>2, <2>1, TtlAssumption
    <2>2. CASE other # id
      BY <1>2, <2>2 DEF IInv, TouchedIsReachable, Has, Status
    <2> QED BY <2>1, <2>2
  <1> QED BY <1>3, <1>4, <1>5, <1>6 DEF IInv

\* What reading and restoring an entry share: only the clocks move, and no entry
\* loses time it had.
LEMMA ClockStep ==
  ASSUME IInv,
         ttl' \in [Ids -> Nat], idle' \in [Ids -> 0..(TtlThreshold + 1)],
         \A id \in Ids : idle'[id] <= TtlThreshold =>
           \/ ttl'[id] + idle'[id] >= ttl[id] + idle[id] /\ idle[id] <= TtlThreshold
           \/ ttl'[id] > TtlThreshold,
         UNCHANGED <<escrows, balance, disputed, settledBy>>
  PROVE  IInv'
  <1>1. TypeOK' /\ DisputeLeadsOn' /\ SettledByTheRightSignature'
    BY DEF IInv, TypeOK, DisputeLeadsOn, SettledByTheRightSignature, Status
  <1>2. TouchedIsReachable'
    <2> SUFFICES ASSUME NEW id \in Ids, Has(id)', idle'[id] <= TtlThreshold
                 PROVE  ttl'[id] + idle'[id] > TtlThreshold
      BY DEF TouchedIsReachable
    <2>1. Has(id)
      BY DEF Has, Status
    <2>2. /\ ttl[id] \in Nat /\ idle[id] \in Nat
          /\ ttl'[id] \in Nat /\ idle'[id] \in Nat
      BY TtlAssumption DEF IInv, TypeOK
    <2> QED BY <2>1, <2>2, TtlAssumption DEF IInv, TouchedIsReachable
  <1> QED BY <1>1, <1>2 DEF IInv

LEMMA NextIInv == IInv /\ [Next]_vars => IInv'
  <1> SUFFICES ASSUME IInv, [Next]_vars PROVE IInv'
    OBVIOUS
  <1>0. TypeOK /\ DisputeLeadsOn
    BY DEF IInv
  <1>1. ASSUME NEW id \in Ids,
               NEW buyer \in Parties, NEW seller \in Addresses, NEW arbiter \in Addresses,
               NEW token \in Tokens, NEW amount \in Amounts,
               CreateEscrow(id, [buyer |-> buyer, seller |-> seller, arbiter |-> arbiter,
                                 token |-> token, amount |-> amount, status |-> "Created"])
        PROVE  IInv'
    <2> DEFINE e == [buyer |-> buyer, seller |-> seller, arbiter |-> arbiter,
                     token |-> token, amount |-> amount, status |-> "Created"]
    <2>1. /\ amount > 0 /\ ~Has(id)
          /\ escrows' = [escrows EXCEPT ![id] = e]
          /\ Touch(id, MinPersistentTtl)
          /\ UNCHANGED <<balance, disputed, settledBy>>
      BY <1>1 DEF CreateEscrow
    <2>2. e \in Escrow /\ e.status = "Created"
      BY <2>1 DEF Escrow, Wanted
    <2>3. /\ escrows' \in [Ids -> Escrow \cup {NoEscrow}]
          /\ escrows'[id] = e
          /\ \A other \in Ids \ {id} : escrows'[other] = escrows[other]
      BY <1>0, <2>1, <2>2 DEF TypeOK
    <2>4. balance' \in [Tokens -> [Addresses -> Nat]]
      BY <1>0, <2>1 DEF TypeOK
    <2>5. id \notin disputed'
      BY <1>0, <2>1 DEF DisputeLeadsOn, Has, Settled
    <2> HIDE DEF e
    <2> QED BY <2>1, <2>2, <2>3, <2>4, <2>5, TtlAssumption, OpenStep
  <1>2. ASSUME NEW id \in Ids, Fund(id) PROVE IInv'
    <2>1. Has(id) /\ Status(id) = "Created" /\ SetStatus(id, "Funded")
          /\ UNCHANGED <<disputed, settledBy>>
      BY <1>2 DEF Fund, Reachable
    <2>2. escrows[id] \in Escrow
      BY <1>0, <2>1, PresentIsEscrow
    <2>3. /\ escrows' \in [Ids -> Escrow \cup {NoEscrow}]
          /\ escrows'[id] \in Escrow
          /\ escrows'[id].status = "Funded"
          /\ \A other \in Ids \ {id} : escrows'[other] = escrows[other]
      BY <1>0, <2>1, <2>2, SetStatusEffect DEF SetStatus, Held, Escrow
    <2>4. balance' \in [Tokens -> [Addresses -> Nat]]
      BY <1>0, <1>2, <2>2, TransferEffect DEF Fund, Escrow, Addresses
    <2>5. id \notin disputed'
      BY <1>0, <2>1 DEF DisputeLeadsOn, Settled
    <2>6. ttl[id] \in Nat /\ Touch(id, ttl[id])
      BY <1>0, <2>1 DEF TypeOK, SetStatus
    <2> QED BY <2>1, <2>3, <2>4, <2>5, <2>6, OpenStep DEF Held
  <1>3. ASSUME NEW id \in Ids, NEW caller \in Parties, Release(id, caller) PROVE IInv'
    <2>1. escrows[id] \in Escrow /\ id \notin disputed
      BY <1>0, <1>3, PresentIsEscrow
      DEF Release, Reachable, RequireFunded, DisputeLeadsOn, Settled
    <2>2. escrows[id].seller \in Addresses /\ "Released" \in Settled
      BY <2>1 DEF Escrow, Settled
    <2> QED BY <1>3, <2>1, <2>2, SettlementStep DEF Release
  <1>4. ASSUME NEW id \in Ids, NEW caller \in Parties, Refund(id, caller) PROVE IInv'
    <2>1. escrows[id] \in Escrow /\ id \notin disputed
      BY <1>0, <1>4, PresentIsEscrow
      DEF Refund, Reachable, RequireFunded, DisputeLeadsOn, Settled
    <2>2. escrows[id].buyer \in Addresses /\ "Refunded" \in Settled
      BY <2>1 DEF Escrow, Settled, Addresses
    <2> QED BY <1>4, <2>1, <2>2, SettlementStep DEF Refund
  <1>5. ASSUME NEW id \in Ids, NEW caller \in Parties, Dispute(id, caller) PROVE IInv'
    <2>1. Has(id) /\ SetStatus(id, "Disputed") /\ disputed' = disputed \cup {id}
          /\ UNCHANGED <<balance, settledBy>>
      BY <1>5 DEF Dispute, Reachable
    <2>2. escrows[id] \in Escrow
      BY <1>0, <2>1, PresentIsEscrow
    <2>3. /\ escrows' \in [Ids -> Escrow \cup {NoEscrow}]
          /\ escrows'[id] \in Escrow
          /\ escrows'[id].status = "Disputed"
          /\ \A other \in Ids \ {id} : escrows'[other] = escrows[other]
      BY <1>0, <2>1, <2>2, SetStatusEffect DEF SetStatus, Held, Escrow
    <2>4. /\ balance' \in [Tokens -> [Addresses -> Nat]]
          /\ ttl[id] \in Nat /\ Touch(id, ttl[id])
      BY <1>0, <2>1 DEF TypeOK, SetStatus
    <2> QED BY <2>1, <2>3, <2>4, OpenStep DEF Held
  <1>6. ASSUME NEW id \in Ids, NEW signer \in Parties, NEW toSeller \in BOOLEAN,
               Resolve(id, signer, toSeller)
        PROVE  IInv'
    <2>1. escrows[id] \in Escrow
      BY <1>0, <1>6, PresentIsEscrow DEF Resolve, Reachable
    <2>2. /\ escrows[id].seller \in Addresses /\ escrows[id].buyer \in Addresses
          /\ "Released" \in Settled /\ "Refunded" \in Settled
      BY <2>1 DEF Escrow, Settled, Addresses
    <2>3. CASE toSeller
      BY <1>6, <2>2, <2>3, SettlementStep DEF Resolve
    <2>4. CASE ~toSeller
      BY <1>6, <2>2, <2>4, SettlementStep DEF Resolve
    <2> QED BY <2>3, <2>4
  <1>7. ASSUME NEW id \in Ids, GetEscrow(id) PROVE IInv'
    <2>1. ttl[id] \in Nat /\ idle' = [idle EXCEPT ![id] = 0]
          /\ ttl' = [ttl EXCEPT ![id] = Bump(ttl[id])]
          /\ UNCHANGED <<escrows, balance, disputed, settledBy>>
      BY <1>0, <1>7 DEF GetEscrow, Touch, TypeOK
    <2>2. /\ ttl' \in [Ids -> Nat] /\ ttl'[id] > TtlThreshold
          /\ idle' \in [Ids -> 0..(TtlThreshold + 1)]
          /\ \A other \in Ids \ {id} : ttl'[other] = ttl[other] /\ idle'[other] = idle[other]
      BY <1>0, <2>1, TouchEffect DEF Touch
    <2>3. \A other \in Ids : ttl[other] \in Nat /\ idle[other] \in Nat
      BY <1>0, TtlAssumption DEF TypeOK
    <2> QED BY <2>1, <2>2, <2>3, ClockStep
  <1>8. CASE AdvanceLedger
    <2>1. \A id \in Ids : ttl[id] \in Nat /\ idle[id] \in 0..(TtlThreshold + 1)
      BY <1>0 DEF TypeOK
    <2>2. ttl' \in [Ids -> Nat] /\ idle' \in [Ids -> 0..(TtlThreshold + 1)]
      BY <1>8, <2>1, TtlAssumption DEF AdvanceLedger
    <2>3. \A id \in Ids : idle'[id] <= TtlThreshold =>
            (Has(id) => ttl'[id] + idle'[id] > TtlThreshold)
      <3> SUFFICES ASSUME NEW id \in Ids, idle'[id] <= TtlThreshold, Has(id)
                   PROVE  ttl'[id] + idle'[id] > TtlThreshold
        OBVIOUS
      <3>1. idle[id] <= TtlThreshold /\ idle'[id] = idle[id] + 1
        BY <1>8, <2>1, TtlAssumption DEF AdvanceLedger
      <3>2. ttl[id] + idle[id] > TtlThreshold
        BY <3>1 DEF IInv, TouchedIsReachable
      <3> QED BY <1>8, <2>1, <3>1, <3>2, TtlAssumption DEF AdvanceLedger
    <2>4. TouchedIsReachable'
      BY <1>8, <2>3 DEF TouchedIsReachable, Has, Status, AdvanceLedger
    <2> QED BY <1>8, <2>2, <2>4
      DEF AdvanceLedger, IInv, TypeOK, DisputeLeadsOn, SettledByTheRightSignature, Status
  <1>9. ASSUME NEW id \in Ids, RestoreEntry(id) PROVE IInv'
    <2>1. /\ ttl' = [ttl EXCEPT ![id] = MinPersistentTtl]
          /\ ttl[id] = 0
          /\ UNCHANGED <<escrows, balance, idle, disputed, settledBy>>
      BY <1>9 DEF RestoreEntry
    <2>2. \A other \in Ids : /\ ttl[other] \in Nat /\ ttl'[other] \in Nat
                             /\ idle[other] \in Nat /\ ttl'[other] >= ttl[other]
      BY <1>0, <2>1, TtlAssumption DEF TypeOK
    <2>3. ttl' \in [Ids -> Nat] /\ idle' \in [Ids -> 0..(TtlThreshold + 1)]
      BY <1>0, <2>1, TtlAssumption DEF TypeOK
    <2> QED BY <2>1, <2>2, <2>3, ClockStep
  <1>10. CASE UNCHANGED vars
    BY <1>10 DEF vars, IInv, TypeOK, DisputeLeadsOn, SettledByTheRightSignature,
                 TouchedIsReachable, Has, Status
  <1> QED BY <1>1, <1>2, <1>3, <1>4, <1>5, <1>6, <1>7, <1>8, <1>9, <1>10 DEF Next, Call

LEMMA AlwaysIInv == Spec => []IInv
  <1> QED BY InitIInv, NextIInv, PTL DEF Spec

-----------------------------------------------------------------------------
(* Safety *)

\* The contract's state has its type in every reachable state: balances never go
\* negative, and every entry is absent or a complete Escrow with a positive amount.
THEOREM TypeCorrect == Spec => []TypeOK
  <1>1. IInv => TypeOK
    BY DEF IInv
  <1> QED BY <1>1, AlwaysIInv, PTL

\* release, refund, dispute and resolve: money that has left a deal left it on the
\* signature the deal's history entitles, and after a dispute only the arbiter's.
THEOREM SettlementIsSigned == Spec => []SettledByTheRightSignature
  <1>1. IInv => SettledByTheRightSignature
    BY DEF IInv
  <1> QED BY <1>1, AlwaysIInv, PTL

\* extend_ttl in require_escrow and write_escrow: no entry touched within the last
\* ESCROW_TTL_THRESHOLD ledgers is archived, whatever the calls before.
THEOREM TouchedStaysReachable == Spec => []TouchedIsReachable
  <1>1. IInv => TouchedIsReachable
    BY DEF IInv
  <1> QED BY <1>1, AlwaysIInv, PTL

-----------------------------------------------------------------------------
(* What a step does to one deal: the facts both refinements rest on *)

\* A call that sets the status of an entry keeps its terms.
LEMMA SetStatusKeepsTerms ==
  ASSUME TypeOK, NEW id \in Ids, Has(id), NEW s \in {"Created"} \cup Held \cup Settled,
         SetStatus(id, s)
  PROVE  /\ escrows'[id].status = s
         /\ \A f \in {"buyer", "seller", "arbiter", "token", "amount"} :
              escrows'[id][f] = escrows[id][f]
         /\ \A other \in Ids \ {id} : escrows'[other] = escrows[other]
  <1>1. escrows[id] \in Escrow
    BY PresentIsEscrow
  <1>2. /\ escrows'[id] = [escrows[id] EXCEPT !.status = s]
        /\ \A other \in Ids \ {id} : escrows'[other] = escrows[other]
    BY SetStatusEffect DEF SetStatus
  <1>3. DOMAIN escrows[id] = {"buyer", "seller", "arbiter", "token", "amount", "status"}
    BY <1>1 DEF Escrow
  <1> QED BY <1>1, <1>2, <1>3 DEF Escrow

\* Every call but the first leaves the terms of the deal alone.
LEMMA NextKeepsTerms ==
  ASSUME TypeOK, [Next]_vars, NEW id \in Ids, Has(id)
  PROVE  /\ Has(id)'
         /\ \A f \in {"buyer", "seller", "arbiter", "token", "amount"} :
              escrows'[id][f] = escrows[id][f]
  <1> DEFINE Kept == /\ Has(id)'
                     /\ \A f \in {"buyer", "seller", "arbiter", "token", "amount"} :
                          escrows'[id][f] = escrows[id][f]
  <1>1. ASSUME escrows'[id] = escrows[id] PROVE Kept
    BY <1>1 DEF Has, Status
  <1>2. ASSUME NEW other \in Ids, NEW s \in {"Created"} \cup Held \cup Settled,
               Has(other), SetStatus(other, s)
        PROVE  Kept
    <2>1. CASE other = id
      BY <1>2, <2>1, SetStatusKeepsTerms DEF Has, Status, Held, Settled
    <2>2. CASE other # id
      BY <1>1, <1>2, <2>2, SetStatusKeepsTerms
    <2> QED BY <2>1, <2>2
  <1>3. ASSUME NEW other \in Ids, NEW e, CreateEscrow(other, e) PROVE Kept
    <2>1. other # id
      BY <1>3 DEF CreateEscrow
    <2> QED BY <1>1, <1>3, <2>1 DEF CreateEscrow, TypeOK
  <1>4. ASSUME NEW other \in Ids, Fund(other) PROVE Kept
    BY <1>2, <1>4 DEF Fund, Reachable, Held
  <1>5. ASSUME NEW other \in Ids, NEW caller \in Parties,
               Release(other, caller) \/ Refund(other, caller) \/ Dispute(other, caller)
        PROVE  Kept
    BY <1>2, <1>5 DEF Release, Refund, Dispute, Reachable, Held, Settled
  <1>6. ASSUME NEW other \in Ids, NEW signer \in Parties, NEW toSeller \in BOOLEAN,
               Resolve(other, signer, toSeller)
        PROVE  Kept
    <2>1. (IF toSeller THEN "Released" ELSE "Refunded") \in Settled
      BY DEF Settled
    <2> QED BY <1>2, <1>6, <2>1 DEF Resolve, Reachable
  <1>7. ASSUME UNCHANGED escrows PROVE Kept
    BY <1>1, <1>7
  <1> HIDE DEF Kept
  <1>8. Kept
    BY <1>3, <1>4, <1>5, <1>6, <1>7
    DEF Next, Call, GetEscrow, RestoreEntry, AdvanceLedger, vars
  <1> QED BY <1>8 DEF Kept

\* Once create_escrow has stored a deal, no call ever changes who it is between,
\* in which token, or for how much.
THEOREM TermsAreFixed == Spec => TermsNeverChange
  <1>1. TypeOK /\ [Next]_vars =>
          [\A id \in Ids : Has(id) =>
             /\ Has(id)'
             /\ \A f \in {"buyer", "seller", "arbiter", "token", "amount"} :
                  escrows'[id][f] = escrows[id][f]]_vars
    BY NextKeepsTerms
  <1> QED BY <1>1, TypeCorrect, PTL DEF Spec, TermsNeverChange

-----------------------------------------------------------------------------
(* The pool *)

Custody(token) == HeldOf(token) \cup StrandedOf(token)

\* An amount that create_escrow accepts is above zero.
LEMMA WantedIsPositive == \A amount \in Wanted : amount \in Nat \ {0}
  BY AmountAssumption DEF Wanted

\* What the deals of a set are worth together.
Owed(deals, S) == Total([id \in S |-> deals[id].amount], S)

\* What one deal adds to that.
Part(deals, S, d) == IF d \in S THEN deals[d].amount ELSE 0

HaveAmounts(deals, S) == \A id \in S : deals[id].amount \in Nat

Share(id, token) == Part(escrows, Custody(token), id)

\* Whether a deal with this status and seller is money in the pool.
InPool(s, seller) == s \in Held \/ (s = "Released" /\ seller = Self)

\* Each step moves one deal, so that only finitely many are ever in custody.
CustodyIsFinite == \A token \in Tokens : IsFiniteSet(Custody(token))

PoolIInv == TypeOK /\ CustodyIsFinite /\ PoolCoversEveryDeal

\* The sum PoolCoversEveryDeal takes, as the lemmas on sums speak of it.
PoolIsTotal ==
  \A token \in Tokens : balance[token][Self] = Owed(escrows, Custody(token))

LEMMA PoolAsTotal == PoolCoversEveryDeal <=> PoolIsTotal
  <1>1. ASSUME NEW S
        PROVE  MapThenSumSet(LAMBDA id : escrows[id].amount, S) = Owed(escrows, S)
    BY ZenonT(60) DEF MapThenSumSet, MapThenFoldSet, Total, Owed
  <1>2. \A token \in Tokens :
          MapThenSumSet(LAMBDA id : escrows[id].amount, HeldOf(token) \cup StrandedOf(token))
            = Owed(escrows, Custody(token))
    BY <1>1 DEF Custody
  <1> QED BY <1>2 DEF PoolCoversEveryDeal, PoolIsTotal

\* Whatever is in custody exists, and is an amount above zero.
CustodyHasAmounts ==
  \A token \in Tokens :
    /\ Custody(token) \in SUBSET Ids
    /\ \A id \in Custody(token) : escrows[id].amount \in Nat \ {0}

LEMMA CustodyAmounts == TypeOK => CustodyHasAmounts
  <1> SUFFICES ASSUME TypeOK, NEW token \in Tokens
               PROVE  /\ Custody(token) \in SUBSET Ids
                      /\ \A id \in Custody(token) : escrows[id].amount \in Nat \ {0}
    BY DEF CustodyHasAmounts
  <1>1. Custody(token) \in SUBSET Ids
    BY DEF Custody, HeldOf, StrandedOf
  <1>2. ASSUME NEW id \in Custody(token) PROVE escrows[id].amount \in Nat \ {0}
    <2>1. Has(id)
      BY DEF Custody, HeldOf, StrandedOf, Has, Held
    <2>2. escrows[id] \in Escrow
      BY <1>1, <2>1, PresentIsEscrow
    <2>3. escrows[id].amount \in Wanted
      BY <2>2 DEF Escrow
    <2> QED BY <2>3, WantedIsPositive
  <1> QED BY <1>1, <1>2

\* A sum over the deals in custody, taken apart at one deal.
LEMMA CustodyWithout ==
  ASSUME NEW e, NEW S, NEW d, IsFiniteSet(S), HaveAmounts(e, S)
  PROVE  /\ Owed(e, S) \in Nat /\ Owed(e, S \ {d}) \in Nat
         /\ Owed(e, S) = Owed(e, S \ {d}) + Part(e, S, d)
         /\ Part(e, S, d) \in Nat
  <1> DEFINE f == [id \in S |-> e[id].amount]
             R == S \ {d}
             g == [id \in R |-> e[id].amount]
  <1>1. /\ \A id \in S : f[id] \in Nat /\ f[id] \in Int /\ f[id] = e[id].amount
        /\ \A id \in R : g[id] \in Nat /\ f[id] = g[id]
    BY DEF HaveAmounts
  <1>2. IsFiniteSet(R) /\ (d \notin S => R = S)
    BY FS_Subset
  <1> HIDE DEF f, g, R
  <1>3. Total(f, R) = Total(g, R)
    BY <1>1, <1>2, TotalOfEqualTerms
  <1>4. Total(f, S) \in Nat /\ Total(g, R) \in Nat
    BY <1>1, <1>2, TotalIsNat
  <1>5. CASE d \in S
    <2>1. Total(f, S) = f[d] + Total(f, R)
      BY <1>1, <1>5, TotalWithout DEF R
    <2> QED BY <1>1, <1>3, <1>4, <1>5, <2>1 DEF f, g, R, Owed, Part
  <1>6. CASE d \notin S
    BY <1>2, <1>3, <1>4, <1>6 DEF f, g, R, Owed, Part
  <1> QED BY <1>5, <1>6

\* The pool follows custody: a step that moves one deal, and the pool of every token by
\* the change of what it owes on account of that deal, keeps the two equal.
LEMMA PoolMoves ==
  ASSUME PoolIInv, TypeOK', NEW id \in Ids,
         \A other \in Ids \ {id} : escrows'[other] = escrows[other],
         \A token \in Tokens :
           balance'[token][Self] = balance[token][Self] + Share(id, token)' - Share(id, token)
  PROVE  PoolIInv'
  <1>1. PoolIsTotal /\ CustodyHasAmounts
    BY PoolAsTotal, CustodyAmounts DEF PoolIInv
  <1>2. CustodyHasAmounts'
    BY CustodyAmounts, PTL
  <1>3. ASSUME NEW token \in Tokens
        PROVE  /\ IsFiniteSet(Custody(token)')
               /\ balance'[token][Self] = Owed(escrows', Custody(token)')
    <2> DEFINE S == Custody(token)
               T == Custody(token)'
               R == S \ {id}
               was == Owed(escrows, S)
               is == Owed(escrows', T)
               others == Owed(escrows, R)
    <2>1. /\ S \in SUBSET Ids /\ IsFiniteSet(S)
          /\ HaveAmounts(escrows, S)
      BY <1>1 DEF HaveAmounts, PoolIInv, CustodyIsFinite, CustodyHasAmounts
    <2>2. /\ T \in SUBSET Ids
          /\ HaveAmounts(escrows', T)
      BY <1>2 DEF HaveAmounts, CustodyHasAmounts
    <2>3. T \ {id} = R
      BY <2>1, <2>2 DEF Custody, HeldOf, StrandedOf, Status
    <2>4. IsFiniteSet(T)
      <3>1. IsFiniteSet(R) /\ IsFiniteSet(R \cup {id})
        BY <2>1, FS_Subset, FS_AddElement
      <3>2. T \in SUBSET (R \cup {id})
        BY <2>3
      <3> HIDE DEF T, R
      <3> QED BY <3>1, <3>2, FS_Subset
    <2>5. /\ was \in Nat /\ others \in Nat /\ Share(id, token) \in Nat
          /\ was = others + Share(id, token)
      <3> HIDE DEF S
      <3> QED BY <2>1, CustodyWithout DEF Share, S
    <2>6. /\ is \in Nat /\ Share(id, token)' \in Nat
          /\ is = others + Share(id, token)'
      <3>1. Owed(escrows', T \ {id}) = others
        <4>1. [i \in T \ {id} |-> escrows'[i].amount] = [i \in R |-> escrows[i].amount]
          BY <2>1, <2>3
        <4> QED BY <2>3, <4>1 DEF Owed
      <3>2. /\ is \in Nat
            /\ is = Owed(escrows', T \ {id}) + Part(escrows', T, id)
            /\ Part(escrows', T, id) \in Nat
        <4> HIDE DEF T
        <4> QED BY <2>2, <2>4, CustodyWithout
      <3> QED BY <3>1, <3>2 DEF Share
    <2>7. balance[token][Self] = was
      BY <1>1 DEF PoolIsTotal
    <2>8. balance'[token][Self] = balance[token][Self] + Share(id, token)' - Share(id, token)
      OBVIOUS
    <2>9. balance'[token][Self] = is
      <3> HIDE DEF was, is, others
      <3> QED BY <2>5, <2>6, <2>7, <2>8
    <2> QED BY <2>4, <2>9
  <1>4. PoolIsTotal' /\ CustodyIsFinite'
    BY <1>3 DEF PoolIsTotal, CustodyIsFinite
  <1>5. PoolCoversEveryDeal'
    BY <1>4, PoolAsTotal, PTL
  <1> QED BY <1>4, <1>5 DEF PoolIInv

\* What a transfer does to the pools: it fills one from a wallet, empties one to a
\* wallet, or leaves them alone.
LEMMA TransferPools ==
  ASSUME TypeOK, NEW token \in Tokens, NEW from \in Addresses, NEW to \in Addresses,
         NEW amount \in Wanted, Transfer(token, from, to, amount)
  PROVE  \A t \in Tokens :
           /\ balance[t][Self] \in Nat /\ amount \in Nat
           /\ balance'[t][Self] =
                IF t # token \/ from = to THEN balance[t][Self]
                ELSE IF to = Self THEN balance[t][Self] + amount
                ELSE IF from = Self THEN balance[t][Self] - amount
                ELSE balance[t][Self]
  <1>1. Self \in Addresses /\ amount \in Nat
    BY AmountAssumption DEF Addresses, Wanted
  <1>2. \A t \in Tokens : balance[t] \in [Addresses -> Nat] /\ balance[t][Self] \in Nat
    BY <1>1 DEF TypeOK
  <1>3. CASE from = to
    BY <1>1, <1>2, <1>3 DEF Transfer
  <1>4. CASE from # to
    <2>1. balance' = [balance EXCEPT ![token] =
                        [balance[token] EXCEPT ![from] = @ - amount, ![to] = @ + amount]]
      BY <1>4 DEF Transfer, TypeOK
    <2>2. \A t \in Tokens \ {token} : balance'[t] = balance[t]
      BY <2>1 DEF TypeOK
    <2>3. balance'[token] = [balance[token] EXCEPT ![from] = @ - amount, ![to] = @ + amount]
      BY <2>1 DEF TypeOK
    <2>4. balance'[token][Self] =
            IF to = Self THEN balance[token][Self] + amount
            ELSE IF from = Self THEN balance[token][Self] - amount
            ELSE balance[token][Self]
      BY <1>1, <1>2, <1>4, <2>3
    <2> QED BY <1>1, <1>2, <1>4, <2>2, <2>4
  <1> QED BY <1>3, <1>4

\* One deal moves between statuses; where that takes it out of custody, or into it, its
\* amount goes the same way.
LEMMA StatusMovesPool ==
  ASSUME PoolIInv, TypeOK', NEW id \in Ids, Has(id),
         NEW s \in {"Created"} \cup Held \cup Settled, SetStatus(id, s),
         \A token \in Tokens :
           balance'[token][Self] =
             IF token # escrows[id].token THEN balance[token][Self]
             ELSE balance[token][Self]
                    + (IF InPool(s, escrows[id].seller) THEN escrows[id].amount ELSE 0)
                    - (IF InPool(Status(id), escrows[id].seller) THEN escrows[id].amount ELSE 0)
  PROVE  PoolIInv'
  <1>1. TypeOK
    BY DEF PoolIInv
  <1>2. escrows[id] \in Escrow
    BY <1>1, PresentIsEscrow
  <1>3. /\ escrows'[id].status = s
        /\ escrows'[id].token = escrows[id].token
        /\ escrows'[id].seller = escrows[id].seller
        /\ escrows'[id].amount = escrows[id].amount
        /\ \A other \in Ids \ {id} : escrows'[other] = escrows[other]
    BY <1>1, SetStatusKeepsTerms
  <1>4. ASSUME NEW token \in Tokens
        PROVE  /\ id \in Custody(token) <=>
                    token = escrows[id].token /\ InPool(Status(id), escrows[id].seller)
               /\ id \in Custody(token)' <=>
                    token = escrows[id].token /\ InPool(s, escrows[id].seller)
    BY <1>3 DEF Custody, HeldOf, StrandedOf, Status, InPool
  <1>5. /\ escrows[id].amount \in Nat
        /\ \A token \in Tokens : balance[token][Self] \in Nat
    <2>1. escrows[id].amount \in Wanted /\ Self \in Addresses
      BY <1>2 DEF Escrow, Addresses
    <2>2. escrows[id].amount \in Nat
      BY <2>1, WantedIsPositive
    <2> QED BY <1>1, <2>1, <2>2 DEF TypeOK
  <1>6. ASSUME NEW token \in Tokens
        PROVE  balance'[token][Self] = balance[token][Self] + Share(id, token)' - Share(id, token)
    <2> DEFINE amount == escrows[id].amount
               before == InPool(Status(id), escrows[id].seller)
               after == InPool(s, escrows[id].seller)
    <2>1. /\ Share(id, token) = IF token = escrows[id].token /\ before THEN amount ELSE 0
          /\ Share(id, token)' = IF token = escrows[id].token /\ after THEN amount ELSE 0
      BY <1>3, <1>4 DEF Share, Part
    <2>2. balance'[token][Self] =
            IF token # escrows[id].token THEN balance[token][Self]
            ELSE balance[token][Self] + (IF after THEN amount ELSE 0)
                                      - (IF before THEN amount ELSE 0)
      OBVIOUS
    <2> HIDE DEF amount, before, after
    <2> QED BY <1>5, <2>1, <2>2 DEF amount
  <1> QED BY <1>3, <1>6, PoolMoves

\* A payout out of custody, to the seller's release or to the buyer.
LEMMA PayoutMovesPool ==
  ASSUME PoolIInv, TypeOK', NEW id \in Ids, Has(id), Status(id) \in Held,
         NEW s \in Settled, SetStatus(id, s),
         Payout(id, IF s = "Released" THEN escrows[id].seller ELSE escrows[id].buyer)
  PROVE  PoolIInv'
  <1> DEFINE to == IF s = "Released" THEN escrows[id].seller ELSE escrows[id].buyer
  <1>1. TypeOK /\ escrows[id] \in Escrow
    BY PresentIsEscrow DEF PoolIInv
  <1>2. /\ escrows[id].token \in Tokens /\ escrows[id].amount \in Wanted
        /\ escrows[id].buyer \in Parties /\ escrows[id].seller \in Addresses
    BY <1>1 DEF Escrow
  <1>3. /\ to \in Addresses /\ Self \in Addresses /\ Self \notin Parties
        /\ to = Self <=> s = "Released" /\ escrows[id].seller = Self
    BY <1>2, AddressAssumption DEF Addresses
  <1>4. Transfer(escrows[id].token, Self, to, escrows[id].amount)
    BY DEF Payout
  <1> HIDE DEF to
  <1>5. \A t \in Tokens :
          /\ balance[t][Self] \in Nat /\ escrows[id].amount \in Nat
          /\ balance'[t][Self] =
               IF t # escrows[id].token \/ to = Self THEN balance[t][Self]
               ELSE balance[t][Self] - escrows[id].amount
    BY <1>1, <1>2, <1>3, <1>4, TransferPools
  <1>6. /\ s \in {"Created"} \cup Held \cup Settled
        /\ InPool(s, escrows[id].seller) <=> to = Self
        /\ InPool(Status(id), escrows[id].seller)
    BY <1>3 DEF Held, Settled, InPool
  <1>7. \A token \in Tokens :
           balance'[token][Self] =
             IF token # escrows[id].token THEN balance[token][Self]
             ELSE balance[token][Self]
                    + (IF InPool(s, escrows[id].seller) THEN escrows[id].amount ELSE 0)
                    - (IF InPool(Status(id), escrows[id].seller) THEN escrows[id].amount ELSE 0)
    BY <1>5, <1>6
  <1> QED BY <1>6, <1>7, StatusMovesPool

LEMMA NextPool ==
  ASSUME IInv, PoolIInv, [Next]_vars
  PROVE  PoolIInv'
  <1>1. TypeOK /\ TypeOK'
    BY NextIInv DEF IInv
  <1>2. ASSUME NEW id \in Ids, NEW e, e.status = "Created", CreateEscrow(id, e)
        PROVE  PoolIInv'
    <2>1. /\ ~Has(id) /\ escrows' = [escrows EXCEPT ![id] = e] /\ UNCHANGED balance
      BY <1>2 DEF CreateEscrow
    <2>2. /\ escrows'[id].status = "Created"
          /\ \A other \in Ids \ {id} : escrows'[other] = escrows[other]
      BY <1>1, <1>2, <2>1 DEF TypeOK
    <2>3. \A token \in Tokens : Share(id, token) = 0 /\ Share(id, token)' = 0
      BY <2>1, <2>2 DEF Share, Part, Custody, HeldOf, StrandedOf, Status, Has, Held
    <2>4. \A token \in Tokens : balance[token][Self] \in Nat
      BY <1>1 DEF TypeOK, Addresses
    <2> QED BY <1>1, <2>1, <2>2, <2>3, <2>4, PoolMoves
  <1>3. ASSUME NEW id \in Ids, Fund(id) PROVE PoolIInv'
    <2>1. /\ Has(id) /\ Status(id) = "Created" /\ SetStatus(id, "Funded")
          /\ Transfer(escrows[id].token, escrows[id].buyer, Self, escrows[id].amount)
      BY <1>3 DEF Fund, Reachable
    <2>2. /\ escrows[id].token \in Tokens /\ escrows[id].amount \in Wanted
          /\ escrows[id].buyer \in Parties
      BY <1>1, <2>1, PresentIsEscrow DEF Escrow
    <2>3. /\ Self \in Addresses /\ escrows[id].buyer \in Addresses /\ escrows[id].buyer # Self
      BY <2>2, AddressAssumption DEF Addresses
    <2>4. \A t \in Tokens :
            /\ balance[t][Self] \in Nat /\ escrows[id].amount \in Nat
            /\ balance'[t][Self] = IF t # escrows[id].token THEN balance[t][Self]
                                   ELSE balance[t][Self] + escrows[id].amount
      BY <1>1, <2>1, <2>2, <2>3, TransferPools
    <2>5. /\ ~InPool(Status(id), escrows[id].seller)
          /\ InPool("Funded", escrows[id].seller)
          /\ "Funded" \in Held
      BY <2>1 DEF InPool, Held
    <2> QED BY <1>1, <2>1, <2>4, <2>5, StatusMovesPool
  <1>4. ASSUME NEW id \in Ids, NEW caller \in Parties, Release(id, caller) PROVE PoolIInv'
    BY <1>1, <1>4, PayoutMovesPool DEF Release, Reachable, RequireFunded, Held, Settled
  <1>5. ASSUME NEW id \in Ids, NEW caller \in Parties, Refund(id, caller) PROVE PoolIInv'
    BY <1>1, <1>5, PayoutMovesPool DEF Refund, Reachable, RequireFunded, Held, Settled
  <1>6. ASSUME NEW id \in Ids, NEW caller \in Parties, Dispute(id, caller) PROVE PoolIInv'
    <2>1. /\ Has(id) /\ Status(id) = "Funded" /\ SetStatus(id, "Disputed") /\ UNCHANGED balance
      BY <1>6 DEF Dispute, Reachable, RequireFunded
    <2>2. \A token \in Tokens : balance[token][Self] \in Nat
      BY <1>1 DEF TypeOK, Addresses
    <2>3. escrows[id].amount \in Wanted
      BY <1>1, <2>1, PresentIsEscrow DEF Escrow
    <2>4. escrows[id].amount \in Nat
      BY <2>3, WantedIsPositive
    <2>5. /\ InPool(Status(id), escrows[id].seller)
          /\ InPool("Disputed", escrows[id].seller)
          /\ "Disputed" \in Held
      BY <2>1 DEF InPool, Held
    <2> QED BY <1>1, <2>1, <2>2, <2>4, <2>5, StatusMovesPool
  <1>7. ASSUME NEW id \in Ids, NEW signer \in Parties, NEW toSeller \in BOOLEAN,
               Resolve(id, signer, toSeller)
        PROVE  PoolIInv'
    <2>1. CASE toSeller
      BY <1>1, <1>7, <2>1, PayoutMovesPool DEF Resolve, Reachable, Held, Settled
    <2>2. CASE ~toSeller
      BY <1>1, <1>7, <2>2, PayoutMovesPool DEF Resolve, Reachable, Held, Settled
    <2> QED BY <2>1, <2>2
  <1>8. CASE UNCHANGED <<escrows, balance>>
    <2>1. PoolIsTotal /\ CustodyIsFinite
      BY PoolAsTotal DEF PoolIInv
    <2>2. \A token \in Tokens : Custody(token)' = Custody(token)
      BY <1>8 DEF Custody, HeldOf, StrandedOf, Status
    <2>3. PoolIsTotal' /\ CustodyIsFinite'
      BY <1>8, <2>1, <2>2 DEF PoolIsTotal, CustodyIsFinite
    <2>4. PoolCoversEveryDeal'
      BY <2>3, PoolAsTotal, PTL
    <2> QED BY <1>1, <2>3, <2>4 DEF PoolIInv
  <1> QED BY <1>2, <1>3, <1>4, <1>5, <1>6, <1>7, <1>8
    DEF Next, Call, GetEscrow, RestoreEntry, AdvanceLedger, vars

LEMMA AlwaysPool == Spec => []PoolIInv
  <1>1. Init => PoolIInv
    <2> SUFFICES ASSUME Init PROVE PoolIInv
      OBVIOUS
    <2>1. TypeOK
      BY InitIInv DEF IInv
    <2>2. \A token \in Tokens : Custody(token) = {} /\ balance[token][Self] = 0
      BY DEF Init, Custody, HeldOf, StrandedOf, Status, NoEscrow, Held, Addresses
    <2>3. Owed(escrows, {}) = 0
      BY TotalUnfolds, FS_EmptySet DEF Owed
    <2>4. PoolIsTotal /\ CustodyIsFinite
      BY <2>2, <2>3, FS_EmptySet DEF PoolIsTotal, CustodyIsFinite
    <2> QED BY <2>1, <2>4, PoolAsTotal DEF PoolIInv
  <1>2. IInv /\ PoolIInv /\ [Next]_vars => PoolIInv'
    BY NextPool
  <1> QED BY <1>1, <1>2, AlwaysIInv, PTL DEF Spec

\* fund, release, refund and resolve move tokens through one pooled balance: whatever
\* their interleaving, for any number of deals in any tokens, the pool holds to the unit
\* what the deals in custody need and what was released to the contract itself.
THEOREM PoolIsExact == Spec => []PoolCoversEveryDeal
  <1>1. PoolIInv => PoolCoversEveryDeal
    BY DEF PoolIInv
  <1> QED BY <1>1, AlwaysPool, PTL

\* So the token's transfer never traps in release, refund or resolve: no deal is ever
\* left unpaid because the pool paid another.
HeldDealIsPayable ==
  \A id \in Ids : Status(id) \in Held => balance[escrows[id].token][Self] >= escrows[id].amount

THEOREM EveryHeldDealIsPayable == Spec => []HeldDealIsPayable
  <1>1. PoolIInv => HeldDealIsPayable
    <2> SUFFICES ASSUME PoolIInv, NEW id \in Ids, Status(id) \in Held
                 PROVE  balance[escrows[id].token][Self] >= escrows[id].amount
      BY DEF HeldDealIsPayable
    <2> DEFINE token == escrows[id].token
               S == Custody(token)
    <2>1. TypeOK /\ Has(id)
      BY DEF PoolIInv, Has, Held
    <2>2. token \in Tokens
      BY <2>1, PresentIsEscrow DEF Escrow
    <2>3. /\ IsFiniteSet(S) /\ HaveAmounts(escrows, S)
          /\ balance[token][Self] = Owed(escrows, S)
      BY <2>1, <2>2, PoolAsTotal, CustodyAmounts
      DEF PoolIInv, CustodyIsFinite, CustodyHasAmounts, HaveAmounts, PoolIsTotal
    <2>4. id \in S
      BY DEF Custody, HeldOf
    <2> HIDE DEF S
    <2>5. /\ Owed(escrows, S \ {id}) \in Nat
          /\ Owed(escrows, S) = Owed(escrows, S \ {id}) + Part(escrows, S, id)
          /\ Part(escrows, S, id) \in Nat
      BY <2>3, CustodyWithout
    <2>6. Part(escrows, S, id) = escrows[id].amount
      BY <2>4 DEF Part
    <2> QED BY <2>3, <2>5, <2>6
  <1> QED BY <1>1, AlwaysPool, PTL

-----------------------------------------------------------------------------
(* The contract implements the lifecycle *)

\* A call that moves the status of one entry is the same move of the lifecycle.
LEMMA LifecycleMove ==
  ASSUME TypeOK, NEW id \in Ids, Has(id), NEW s \in {"Created"} \cup Held \cup Settled,
         SetStatus(id, s)
  PROVE  Lifecycle!Move(id, Status(id), s)
  BY SetStatusKeepsTerms DEF Lifecycle!Move, Status, TypeOK

LEMMA LifecycleStutter ==
  ASSUME UNCHANGED escrows
  PROVE  UNCHANGED [id \in Ids |-> Status(id)]
  BY DEF Status

LEMMA LifecycleStep == TypeOK /\ [Next]_vars => [Lifecycle!Next]_([id \in Ids |-> Status(id)])
  <1> SUFFICES ASSUME TypeOK, [Next]_vars
               PROVE  [Lifecycle!Next]_([id \in Ids |-> Status(id)])
    OBVIOUS
  <1>1. ASSUME NEW id \in Ids, NEW e, e.status = "Created", CreateEscrow(id, e)
        PROVE  Lifecycle!Create(id)
    BY <1>1 DEF CreateEscrow, Has, Status, TypeOK, Lifecycle!Create, Lifecycle!Move
  <1>2. ASSUME NEW id \in Ids, Fund(id) PROVE Lifecycle!Fund(id)
    BY <1>2, LifecycleMove DEF Fund, Reachable, Held, Lifecycle!Fund
  <1>3. ASSUME NEW id \in Ids, NEW caller \in Parties, Release(id, caller)
        PROVE  Lifecycle!Release(id)
    BY <1>3, LifecycleMove DEF Release, Reachable, RequireFunded, Settled, Lifecycle!Release
  <1>4. ASSUME NEW id \in Ids, NEW caller \in Parties, Refund(id, caller)
        PROVE  Lifecycle!Refund(id)
    BY <1>4, LifecycleMove DEF Refund, Reachable, RequireFunded, Settled, Lifecycle!Refund
  <1>5. ASSUME NEW id \in Ids, NEW caller \in Parties, Dispute(id, caller)
        PROVE  Lifecycle!Dispute(id)
    BY <1>5, LifecycleMove DEF Dispute, Reachable, RequireFunded, Held, Lifecycle!Dispute
  <1>6. ASSUME NEW id \in Ids, NEW signer \in Parties, NEW toSeller \in BOOLEAN,
               Resolve(id, signer, toSeller)
        PROVE  Lifecycle!Resolve(id)
    <2> DEFINE outcome == IF toSeller THEN "Released" ELSE "Refunded"
    <2>1. outcome \in Settled
      BY DEF Settled
    <2>2. Lifecycle!Move(id, "Disputed", outcome)
      BY <1>6, <2>1, LifecycleMove DEF Resolve, Reachable
    <2> QED BY <2>1, <2>2 DEF Lifecycle!Resolve, Lifecycle!Settled, Settled
  <1>7. CASE UNCHANGED escrows
    BY <1>7, LifecycleStutter
  <1> QED BY <1>1, <1>2, <1>3, <1>4, <1>5, <1>6, <1>7
    DEF Next, Call, GetEscrow, RestoreEntry, AdvanceLedger, vars, Lifecycle!Next, Lifecycle!Step

\* Seen through the status alone the contract is EscrowLifecycle: no call skips a
\* status, none leaves a settled deal, whatever the parties and the archivals.
THEOREM ContractImplementsLifecycle == Spec => ImplementsLifecycle
  <1>1. Init => Lifecycle!Init
    BY DEF Init, Lifecycle!Init, Status, NoEscrow
  <1>2. TypeOK /\ [Next]_vars => [Lifecycle!Next]_([id \in Ids |-> Status(id)])
    BY LifecycleStep
  <1> QED BY <1>1, <1>2, TypeCorrect, PTL DEF Spec, ImplementsLifecycle, Lifecycle!Spec

-----------------------------------------------------------------------------
(* The contract implements one vault per deal *)

VaultVars == <<TermsView, VaultView, OpenView, WalletView>>

\* Where an entry and its status stay, so does everything the vaults show of it.
LEMMA SameTermsView ==
  ASSUME TypeOK, NEW id \in Ids, Has(id), NEW s \in {"Created"} \cup Held \cup Settled,
         SetStatus(id, s)
  PROVE  UNCHANGED TermsView
  <1>1. /\ Has(id)'
        /\ escrows'[id].buyer = escrows[id].buyer /\ escrows'[id].seller = escrows[id].seller
        /\ escrows'[id].arbiter = escrows[id].arbiter /\ escrows'[id].token = escrows[id].token
        /\ escrows'[id].amount = escrows[id].amount
        /\ \A other \in Ids \ {id} : escrows'[other] = escrows[other]
    <2>1. /\ escrows'[id].status = s
          /\ \A f \in {"buyer", "seller", "arbiter", "token", "amount"} :
               escrows'[id][f] = escrows[id][f]
          /\ \A other \in Ids \ {id} : escrows'[other] = escrows[other]
      BY SetStatusKeepsTerms
    <2>2. Has(id)'
      BY <2>1 DEF Has, Status, Held, Settled
    <2> QED BY <2>1, <2>2
  <1>2. \A other \in Ids : (IF Has(other) THEN Agreed(other) ELSE NoTerms)' =
                           IF Has(other) THEN Agreed(other) ELSE NoTerms
    <2> TAKE other \in Ids
    <2>1. CASE other = id
      BY <1>1, <2>1 DEF Agreed
    <2>2. CASE other # id
      BY <1>1, <2>2 DEF Agreed, Has, Status
    <2> QED BY <2>1, <2>2
  <1> QED BY <1>2 DEF TermsView

\* Moving an entry's status moves its vault and its place among the open deals.
LEMMA StatusViews ==
  ASSUME TypeOK, NEW id \in Ids, Has(id), NEW s \in {"Created"} \cup Held \cup Settled,
         SetStatus(id, s)
  PROVE  /\ VaultView' = [VaultView EXCEPT ![id] = IF s \in Held THEN escrows[id].amount ELSE 0]
         /\ OpenView' = IF s \in Settled THEN OpenView \ {id} ELSE OpenView \cup {id}
  <1>1. /\ escrows'[id].status = s /\ escrows'[id].amount = escrows[id].amount
        /\ \A other \in Ids \ {id} : escrows'[other] = escrows[other]
    BY SetStatusKeepsTerms
  <1>2. VaultView' = [VaultView EXCEPT ![id] = IF s \in Held THEN escrows[id].amount ELSE 0]
    BY <1>1 DEF VaultView, Status
  <1>3. OpenView' = IF s \in Settled THEN OpenView \ {id} ELSE OpenView \cup {id}
    BY <1>1 DEF OpenView, Status, Held, Settled
  <1> QED BY <1>2, <1>3

\* The wallets are a function of the token, before and after a step.
LEMMA ViewIsFunction ==
  /\ WalletView = [t \in Tokens |-> WalletView[t]]
  /\ WalletView' = [t \in Tokens |-> WalletView'[t]]
  BY DEF WalletView

\* A deposit is, in the wallets, the buyer's loss.
LEMMA DepositView ==
  ASSUME TypeOK, NEW token \in Tokens, NEW buyer \in Parties, NEW amount \in Wanted,
         Transfer(token, buyer, Self, amount)
  PROVE  /\ WalletView[token][buyer] >= amount
         /\ WalletView' = [WalletView EXCEPT ![token][buyer] = @ - amount]
  <1>1. buyer # Self /\ buyer \in Addresses /\ Self \in Addresses /\ Self \notin Parties
    BY AddressAssumption DEF Addresses
  <1>2. /\ balance[token][buyer] >= amount
        /\ balance' = [balance EXCEPT ![token] =
              [balance[token] EXCEPT ![buyer] = @ - amount, ![Self] = @ + amount]]
    BY <1>1 DEF Transfer, TypeOK
  <1>3. \A t \in Tokens : \A p \in Parties :
          balance'[t][p] = IF t = token /\ p = buyer THEN balance[t][p] - amount ELSE balance[t][p]
    BY <1>1, <1>2 DEF TypeOK, Addresses
  <1>4. WalletView' = [WalletView EXCEPT ![token] =
                         [WalletView[token] EXCEPT ![buyer] = @ - amount]]
    <2>1. [WalletView[token] EXCEPT ![buyer] = @ - amount] = [p \in Parties |-> balance'[token][p]]
      BY <1>3 DEF WalletView
    <2>2. WalletView'[token] = [WalletView[token] EXCEPT ![buyer] = @ - amount]
      BY <2>1 DEF WalletView
    <2>3. \A t \in Tokens \ {token} : WalletView'[t] = WalletView[t]
      BY <1>3 DEF WalletView
    <2> QED BY <2>2, <2>3, ViewIsFunction
  <1> QED BY <1>2, <1>4 DEF WalletView

\* A payout is, in the wallets, the payee's gain, if the payee is a party.
LEMMA PayoutView ==
  ASSUME TypeOK, NEW token \in Tokens, NEW to \in Addresses, NEW amount \in Wanted,
         Transfer(token, Self, to, amount)
  PROVE  WalletView' = IF to \in Parties THEN [WalletView EXCEPT ![token][to] = @ + amount]
                       ELSE WalletView
  <1>1. Self \in Addresses /\ Self \notin Parties /\ (to \notin Parties => to = Self)
    BY AddressAssumption DEF Addresses
  <1>2. CASE to \in Parties
    <2>1. balance' = [balance EXCEPT ![token] =
              [balance[token] EXCEPT ![Self] = @ - amount, ![to] = @ + amount]]
      BY <1>1, <1>2 DEF Transfer, TypeOK
    <2>2. \A t \in Tokens : \A p \in Parties :
            balance'[t][p] = IF t = token /\ p = to THEN balance[t][p] + amount ELSE balance[t][p]
      BY <1>1, <1>2, <2>1 DEF TypeOK, Addresses
    <2>3. WalletView' = [WalletView EXCEPT ![token] = [WalletView[token] EXCEPT ![to] = @ + amount]]
      <3>1. [WalletView[token] EXCEPT ![to] = @ + amount] = [p \in Parties |-> balance'[token][p]]
        BY <1>2, <2>2 DEF WalletView
      <3>2. WalletView'[token] = [WalletView[token] EXCEPT ![to] = @ + amount]
        BY <3>1 DEF WalletView
      <3>3. \A t \in Tokens \ {token} : WalletView'[t] = WalletView[t]
        BY <2>2 DEF WalletView
      <3> QED BY <3>2, <3>3, ViewIsFunction
    <2> QED BY <1>2, <2>3 DEF WalletView
  <1>3. CASE to \notin Parties
    BY <1>1, <1>3 DEF Transfer, WalletView
  <1> QED BY <1>2, <1>3

\* Release, Refund and Resolve settle one vault in favour of one of the two parties.
LEMMA SettleView ==
  ASSUME TypeOK, NEW id \in Ids, Reachable(id), Status(id) \in Held,
         NEW to \in {escrows[id].seller, escrows[id].buyer}, NEW s \in Settled,
         Payout(id, to), SetStatus(id, s)
  PROVE  Vault!Settle(id)
  <1>1. Has(id) /\ escrows[id] \in Escrow
    BY PresentIsEscrow DEF Reachable
  <1>2. /\ escrows[id].token \in Tokens /\ escrows[id].amount \in Wanted /\ to \in Addresses
        /\ escrows[id].amount > 0
    BY <1>1 DEF Escrow, Addresses, Wanted
  <1>3. /\ TermsView[id] = Agreed(id) /\ VaultView[id] = escrows[id].amount /\ id \in OpenView
        /\ Agreed(id).seller = escrows[id].seller /\ Agreed(id).buyer = escrows[id].buyer
        /\ Agreed(id).token = escrows[id].token
    BY <1>1 DEF TermsView, VaultView, OpenView, Agreed
  <1>4. UNCHANGED TermsView
    BY <1>1, SameTermsView
  <1>5. VaultView' = [VaultView EXCEPT ![id] = 0] /\ OpenView' = OpenView \ {id}
    BY <1>1, StatusViews DEF Held, Settled
  <1>6. WalletView' = Vault!Credited(to, escrows[id].token, escrows[id].amount)
    BY <1>2, PayoutView DEF Payout, Vault!Credited
  <1> QED BY <1>2, <1>3, <1>4, <1>5, <1>6 DEF Vault!Settle

LEMMA VaultStep == TypeOK /\ [Next]_vars => [Vault!Next]_VaultVars
  <1> SUFFICES ASSUME TypeOK, [Next]_vars PROVE [Vault!Next]_VaultVars
    OBVIOUS
  <1>1. ASSUME NEW id \in Ids,
               NEW buyer \in Parties, NEW seller \in Addresses, NEW arbiter \in Addresses,
               NEW token \in Tokens, NEW amount \in Amounts,
               CreateEscrow(id, [buyer |-> buyer, seller |-> seller, arbiter |-> arbiter,
                                 token |-> token, amount |-> amount, status |-> "Created"])
        PROVE  Vault!Agree(id)
    <2> DEFINE e == [buyer |-> buyer, seller |-> seller, arbiter |-> arbiter,
                     token |-> token, amount |-> amount, status |-> "Created"]
               terms == [buyer |-> buyer, seller |-> seller, arbiter |-> arbiter,
                         token |-> token, amount |-> amount]
    <2>1. /\ amount > 0 /\ ~Has(id) /\ escrows' = [escrows EXCEPT ![id] = e]
          /\ UNCHANGED balance
      BY <1>1 DEF CreateEscrow
    <2>2. terms \in Terms
      BY <2>1 DEF Terms, Wanted
    <2>3. /\ escrows'[id] = e
          /\ \A other \in Ids \ {id} : escrows'[other] = escrows[other]
      BY <2>1 DEF TypeOK
    <2>4. TermsView[id] = NoTerms
      BY <2>1 DEF TermsView
    <2>5. TermsView' = [TermsView EXCEPT ![id] = terms]
      <3>1. Has(id)' /\ Agreed(id)' = terms
        BY <2>3 DEF Has, Status, Agreed
      <3>2. \A other \in Ids \ {id} : Has(other)' = Has(other) /\ Agreed(other)' = Agreed(other)
        BY <2>3 DEF Has, Status, Agreed
      <3> HIDE DEF terms
      <3> QED BY <3>1, <3>2 DEF TermsView
    <2>6. UNCHANGED VaultView
      BY <2>1, <2>3 DEF VaultView, Has, Status, Held
    <2>7. OpenView' = OpenView \cup {id}
      BY <2>3 DEF OpenView, Status
    <2>8. UNCHANGED WalletView
      BY <2>1 DEF WalletView
    <2> HIDE DEF e, terms
    <2> QED BY <2>2, <2>4, <2>5, <2>6, <2>7, <2>8 DEF Vault!Agree
  <1>2. ASSUME NEW id \in Ids, Fund(id) PROVE Vault!Secure(id)
    <2>1. /\ Has(id) /\ Status(id) = "Created" /\ SetStatus(id, "Funded")
          /\ Transfer(escrows[id].token, escrows[id].buyer, Self, escrows[id].amount)
      BY <1>2 DEF Fund, Reachable
    <2>2. escrows[id] \in Escrow
      BY <2>1, PresentIsEscrow
    <2>3. /\ escrows[id].token \in Tokens /\ escrows[id].buyer \in Parties
          /\ escrows[id].amount \in Wanted
      BY <2>2 DEF Escrow
    <2>4. /\ TermsView[id] = Agreed(id) /\ VaultView[id] = 0 /\ id \in OpenView
          /\ Agreed(id).buyer = escrows[id].buyer /\ Agreed(id).token = escrows[id].token
          /\ Agreed(id).amount = escrows[id].amount
      BY <2>1 DEF TermsView, VaultView, OpenView, Agreed, Held
    <2>5. UNCHANGED TermsView
      BY <2>1, SameTermsView DEF Held
    <2>6. VaultView' = [VaultView EXCEPT ![id] = escrows[id].amount] /\ OpenView' = OpenView
      BY <2>1, <2>4, StatusViews DEF Held, Settled
    <2>7. /\ WalletView[escrows[id].token][escrows[id].buyer] >= escrows[id].amount
          /\ WalletView' = [WalletView EXCEPT ![escrows[id].token][escrows[id].buyer]
                              = @ - escrows[id].amount]
      BY <2>1, <2>3, DepositView
    <2> QED BY <2>4, <2>5, <2>6, <2>7 DEF Vault!Secure
  <1>3. ASSUME NEW id \in Ids, NEW caller \in Parties,
               Release(id, caller) \/ Refund(id, caller)
        PROVE  Vault!Settle(id)
    BY <1>3, SettleView DEF Release, Refund, RequireFunded, Held, Settled
  <1>4. ASSUME NEW id \in Ids, NEW signer \in Parties, NEW toSeller \in BOOLEAN,
               Resolve(id, signer, toSeller)
        PROVE  Vault!Settle(id)
    <2>1. CASE toSeller
      BY <1>4, <2>1, SettleView DEF Resolve, Held, Settled
    <2>2. CASE ~toSeller
      BY <1>4, <2>2, SettleView DEF Resolve, Held, Settled
    <2> QED BY <2>1, <2>2
  <1>5. ASSUME NEW id \in Ids, NEW caller \in Parties, Dispute(id, caller)
        PROVE  UNCHANGED VaultVars
    <2>1. /\ Has(id) /\ Status(id) = "Funded" /\ SetStatus(id, "Disputed") /\ UNCHANGED balance
      BY <1>5 DEF Dispute, Reachable, RequireFunded
    <2>2. UNCHANGED TermsView
      BY <2>1, SameTermsView DEF Held
    <2>3. VaultView[id] = escrows[id].amount /\ id \in OpenView
      BY <2>1 DEF VaultView, OpenView, Held
    <2>4. VaultView' = [VaultView EXCEPT ![id] = escrows[id].amount] /\ OpenView' = OpenView
      BY <2>1, <2>3, StatusViews DEF Held, Settled
    <2>5. UNCHANGED VaultView
      BY <2>3, <2>4 DEF VaultView
    <2>6. UNCHANGED WalletView
      BY <2>1 DEF WalletView
    <2> QED BY <2>2, <2>4, <2>5, <2>6 DEF VaultVars
  <1>6. CASE UNCHANGED <<escrows, balance>>
    BY <1>6 DEF VaultVars, TermsView, VaultView, OpenView, WalletView, Has, Status, Agreed
  <1> QED BY <1>1, <1>2, <1>3, <1>4, <1>5, <1>6
    DEF Next, Call, GetEscrow, RestoreEntry, AdvanceLedger, vars, Vault!Next

\* Pooling is invisible to the parties: for any number of deals in one balance,
\* their wallets move exactly as if every deal had a vault of its own, filled once
\* by the buyer and emptied once to the seller or the buyer.
THEOREM ContractImplementsVault == Spec => ImplementsVault
  <1>1. Init => Vault!Init
    <2> SUFFICES ASSUME Init PROVE Vault!Init
      OBVIOUS
    <2>1. \A id \in Ids : Status(id) = "Absent" /\ ~Has(id)
      BY DEF Init, Status, NoEscrow, Has
    <2>2. /\ TermsView = [id \in Ids |-> NoTerms]
          /\ VaultView = [id \in Ids |-> 0]
          /\ OpenView = {}
      BY <2>1 DEF TermsView, VaultView, OpenView, Held
    <2>3. WalletView = [t \in Tokens |-> [p \in Parties |-> InitialBalance]]
      BY AddressAssumption DEF Init, WalletView, Addresses
    <2> QED BY <2>2, <2>3 DEF Vault!Init
  <1>2. TypeOK /\ [Next]_vars => [Vault!Next]_VaultVars
    BY VaultStep
  <1> QED BY <1>1, <1>2, TypeCorrect, PTL DEF Spec, ImplementsVault, Vault!Spec, Vault!vars, VaultVars

-----------------------------------------------------------------------------
(* The contract with the backend beside it: the inductive invariant *)

\* dispute() of the contract is the only way to the status it sets.
DisputedWasDisputed == \A id \in Ids : Status(id) = "Disputed" => id \in disputed

\* A handler that may write DISPUTED has seen the dispute on the chain; one that may
\* write a ruling started from a row that had.
RequestsKnowDisputes ==
  \A r \in Requests :
    req[r].pc \in {"verifyTx", "readChain", "write"} /\ Eligible(req[r].id) =>
      /\ req[r].pc = "write" /\ req[r].op = "dispute" => req[r].id \in disputed
      /\ req[r].op \in Service!ResolveOps => req[r].id \in disputed

RowsKnowDisputes == \A id \in Ids : Eligible(id) /\ rowStatus[id] = "DISPUTED" => id \in disputed

\* A row that was ruled on exists, so create() cannot change whether it is eligible.
RulingsFollowDisputes ==
  \A id \in ruled :
    /\ rowStatus[id] # "ABSENT"
    /\ Eligible(id) => id \in disputed /\ Status(id) \in Settled

DisputeIInv ==
  /\ DisputedWasDisputed
  /\ RequestsKnowDisputes
  /\ RowsKnowDisputes
  /\ RulingsFollowDisputes

\* A dispute once recorded stays recorded, a deal in dispute has its record, and a
\* settled deal keeps its status.
LEMMA DisputesStay ==
  ASSUME TypeOK, DisputedWasDisputed, [Next]_vars
  PROVE  /\ DisputedWasDisputed'
         /\ disputed \subseteq disputed'
         /\ \A id \in Ids : Status(id) \in Settled => Status(id)' = Status(id)
  <1> DEFINE Stay == /\ DisputedWasDisputed'
                     /\ disputed \subseteq disputed'
                     /\ \A id \in Ids : Status(id) \in Settled => Status(id)' = Status(id)
  <1>1. ASSUME NEW id \in Ids, NEW s \in {"Created"} \cup Held \cup Settled,
               Has(id), Status(id) \notin Settled, SetStatus(id, s),
               disputed \subseteq disputed', s = "Disputed" => id \in disputed'
        PROVE  Stay
    <2>1. /\ Status(id)' = s
          /\ \A other \in Ids \ {id} : Status(other)' = Status(other)
      BY <1>1, SetStatusKeepsTerms DEF Status
    <2> QED BY <1>1, <2>1 DEF DisputedWasDisputed
  <1>2. ASSUME NEW id \in Ids, NEW e, e.status = "Created", CreateEscrow(id, e) PROVE Stay
    <2>1. /\ Status(id) = "Absent" /\ Status(id)' = "Created"
          /\ \A other \in Ids \ {id} : Status(other)' = Status(other)
          /\ UNCHANGED disputed
      BY <1>2 DEF CreateEscrow, Has, Status, TypeOK
    <2> QED BY <2>1 DEF DisputedWasDisputed, Settled
  <1>3. ASSUME UNCHANGED <<escrows, disputed>> PROVE Stay
    BY <1>3 DEF DisputedWasDisputed, Status
  <1>4. ASSUME NEW id \in Ids, Fund(id) PROVE Stay
    BY <1>1, <1>4 DEF Fund, Reachable, Held, Settled
  <1>5. ASSUME NEW id \in Ids, NEW caller \in Parties, Release(id, caller) \/ Refund(id, caller)
        PROVE  Stay
    BY <1>1, <1>5 DEF Release, Refund, Reachable, RequireFunded, Settled
  <1>6. ASSUME NEW id \in Ids, NEW caller \in Parties, Dispute(id, caller) PROVE Stay
    BY <1>1, <1>6 DEF Dispute, Reachable, RequireFunded, Held, Settled
  <1>7. ASSUME NEW id \in Ids, NEW signer \in Parties, NEW toSeller \in BOOLEAN,
               Resolve(id, signer, toSeller)
        PROVE  Stay
    <2>1. (IF toSeller THEN "Released" ELSE "Refunded") \in Settled
      BY DEF Settled
    <2>2. Has(id) /\ Status(id) \notin Settled /\ UNCHANGED disputed
      BY <1>7 DEF Resolve, Reachable, Settled
    <2> QED BY <1>1, <1>7, <2>1, <2>2 DEF Resolve, Settled
  <1> HIDE DEF Stay
  <1>8. Stay
    BY <1>2, <1>3, <1>4, <1>5, <1>6, <1>7
    DEF Next, Call, GetEscrow, RestoreEntry, AdvanceLedger, vars
  <1> QED BY <1>8 DEF Stay

-----------------------------------------------------------------------------
(* The composition is the contract, and is the backend of EscrowsService *)

\* The backend moves nothing of the contract's.
LEMMA SystemIsContract == SystemSpec => Spec
  <1>1. SystemInit => Init
    BY DEF SystemInit
  <1>2. [SystemNext]_systemVars => [Next]_vars
    BY DEF SystemNext, ContractStep, ServiceStep, systemVars
  <1> QED BY <1>1, <1>2, PTL DEF SystemSpec, Spec

\* A step of the composition is a step of the backend, or of the status machine it
\* takes the contract for, or nothing it could see.
LEMMA ServiceSees ==
  ASSUME TypeOK, [SystemNext]_systemVars
  PROVE  [Service!Next]_(Service!vars)
  <1>1. CASE ContractStep
    <2>1. [Lifecycle!Next]_([id \in Ids |-> Status(id)]) /\ UNCHANGED backend
      BY <1>1, LifecycleStep DEF ContractStep
    <2>2. CASE UNCHANGED [id \in Ids |-> Status(id)]
      BY <2>1, <2>2 DEF Service!vars, Service!db, backend, StatusView
    <2>3. CASE Lifecycle!Next
      <3>1. PICK id \in Ids : Lifecycle!Step(id)
        BY <2>3 DEF Lifecycle!Next
      <3>2. Service!Chain!Step(id)
        BY <3>1
        DEF Lifecycle!Step, Lifecycle!Create, Lifecycle!Fund, Lifecycle!Release,
            Lifecycle!Refund, Lifecycle!Dispute, Lifecycle!Resolve, Lifecycle!Settled,
            Lifecycle!Move, Service!Chain!Step, Service!Chain!Create, Service!Chain!Fund,
            Service!Chain!Release, Service!Chain!Refund, Service!Chain!Dispute,
            Service!Chain!Resolve, Service!Chain!Settled, Service!Chain!Move, StatusView
      <3>3. Service!ChainStep
        BY <2>1, <3>2 DEF Service!ChainStep, Service!db, backend
      <3> QED BY <3>3 DEF Service!Next, Service!NextWithoutFailures
    <2> QED BY <2>1, <2>2, <2>3
  <1>2. CASE ServiceStep
    BY <1>2 DEF ServiceStep, Service!Next, Service!NextWithoutFailures
  <1>3. CASE UNCHANGED systemVars
    BY <1>3 DEF systemVars, backend, vars, StatusView, Status, Service!vars, Service!db
  <1> QED BY <1>1, <1>2, <1>3 DEF SystemNext

\* What EscrowsService assumes of the chain, the contract does: with the real contract
\* beside it, every behaviour of the backend's handlers is one of EscrowsService's, so
\* all that is proved there of the rows holds against the contract itself.
THEOREM SystemImplementsService == SystemSpec => ImplementsService
  <1>1. SystemInit => Service!Init
    BY DEF SystemInit
  <1>2. TypeOK /\ [SystemNext]_systemVars => [Service!Next]_(Service!vars)
    BY ServiceSees
  <1> QED BY <1>1, <1>2, SystemIsContract, TypeCorrect, PTL
    DEF SystemSpec, ImplementsService, Service!Spec

\* The invariants of both parts hold in the composition.
LEMMA AlwaysBothIInv == SystemSpec => [](IInv /\ HeldDealIsPayable /\ Service!IInv)
  BY SystemIsContract, AlwaysIInv, EveryHeldDealIsPayable, SystemImplementsService,
     Service!AlwaysIInv, SystemAssumption, PTL DEF ImplementsService

-----------------------------------------------------------------------------
(* Rows, requests and disputes *)

\* Which handlers start from, wait for and write a dispute.
LEMMA DisputeHandlers ==
  ASSUME NEW op \in Service!OpNames
  PROVE  /\ op \in Service!ResolveOps =>
              /\ Service!VerifiedOps[op].from = "DISPUTED"
              /\ Service!Chain!Onwards(Service!VerifiedOps[op].expects) \subseteq Settled
              /\ op # "dispute"
         /\ op = "dispute" => Service!VerifiedOps[op].expects = "Disputed"
         /\ Service!VerifiedOps[op].to = "DISPUTED" => op = "dispute"
         /\ Service!VerifiedOps[op].to # "ABSENT"
  <1>1. op \in {"fund", "release", "refund", "dispute", "resolveToSeller", "resolveToBuyer"}
    BY DEF Service!OpNames, Service!VerifiedOps
  <1>2. CASE op \in Service!ResolveOps
    BY <1>2 DEF Service!ResolveOps, Service!VerifiedOps, Service!Chain!Onwards, Settled
  <1>3. CASE op \notin Service!ResolveOps
    BY <1>1, <1>3 DEF Service!ResolveOps, Service!VerifiedOps
  <1> QED BY <1>2, <1>3

\* What a request at q must know of the dispute of its deal.
KnowsDispute(q) ==
  q.pc \in {"verifyTx", "readChain", "write"} /\ Eligible(q.id) =>
    /\ q.pc = "write" /\ q.op = "dispute" => q.id \in disputed
    /\ q.op \in Service!ResolveOps => q.id \in disputed

\* A step that only sends a request on keeps the invariant if the request knows at its
\* new place what it has to know there.
LEMMA RequestMoves ==
  ASSUME Service!TypeOK, DisputeIInv,
         UNCHANGED <<escrows, disputed, configured, row, rowStatus, ruled>>,
         NEW r \in Requests, NEW q, req' = [req EXCEPT ![r] = q],
         KnowsDispute(q)
  PROVE  DisputeIInv'
  <1>1. \A id : Eligible(id)' = Eligible(id) /\ Status(id)' = Status(id)
    BY DEF Eligible, Service!IsChainEligible, Status
  <1>2. req'[r] = q /\ \A other \in Requests \ {r} : req'[other] = req[other]
    BY DEF Service!TypeOK
  <1>3. DisputedWasDisputed' /\ RowsKnowDisputes' /\ RulingsFollowDisputes'
    BY <1>1 DEF DisputeIInv, DisputedWasDisputed, RowsKnowDisputes, RulingsFollowDisputes
  <1>4. RequestsKnowDisputes'
    BY <1>1, <1>2 DEF DisputeIInv, RequestsKnowDisputes, KnowsDispute
  <1> QED BY <1>3, <1>4 DEF DisputeIInv

\* A step that gives a row a status and ends its request keeps the invariant if the
\* status, and the ruling if it is one, are covered by the dispute of the deal.
LEMMA RowIsWritten ==
  ASSUME Service!TypeOK, DisputeIInv,
         UNCHANGED <<escrows, disputed, configured, row>>,
         NEW r \in Requests, NEW id \in Ids, NEW s,
         rowStatus' = [rowStatus EXCEPT ![id] = s],
         req' = [req EXCEPT ![r] = Service!Idle],
         s # "ABSENT",
         s = "DISPUTED" /\ Eligible(id) => id \in disputed,
         \/ ruled' = ruled
         \/ ruled' = ruled \cup {id} /\ (Eligible(id) => id \in disputed /\ Status(id) \in Settled)
  PROVE  DisputeIInv'
  <1>1. \A e : Eligible(e)' = Eligible(e) /\ Status(e)' = Status(e)
    BY DEF Eligible, Service!IsChainEligible, Status
  <1>2. /\ req'[r].pc = "idle"
        /\ \A other \in Requests \ {r} : req'[other] = req[other]
    BY DEF Service!TypeOK, Service!Idle
  <1>3. /\ rowStatus'[id] = s
        /\ \A other \in Ids \ {id} : rowStatus'[other] = rowStatus[other]
        /\ ruled \subseteq Ids
    BY DEF Service!TypeOK
  <1>4. DisputedWasDisputed'
    BY <1>1 DEF DisputeIInv, DisputedWasDisputed
  <1>5. RequestsKnowDisputes'
    BY <1>1, <1>2 DEF DisputeIInv, RequestsKnowDisputes
  <1>6. RowsKnowDisputes'
    BY <1>1, <1>3 DEF DisputeIInv, RowsKnowDisputes
  <1>7. RulingsFollowDisputes'
    BY <1>1, <1>3 DEF DisputeIInv, RulingsFollowDisputes
  <1> QED BY <1>4, <1>5, <1>6, <1>7 DEF DisputeIInv

LEMMA InitDisputes == SystemInit => DisputeIInv
  BY DEF SystemInit, Init, Service!Init, Service!Idle, DisputeIInv, DisputedWasDisputed,
         RequestsKnowDisputes, RowsKnowDisputes, RulingsFollowDisputes, Status, NoEscrow

LEMMA NextDisputes ==
  ASSUME IInv, Service!IInv, DisputeIInv, [SystemNext]_systemVars
  PROVE  DisputeIInv'
  <1>0. TypeOK /\ Service!TypeOK /\ \A r \in Requests : KnowsDispute(req[r])
    BY DEF IInv, Service!IInv, DisputeIInv, RequestsKnowDisputes, KnowsDispute
  <1>1. CASE ContractStep
    <2>1. /\ DisputedWasDisputed'
          /\ disputed \subseteq disputed'
          /\ \A id \in Ids : Status(id) \in Settled => Status(id)' = Status(id)
      BY <1>0, <1>1, DisputesStay DEF ContractStep, DisputeIInv
    <2>2. /\ \A id : Eligible(id)' = Eligible(id)
          /\ UNCHANGED <<rowStatus, req, ruled>>
      BY <1>1 DEF ContractStep, backend, Eligible, Service!IsChainEligible
    <2>3. ruled \subseteq Ids
      BY <1>0 DEF Service!TypeOK
    <2> QED BY <2>1, <2>2, <2>3
      DEF DisputeIInv, RequestsKnowDisputes, RowsKnowDisputes, RulingsFollowDisputes
  <1>2. ASSUME ServiceStep PROVE UNCHANGED <<escrows, disputed>> /\ UNCHANGED vars
    BY <1>2 DEF ServiceStep, vars
  <1>3. ASSUME ServiceStep, NEW id \in Ids, NEW shape \in Shapes, Service!Create(id, shape)
        PROVE  DisputeIInv'
    <2>1. /\ rowStatus[id] = "ABSENT"
          /\ rowStatus'[id] = "PENDING"
          /\ \A other \in Ids \ {id} :
               rowStatus'[other] = rowStatus[other] /\ Eligible(other)' = Eligible(other)
          /\ UNCHANGED <<req, ruled>>
      BY <1>0, <1>3 DEF Service!Create, Service!TypeOK, Eligible, Service!IsChainEligible
    <2>2. \A r \in Requests :
            req[r].pc \in {"verifyTx", "readChain", "write"} => req[r].id \in Ids \ {id}
      BY <1>0, <2>1, Service!RequestRecords, SystemAssumption
      DEF Service!IInv, Service!RequestsHaveRows
    <2>3. ruled \subseteq Ids \ {id}
      BY <1>0, <2>1 DEF Service!TypeOK, DisputeIInv, RulingsFollowDisputes
    <2>4. \A e \in Ids : Status(e)' = Status(e)
      BY <1>2, <1>3 DEF Status
    <2>5. DisputedWasDisputed' /\ RowsKnowDisputes'
      BY <1>2, <1>3, <2>1, <2>4 DEF DisputeIInv, DisputedWasDisputed, RowsKnowDisputes
    <2>6. RequestsKnowDisputes'
      BY <1>2, <1>3, <2>1, <2>2 DEF DisputeIInv, RequestsKnowDisputes
    <2>7. RulingsFollowDisputes'
      BY <1>2, <1>3, <2>1, <2>3, <2>4 DEF DisputeIInv, RulingsFollowDisputes
    <2> QED BY <2>5, <2>6, <2>7 DEF DisputeIInv
  <1>4. ASSUME ServiceStep, NEW r \in Requests, NEW id \in Ids, NEW op \in Service!OpNames,
               Service!Begin(r, op, id)
        PROVE  DisputeIInv'
    <2> DEFINE q == [pc |-> IF Eligible(id) THEN "verifyTx" ELSE "write", op |-> op, id |-> id]
    <2>1. /\ rowStatus[id] = Service!VerifiedOps[op].from
          /\ req' = [req EXCEPT ![r] = q]
          /\ UNCHANGED <<configured, row, rowStatus, ruled>>
      BY <1>4 DEF Service!Begin, Service!PassesChecks, Service!db, Eligible
    <2>2. Eligible(id) /\ op \in Service!ResolveOps => id \in disputed
      BY <2>1, DisputeHandlers DEF DisputeIInv, RowsKnowDisputes
    <2>3. KnowsDispute(q)
      BY <2>2 DEF KnowsDispute
    <2> HIDE DEF q
    <2> QED BY <1>0, <1>2, <1>4, <2>1, <2>3, RequestMoves
  <1>5. ASSUME ServiceStep, NEW r \in Requests, NEW id \in Ids, NEW m \in Milestones,
               Service!BeginMilestone(r, id, m)
        PROVE  DisputeIInv'
    <2>1. KnowsDispute([pc |-> "releaseOne", id |-> id, m |-> m])
      BY DEF KnowsDispute
    <2> QED BY <1>0, <1>2, <1>5, <2>1, RequestMoves DEF Service!BeginMilestone, Service!db
  <1>6. ASSUME ServiceStep, NEW r \in Requests, Service!VerifyTx(r) PROVE DisputeIInv'
    <2> DEFINE q == [req[r] EXCEPT !.pc = "readChain"]
    <2>1. req[r].pc = "verifyTx" /\ UNCHANGED <<configured, row, rowStatus, ruled>>
      BY <1>6 DEF Service!VerifyTx, Service!db
    <2>2. req' = [req EXCEPT ![r] = q]
      BY <1>6 DEF Service!VerifyTx
    <2>3. q.pc = "readChain" /\ q.op = req[r].op /\ q.id = req[r].id
      BY <1>0, <2>1, Service!RequestRecords, SystemAssumption
    <2>4. KnowsDispute(q)
      BY <1>0, <2>1, <2>3 DEF KnowsDispute
    <2> HIDE DEF q
    <2> QED BY <1>0, <1>2, <1>6, <2>1, <2>2, <2>4, RequestMoves
  <1>7. ASSUME ServiceStep, NEW r \in Requests, Service!ReadChain(r) PROVE DisputeIInv'
    <2> DEFINE seen == StatusView[req[r].id] = Service!VerifiedOps[req[r].op].expects
               q == IF seen THEN [req[r] EXCEPT !.pc = "write"] ELSE Service!Idle
    <2>1. /\ req[r].pc = "readChain"
          /\ UNCHANGED <<configured, row, rowStatus, ruled>>
          /\ req' = [req EXCEPT ![r] = q]
      BY <1>7 DEF Service!ReadChain, Service!AsExpected, Service!db
    <2>2. req[r].op \in Service!OpNames /\ req[r].id \in Ids
      BY <1>0, <2>1, Service!RequestRecords, SystemAssumption
    <2>3. ASSUME seen PROVE KnowsDispute(q)
      <3>1. q.pc = "write" /\ q.op = req[r].op /\ q.id = req[r].id
        BY <1>0, <2>1, <2>3, Service!RequestRecords, SystemAssumption
      <3>2. q.op = "dispute" => q.id \in disputed
        BY <2>2, <2>3, <3>1, DisputeHandlers
        DEF StatusView, DisputeIInv, DisputedWasDisputed
      <3> QED BY <1>0, <2>1, <3>1, <3>2 DEF KnowsDispute
    <2>4. ASSUME ~seen PROVE KnowsDispute(q)
      BY <2>4 DEF KnowsDispute, Service!Idle
    <2>5. KnowsDispute(q)
      BY <2>3, <2>4
    <2> HIDE DEF q
    <2> QED BY <1>0, <1>2, <1>7, <2>1, <2>5, RequestMoves
  <1>8. ASSUME ServiceStep, NEW r \in Requests, Service!Write(r) PROVE DisputeIInv'
    <2> DEFINE id == req[r].id
               op == req[r].op
    <2>1. /\ req[r].pc = "write"
          /\ rowStatus' = [rowStatus EXCEPT ![id] = Service!VerifiedOps[op].to]
          /\ req' = [req EXCEPT ![r] = Service!Idle]
          /\ UNCHANGED <<configured, row>>
          /\ ruled' = IF op \in Service!ResolveOps THEN ruled \cup {id} ELSE ruled
      BY <1>8 DEF Service!Write
    <2>2. op \in Service!OpNames /\ id \in Ids
      BY <1>0, <2>1, Service!RequestRecords, SystemAssumption
    <2>3. Service!VerifiedOps[op].to = "DISPUTED" /\ Eligible(id) => id \in disputed
      BY <1>0, <2>1, <2>2, DisputeHandlers DEF KnowsDispute
    <2>4. ASSUME op \in Service!ResolveOps, Eligible(id)
          PROVE  id \in disputed /\ Status(id) \in Settled
      <3>1. StatusView[id] \in Service!Chain!Onwards(Service!VerifiedOps[op].expects)
        BY <2>1, <2>4 DEF Service!IInv, Service!WritesAreConfirmed, Eligible
      <3> QED BY <1>0, <2>1, <2>2, <2>4, <3>1, DisputeHandlers DEF KnowsDispute, StatusView
    <2>5. Service!VerifiedOps[op].to # "ABSENT"
      BY <2>2, DisputeHandlers
    <2> HIDE DEF id, op
    <2>6. UNCHANGED <<escrows, disputed, configured, row>>
      BY <1>2, <1>8, <2>1
    <2> QED BY <1>0, <2>1, <2>2, <2>3, <2>4, <2>5, <2>6, RowIsWritten
  <1>9. ASSUME ServiceStep, NEW r \in Requests, Service!ReleaseOne(r) PROVE DisputeIInv'
    <2> DEFINE q == [req[r] EXCEPT !.pc = "count"]
    <2>1. /\ req[r].pc = "releaseOne"
          /\ req' = [req EXCEPT ![r] = q]
          /\ UNCHANGED <<configured, row, rowStatus, ruled>>
      BY <1>9 DEF Service!ReleaseOne
    <2>2. q.pc = "count"
      BY <1>0, <2>1, Service!RequestRecords, SystemAssumption DEF Service!MilestonePcs
    <2>3. KnowsDispute(q)
      BY <2>2 DEF KnowsDispute
    <2> HIDE DEF q
    <2> QED BY <1>0, <1>2, <1>9, <2>1, <2>3, RequestMoves
  <1>10. ASSUME ServiceStep, NEW r \in Requests, Service!Count(r) PROVE DisputeIInv'
    <2> DEFINE q == IF Service!NoneLeft(req[r].id) THEN [req[r] EXCEPT !.pc = "complete"]
                    ELSE Service!Idle
    <2>1. /\ req[r].pc = "count"
          /\ req' = [req EXCEPT ![r] = q]
          /\ UNCHANGED <<configured, row, rowStatus, ruled>>
      BY <1>10 DEF Service!Count, Service!db
    <2>2. q.pc \in {"complete", "idle"}
      BY <1>0, <2>1, Service!RequestRecords, SystemAssumption
      DEF Service!MilestonePcs, Service!Idle
    <2>3. KnowsDispute(q)
      BY <2>2 DEF KnowsDispute
    <2> HIDE DEF q
    <2> QED BY <1>0, <1>2, <1>10, <2>1, <2>3, RequestMoves
  <1>11. ASSUME ServiceStep, NEW r \in Requests, Service!Complete(r) PROVE DisputeIInv'
    <2>1. /\ req[r].pc = "complete"
          /\ rowStatus' = [rowStatus EXCEPT ![req[r].id] = "RELEASED"]
          /\ req' = [req EXCEPT ![r] = Service!Idle]
          /\ UNCHANGED <<configured, row, ruled>>
      BY <1>11 DEF Service!Complete
    <2>2. req[r].id \in Ids
      BY <1>0, <2>1, Service!RequestRecords, SystemAssumption DEF Service!MilestonePcs
    <2> QED BY <1>0, <1>2, <1>11, <2>1, <2>2, RowIsWritten
  <1>12. ASSUME ServiceStep, NEW r \in Requests, Service!Abort(r) PROVE DisputeIInv'
    <2>1. KnowsDispute(Service!Idle)
      BY DEF KnowsDispute, Service!Idle
    <2> QED BY <1>0, <1>2, <1>12, <2>1, RequestMoves DEF Service!Abort, Service!db
  <1>13. CASE UNCHANGED systemVars
    <2>1. /\ \A id : Eligible(id)' = Eligible(id) /\ Status(id)' = Status(id)
          /\ UNCHANGED <<rowStatus, req, ruled, disputed>>
      BY <1>13 DEF systemVars, backend, vars, Eligible, Service!IsChainEligible, Status
    <2> QED BY <2>1 DEF DisputeIInv, DisputedWasDisputed, RequestsKnowDisputes,
                        RowsKnowDisputes, RulingsFollowDisputes
  <1>14. CASE ServiceStep
    BY <1>3, <1>4, <1>5, <1>6, <1>7, <1>8, <1>9, <1>10, <1>11, <1>12, <1>14
    DEF ServiceStep, Service!BackendStep, Service!BeginSome, Service!HandlerStep
  <1> QED BY <1>1, <1>13, <1>14 DEF SystemNext

LEMMA AlwaysDisputes ==
  SystemSpec => [](IInv /\ HeldDealIsPayable /\ Service!IInv /\ DisputeIInv)
  <1>1. IInv /\ Service!IInv /\ DisputeIInv /\ [SystemNext]_systemVars => DisputeIInv'
    BY NextDisputes
  <1> QED BY <1>1, InitDisputes, AlwaysBothIInv, PTL DEF SystemSpec

-----------------------------------------------------------------------------
(* What the rows say about the money *)

\* fund, release and refund of the backend against the contract they report on: an
\* eligible row of a deal without milestones that shows FUNDED has its amount in the
\* pool or settled, and one that shows an outcome has the signature the contract asks
\* for it, however the requests and the contract calls interleave.
THEOREM RowsAreCovered == SystemSpec => []RowsTellWhereTheMoneyIs
  <1>1. IInv /\ HeldDealIsPayable /\ Service!IInv => RowsTellWhereTheMoneyIs
    <2> SUFFICES ASSUME IInv, HeldDealIsPayable, Service!IInv,
                        NEW id \in Ids, Eligible(id), Service!WholeDeal(id)
                 PROVE  /\ rowStatus[id] = "FUNDED" => InCustody(id) \/ Status(id) \in Settled
                        /\ rowStatus[id] = "RELEASED" => Signed(id, "Released", escrows[id].buyer)
                        /\ rowStatus[id] = "REFUNDED" => Signed(id, "Refunded", escrows[id].seller)
      BY DEF RowsTellWhereTheMoneyIs
    <2>1. Status(id) \in Service!Behind(rowStatus[id])
      BY DEF Service!IInv, Service!NeverAheadOfChain, Eligible, StatusView
    <2>2. CASE rowStatus[id] = "FUNDED"
      <3>1. Status(id) \in Held \cup Settled
        BY <2>1, <2>2 DEF Service!Behind, Service!Chain!Onwards, Held, Settled
      <3> QED BY <2>2, <3>1 DEF HeldDealIsPayable, InCustody
    <2>3. CASE rowStatus[id] = "RELEASED"
      <3>1. Status(id) = "Released"
        BY <2>1, <2>3 DEF Service!Behind
      <3> QED BY <2>3, <3>1 DEF IInv, SettledByTheRightSignature, Settled, Signed, SignedByArbiter
    <2>4. CASE rowStatus[id] = "REFUNDED"
      <3>1. Status(id) = "Refunded"
        BY <2>1, <2>4 DEF Service!Behind
      <3> QED BY <2>4, <3>1 DEF IInv, SettledByTheRightSignature, Settled, Signed, SignedByArbiter
    <2> QED BY <2>2, <2>3, <2>4
  <1> QED BY <1>1, AlwaysBothIInv, PTL

\* A deal somebody has disputed is still held, or its arbiter has settled it.
LEMMA DisputedIsTheArbiters ==
  ASSUME IInv, HeldDealIsPayable, NEW id \in disputed
  PROVE  \/ Status(id) = "Disputed" /\ InCustody(id)
         \/ Status(id) \in Settled /\ SignedByArbiter(id)
  <1>1. id \in Ids
    BY DEF IInv, TypeOK
  <1>2. Status(id) \in {"Disputed"} \cup Settled
    BY DEF IInv, DisputeLeadsOn
  <1> QED BY <1>1, <1>2
    DEF IInv, SettledByTheRightSignature, SignedByArbiter, HeldDealIsPayable, InCustody, Held

\* dispute(): as long as an eligible row says DISPUTED, the deal's money is in custody
\* with only the arbiter able to settle it, or he has; no stale write of another request
\* and no call of the parties makes the row say it of money that has gone another way.
THEOREM DisputesFreeze == SystemSpec => []ShownDisputeIsFrozen
  <1>1. IInv /\ HeldDealIsPayable /\ DisputeIInv => ShownDisputeIsFrozen
    BY DisputedIsTheArbiters DEF ShownDisputeIsFrozen, DisputeIInv, RowsKnowDisputes
  <1> QED BY <1>1, AlwaysDisputes, PTL

\* resolve(): a ruling the backend records of an eligible row is one the deal's arbiter
\* has signed on the contract, whoever called the API and with whatever hash.
THEOREM RulingsAreSigned == SystemSpec => []RulingsAreTheArbiters
  <1>1. IInv /\ HeldDealIsPayable /\ DisputeIInv => RulingsAreTheArbiters
    <2> SUFFICES ASSUME IInv, HeldDealIsPayable, DisputeIInv, NEW id \in ruled, Eligible(id)
                 PROVE  Status(id) \in Settled /\ SignedByArbiter(id)
      BY DEF RulingsAreTheArbiters
    <2>1. id \in disputed /\ Status(id) \in Settled
      BY DEF DisputeIInv, RulingsFollowDisputes
    <2> QED BY <2>1, DisputedIsTheArbiters DEF Settled
  <1> QED BY <1>1, AlwaysDisputes, PTL

=============================================================================
