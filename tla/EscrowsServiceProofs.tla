------------------------- MODULE EscrowsServiceProofs -------------------------
(***************************************************************************)
(* Theorems about EscrowsService, for any number of rows, milestones and   *)
(* concurrent requests.                                                    *)
(***************************************************************************)
EXTENDS EscrowsService, TLAPS

\* A request works on a row that exists, so create() cannot change what it read.
RequestsHaveRows == \A r \in Requests : req[r] # Idle => status[req[r].id] # "ABSENT"

\* A handler that is past verifyOnChain saw the status it needs, and the chain has
\* only moved on from there.
WritesAreConfirmed ==
  \A r \in Requests :
    req[r].pc = "write" /\ IsChainEligible(req[r].id)
      => chain[req[r].id] \in Chain!Onwards(VerifiedOps[req[r].op].expects)

MilestonePcs == {"releaseOne", "count", "complete"}

\* releaseMilestone() only ever works on a row that has milestones.
MilestoneRequestsHaveMilestones ==
  \A r \in Requests : req[r].pc \in MilestonePcs => milestone[req[r].id][req[r].m] # "NONE"

\* Milestones never become pending again, so a handler that found none pending
\* stays right about it.
ReleasesFoundNonePending ==
  \A r \in Requests :
    /\ req[r].pc \in {"verifyTx", "readChain", "write"} /\ req[r].op = "release"
         => Pending(req[r].id) = {}
    /\ req[r].pc = "complete" => Pending(req[r].id) = {}

IInv ==
  /\ TypeOK
  /\ RequestsHaveRows
  /\ WritesAreConfirmed
  /\ MilestoneRequestsHaveMilestones
  /\ ReleasesFoundNonePending
  /\ NeverAheadOfChain
  /\ ReleaseWaitsForMilestones

-----------------------------------------------------------------------------
(* Lemmas about the table of handlers and about the chain *)

\* What a handler has seen on the chain is what the status it writes promises.
LEMMA HandlerTable ==
  ASSUME NEW op \in OpNames
  PROVE  /\ VerifiedOps[op].to \in DbStatuses
         /\ VerifiedOps[op].from \in DbStatuses
         /\ Chain!Onwards(VerifiedOps[op].expects) = Behind(VerifiedOps[op].to)
         /\ VerifiedOps[op].expects \in Chain!Onwards(VerifiedOps[op].expects)
         /\ VerifiedOps[op].to = "RELEASED" => op = "release" \/ op \in ResolveOps
  <1>1. op \in {"fund", "release", "refund", "dispute", "resolveToSeller", "resolveToBuyer"}
    BY DEF OpNames, VerifiedOps
  <1>2. CASE op = "fund"
    BY <1>2 DEF VerifiedOps, DbStatuses, Chain!Onwards, Behind
  <1>3. CASE op = "release"
    BY <1>3 DEF VerifiedOps, DbStatuses, Chain!Onwards, Behind
  <1>4. CASE op = "refund"
    BY <1>4 DEF VerifiedOps, DbStatuses, Chain!Onwards, Behind
  <1>5. CASE op = "dispute"
    BY <1>5 DEF VerifiedOps, DbStatuses, Chain!Onwards, Behind
  <1>6. CASE op = "resolveToSeller"
    BY <1>6 DEF VerifiedOps, DbStatuses, Chain!Onwards, Behind, ResolveOps
  <1>7. CASE op = "resolveToBuyer"
    BY <1>7 DEF VerifiedOps, DbStatuses, Chain!Onwards, Behind, ResolveOps
  <1> QED BY <1>1, <1>2, <1>3, <1>4, <1>5, <1>6, <1>7

\* The chain only moves on: what a row could show before a step it can show after.
LEMMA ChainMovesOn ==
  ASSUME Chain!TypeOK, NEW id \in Ids, Chain!Step(id)
  PROVE  /\ Chain!TypeOK'
         /\ \A other \in Ids, s \in DbStatuses \cup {"ABSENT"} :
              chain[other] \in Behind(s) => chain'[other] \in Behind(s)
  <1>1. PICK to \in Chain!Statuses :
          /\ chain' = [chain EXCEPT ![id] = to]
          /\ \/ chain[id] = "Absent" /\ to = "Created"
             \/ chain[id] = "Created" /\ to = "Funded"
             \/ chain[id] = "Funded" /\ to \in {"Released", "Refunded", "Disputed"}
             \/ chain[id] = "Disputed" /\ to \in {"Released", "Refunded"}
    BY DEF Chain!Step, Chain!Create, Chain!Fund, Chain!Release, Chain!Refund, Chain!Dispute,
           Chain!Resolve, Chain!Move, Chain!Statuses, Chain!Settled
  <1>2. Chain!TypeOK'
    BY <1>1 DEF Chain!TypeOK
  <1>3. ASSUME NEW s \in DbStatuses \cup {"ABSENT"}, chain[id] \in Behind(s)
        PROVE  to \in Behind(s)
    BY <1>1, <1>3 DEF Behind, DbStatuses, Chain!Onwards, Chain!Statuses
  <1> QED BY <1>1, <1>2, <1>3 DEF Chain!TypeOK

\* Where a request stands says which record it is.
LEMMA RequestRecords ==
  ASSUME TypeOK, NEW r \in Requests
  PROVE  /\ req[r].pc \in {"verifyTx", "readChain", "write"} =>
              /\ req[r] \in [pc : {"verifyTx", "readChain", "write"}, op : OpNames, id : Ids]
              /\ req[r].op \in OpNames /\ req[r].id \in Ids /\ req[r] # Idle
         /\ req[r].pc \in MilestonePcs =>
              /\ req[r] \in [pc : {"releaseOne", "count", "complete"}, id : Ids, m : Milestones]
              /\ req[r].id \in Ids /\ req[r].m \in Milestones /\ req[r] # Idle
  <1>1. req[r] \in Request
    BY DEF TypeOK
  <1>2. CASE req[r] \in [pc : {"verifyTx", "readChain", "write"}, op : OpNames, id : Ids]
    BY <1>2 DEF Idle, MilestonePcs
  <1>3. CASE req[r] \in [pc : {"releaseOne", "count", "complete"}, id : Ids, m : Milestones]
    BY <1>3 DEF Idle, MilestonePcs
  <1>4. CASE req[r] = Idle
    BY <1>4 DEF Idle, MilestonePcs
  <1> QED BY <1>1, <1>2, <1>3, <1>4 DEF Request

-----------------------------------------------------------------------------
(* The inductive invariant *)

LEMMA InitIInv == Init => IInv
  <1> SUFFICES ASSUME Init PROVE IInv
    OBVIOUS
  <1>1. TypeOK
    BY DEF Init, TypeOK, NoRow, Request, Chain!Init, Chain!TypeOK, Chain!Statuses
  <1>2. \A r \in Requests : req[r] = Idle /\ req[r].pc = "idle"
    BY DEF Init, Idle
  <1>3. \A id \in Ids : status[id] = "ABSENT" /\ Behind(status[id]) = Chain!Statuses
    BY DEF Init, Behind
  <1>4. \A id \in Ids : chain[id] \in Chain!Statuses
    BY <1>1 DEF TypeOK, Chain!TypeOK
  <1> QED BY <1>1, <1>2, <1>3, <1>4
    DEF IInv, RequestsHaveRows, WritesAreConfirmed, MilestoneRequestsHaveMilestones, MilestonePcs,
        ReleasesFoundNonePending, NeverAheadOfChain, ReleaseWaitsForMilestones

\* A step that only sends a request on keeps the invariant if the request's new
\* place carries the facts the invariant asks for there.
LEMMA RequestStep ==
  ASSUME IInv, UNCHANGED <<db, chain>>, NEW r \in Requests, NEW q \in Request,
         req' = [req EXCEPT ![r] = q],
         q # Idle => status[q.id] # "ABSENT",
         q.pc = "write" /\ IsChainEligible(q.id)
           => chain[q.id] \in Chain!Onwards(VerifiedOps[q.op].expects),
         q.pc \in MilestonePcs => milestone[q.id][q.m] # "NONE",
         q.pc \in {"verifyTx", "readChain", "write"} /\ q.op = "release" => Pending(q.id) = {},
         q.pc = "complete" => Pending(q.id) = {}
  PROVE  IInv'
  <1>1. /\ req'[r] = q
        /\ \A other \in Requests \ {r} : req'[other] = req[other]
        /\ req' \in [Requests -> Request]
    BY DEF IInv, TypeOK
  <1>2. /\ UNCHANGED <<configured, row, status, milestone, ruled, chain>>
        /\ \A id \in Ids : IsChainEligible(id)' = IsChainEligible(id) /\ Pending(id)' = Pending(id)
                           /\ WholeDeal(id)' = WholeDeal(id)
    BY DEF db, IsChainEligible, Pending, WholeDeal
  <1>3. TypeOK' /\ NeverAheadOfChain' /\ ReleaseWaitsForMilestones'
    BY <1>1, <1>2 DEF IInv, TypeOK, Chain!TypeOK, NeverAheadOfChain, ReleaseWaitsForMilestones
  <1>4. RequestsHaveRows'
    BY <1>1, <1>2 DEF IInv, RequestsHaveRows
  <1>5. WritesAreConfirmed'
    BY <1>1, <1>2 DEF IInv, WritesAreConfirmed, IsChainEligible
  <1>6. MilestoneRequestsHaveMilestones'
    BY <1>1, <1>2 DEF IInv, MilestoneRequestsHaveMilestones
  <1>7. ReleasesFoundNonePending'
    BY <1>1, <1>2 DEF IInv, ReleasesFoundNonePending, Pending
  <1> QED BY <1>3, <1>4, <1>5, <1>6, <1>7 DEF IInv

\* A write to the status of one row ends its request; the other requests keep what
\* they know, none of which is the status.
LEMMA StatusWrite ==
  ASSUME IInv, NEW r \in Requests, req[r] # Idle, NEW s \in DbStatuses,
         status' = [status EXCEPT ![req[r].id] = s],
         ruled' \in {ruled, ruled \cup {req[r].id}},
         req' = [req EXCEPT ![r] = Idle],
         UNCHANGED <<configured, row, milestone, chain>>,
         IsChainEligible(req[r].id) /\ WholeDeal(req[r].id) => chain[req[r].id] \in Behind(s),
         s = "RELEASED" => req[r].id \in ruled' \/ Pending(req[r].id) = {}
  PROVE  IInv'
  <1> DEFINE id == req[r].id
  <1>1. /\ id \in Ids
        /\ status'[id] = s
        /\ \A other \in Ids \ {id} : status'[other] = status[other]
        /\ status' \in [Ids -> DbStatuses \cup {"ABSENT"}]
        /\ s # "ABSENT"
    BY DEF IInv, TypeOK, Request, DbStatuses
  <1>2. /\ req'[r] = Idle /\ Idle.pc = "idle" /\ Idle \in Request
        /\ \A other \in Requests \ {r} : req'[other] = req[other]
        /\ req' \in [Requests -> Request]
    BY DEF IInv, TypeOK, Request, Idle
  <1>3. \A e \in Ids : IsChainEligible(e)' = IsChainEligible(e) /\ Pending(e)' = Pending(e)
                       /\ WholeDeal(e)' = WholeDeal(e)
    BY DEF IsChainEligible, Pending, WholeDeal
  <1>4. TypeOK'
    BY <1>1, <1>2 DEF IInv, TypeOK, Chain!TypeOK
  <1>5. RequestsHaveRows'
    <2> SUFFICES ASSUME NEW other \in Requests, req'[other] # Idle
                 PROVE  status'[req'[other].id] # "ABSENT"
      BY DEF RequestsHaveRows
    <2>1. other # r /\ req'[other] = req[other] /\ req[other].id \in Ids
      BY <1>2 DEF IInv, TypeOK, Request
    <2> QED BY <1>1, <2>1 DEF IInv, RequestsHaveRows
  <1>6. WritesAreConfirmed'
    BY <1>2, <1>3 DEF IInv, WritesAreConfirmed, IsChainEligible
  <1>7. MilestoneRequestsHaveMilestones'
    BY <1>2 DEF IInv, MilestoneRequestsHaveMilestones, MilestonePcs
  <1>8. ReleasesFoundNonePending'
    BY <1>2 DEF IInv, ReleasesFoundNonePending, Pending
  <1>9. NeverAheadOfChain'
    BY <1>1, <1>3 DEF IInv, NeverAheadOfChain
  <1>10. ReleaseWaitsForMilestones'
    BY <1>1, <1>3 DEF IInv, ReleaseWaitsForMilestones
  <1> QED BY <1>4, <1>5, <1>6, <1>7, <1>8, <1>9, <1>10 DEF IInv

LEMMA NextIInv == IInv /\ [Next]_vars => IInv'
  <1> SUFFICES ASSUME IInv, [Next]_vars PROVE IInv'
    OBVIOUS
  <1>0. TypeOK
    BY DEF IInv
  <1>1. ASSUME NEW id \in Ids, NEW shape \in Shapes, Create(id, shape) PROVE IInv'
    <2>1. /\ status[id] = "ABSENT"
          /\ status' = [status EXCEPT ![id] = "PENDING"]
          /\ row' = [row EXCEPT ![id] = [arbitrator |-> shape.arbitrator,
                                         assetResolves |-> shape.assetResolves]]
          /\ milestone' = [milestone EXCEPT ![id] =
               [m \in Milestones |-> IF m \in shape.milestones THEN "PENDING" ELSE "NONE"]]
          /\ UNCHANGED <<configured, ruled, req, chain>>
      BY <1>1 DEF Create
    <2>2. \A r \in Requests : req[r] # Idle => req[r].id \in Ids \ {id}
      BY <1>0, <2>1 DEF IInv, RequestsHaveRows, TypeOK, Request
    <2>3. \A r \in Requests : req[r].pc \in MilestonePcs \cup {"verifyTx", "readChain", "write"}
                                => req[r] # Idle
      BY DEF Idle, MilestonePcs
    <2>4. \A other \in Ids \ {id} :
            /\ status'[other] = status[other]
            /\ row'[other] = row[other]
            /\ milestone'[other] = milestone[other]
      BY <1>0, <2>1 DEF TypeOK
    <2>5. \A other \in Ids \ {id} :
            /\ IsChainEligible(other)' = IsChainEligible(other)
            /\ Pending(other)' = Pending(other)
            /\ WholeDeal(other)' = WholeDeal(other)
      BY <2>1, <2>4 DEF IsChainEligible, Pending, WholeDeal
    <2>6. TypeOK'
      <3>1. shape.arbitrator \in BOOLEAN /\ shape.assetResolves \in BOOLEAN
        BY ShapeAssumption
      <3> QED BY <1>0, <2>1, <3>1 DEF TypeOK, DbStatuses, Chain!TypeOK
    <2>7. RequestsHaveRows'
      BY <2>1, <2>2, <2>4 DEF IInv, RequestsHaveRows
    <2>8. WritesAreConfirmed'
      BY <2>1, <2>2, <2>3, <2>5 DEF IInv, WritesAreConfirmed
    <2>9. MilestoneRequestsHaveMilestones'
      BY <2>1, <2>2, <2>3, <2>4 DEF IInv, MilestoneRequestsHaveMilestones
    <2>10. ReleasesFoundNonePending'
      BY <2>1, <2>2, <2>3, <2>5 DEF IInv, ReleasesFoundNonePending, MilestonePcs
    <2>11. status'[id] = "PENDING" /\ chain[id] \in Behind("PENDING")
      BY <1>0, <2>1 DEF TypeOK, Chain!TypeOK, Behind
    <2>12. NeverAheadOfChain'
      BY <2>1, <2>4, <2>5, <2>11 DEF IInv, NeverAheadOfChain
    <2>13. ReleaseWaitsForMilestones'
      BY <2>1, <2>4, <2>5, <2>11 DEF IInv, ReleaseWaitsForMilestones
    <2> QED BY <2>6, <2>7, <2>8, <2>9, <2>10, <2>12, <2>13 DEF IInv
  <1>2. ASSUME NEW r \in Requests, NEW op \in OpNames, NEW id \in Ids, Begin(r, op, id)
        PROVE  IInv'
    <2> DEFINE q == [pc |-> IF IsChainEligible(id) THEN "verifyTx" ELSE "write",
                     op |-> op, id |-> id]
    <2>1. /\ PassesChecks(op, id)
          /\ req' = [req EXCEPT ![r] = q]
          /\ UNCHANGED <<db, chain>>
      BY <1>2 DEF Begin
    <2>2. status[id] # "ABSENT" /\ (op = "release" => Pending(id) = {})
      BY <2>1, HandlerTable DEF PassesChecks, DbStatuses
    <2>3. q \in Request /\ q.id = id /\ q.op = op
      BY DEF Request
    <2>4. q.pc \in {"verifyTx", "write"} /\ (q.pc = "write" => ~IsChainEligible(id))
      OBVIOUS
    <2> HIDE DEF q
    <2> QED BY <2>1, <2>2, <2>3, <2>4, RequestStep DEF MilestonePcs
  <1>3. ASSUME NEW r \in Requests, VerifyTx(r) PROVE IInv'
    <2> DEFINE q == [req[r] EXCEPT !.pc = "readChain"]
    <2>1. /\ req[r].pc = "verifyTx"
          /\ req' = [req EXCEPT ![r] = q]
          /\ UNCHANGED <<db, chain>>
      BY <1>3, <1>0 DEF VerifyTx, TypeOK
    <2>2. /\ req[r] \in [pc : {"verifyTx", "readChain", "write"}, op : OpNames, id : Ids]
          /\ req[r] # Idle
      BY <1>0, <2>1, RequestRecords DEF MilestonePcs
    <2>3. /\ q \in Request /\ q.pc = "readChain"
          /\ q.id = req[r].id /\ q.op = req[r].op
      BY <2>2 DEF Request
    <2>4. status[q.id] # "ABSENT" /\ (q.op = "release" => Pending(q.id) = {})
      BY <2>1, <2>2, <2>3 DEF IInv, RequestsHaveRows, ReleasesFoundNonePending
    <2> HIDE DEF q
    <2> QED BY <2>1, <2>3, <2>4, RequestStep DEF MilestonePcs
  <1>4. ASSUME NEW r \in Requests, ReadChain(r) PROVE IInv'
    <2>1. /\ req[r].pc = "readChain" /\ UNCHANGED <<db, chain>>
          /\ req' = [req EXCEPT ![r] =
               IF chain[req[r].id] = VerifiedOps[req[r].op].expects
               THEN [req[r] EXCEPT !.pc = "write"] ELSE Idle]
      BY <1>4, <1>0 DEF ReadChain, AsExpected, TypeOK
    <2>2. /\ req[r] \in [pc : {"verifyTx", "readChain", "write"}, op : OpNames, id : Ids]
          /\ req[r] # Idle
      BY <1>0, <2>1, RequestRecords DEF MilestonePcs
    <2>3. CASE chain[req[r].id] = VerifiedOps[req[r].op].expects
      <3> DEFINE q == [req[r] EXCEPT !.pc = "write"]
      <3>1. q \in Request /\ q.pc = "write" /\ q.id = req[r].id /\ q.op = req[r].op
        BY <2>2 DEF Request
      <3>2. status[q.id] # "ABSENT" /\ (q.op = "release" => Pending(q.id) = {})
        BY <2>1, <2>2, <3>1 DEF IInv, RequestsHaveRows, ReleasesFoundNonePending
      <3>3. chain[q.id] \in Chain!Onwards(VerifiedOps[q.op].expects)
        BY <2>2, <2>3, <3>1, HandlerTable
      <3>4. req' = [req EXCEPT ![r] = q]
        BY <2>1, <2>3
      <3> HIDE DEF q
      <3> QED BY <2>1, <3>1, <3>2, <3>3, <3>4, RequestStep DEF MilestonePcs
    <2>4. CASE chain[req[r].id] # VerifiedOps[req[r].op].expects
      BY <2>1, <2>4, RequestStep DEF Idle, Request, MilestonePcs
    <2> QED BY <2>3, <2>4
  <1>5. ASSUME NEW r \in Requests, Write(r) PROVE IInv'
    <2>1. /\ req[r].pc = "write"
          /\ status' = [status EXCEPT ![req[r].id] = VerifiedOps[req[r].op].to]
          /\ ruled' = IF req[r].op \in ResolveOps THEN ruled \cup {req[r].id} ELSE ruled
          /\ req' = [req EXCEPT ![r] = Idle]
          /\ UNCHANGED <<configured, row, milestone, chain>>
      BY <1>5 DEF Write
    <2>2. req[r] # Idle /\ req[r].op \in OpNames /\ req[r].id \in Ids
      BY <1>0, <2>1, RequestRecords DEF MilestonePcs
    <2>3. IsChainEligible(req[r].id) => chain[req[r].id] \in Behind(VerifiedOps[req[r].op].to)
      BY <2>1, <2>2, HandlerTable DEF IInv, WritesAreConfirmed
    <2>4. VerifiedOps[req[r].op].to = "RELEASED" => req[r].id \in ruled' \/ Pending(req[r].id) = {}
      BY <2>1, <2>2, HandlerTable DEF IInv, ReleasesFoundNonePending
    <2> QED BY <2>1, <2>2, <2>3, <2>4, HandlerTable, StatusWrite
  <1>6. ASSUME NEW r \in Requests, NEW id \in Ids, NEW m \in Milestones, BeginMilestone(r, id, m)
        PROVE  IInv'
    <2> DEFINE q == [pc |-> "releaseOne", id |-> id, m |-> m]
    <2>1. /\ req' = [req EXCEPT ![r] = q]
          /\ status[id] # "ABSENT" /\ milestone[id][m] # "NONE"
          /\ UNCHANGED <<db, chain>>
      BY <1>6 DEF BeginMilestone
    <2>2. q \in Request /\ q.pc = "releaseOne" /\ q.id = id /\ q.m = m
      BY DEF Request
    <2> HIDE DEF q
    <2> QED BY <2>1, <2>2, RequestStep
  <1>7. ASSUME NEW r \in Requests, ReleaseOne(r) PROVE IInv'
    <2> DEFINE id == req[r].id
               m == req[r].m
               q == [req[r] EXCEPT !.pc = "count"]
    <2>1. /\ req[r].pc = "releaseOne"
          /\ milestone' = [milestone EXCEPT ![id] = [milestone[id] EXCEPT ![m] = "RELEASED"]]
          /\ req' = [req EXCEPT ![r] = q]
          /\ UNCHANGED <<configured, row, status, ruled, chain>>
      BY <1>7, <1>0 DEF ReleaseOne, TypeOK
    <2>2. /\ req[r] \in [pc : {"releaseOne", "count", "complete"}, id : Ids, m : Milestones]
          /\ req[r] # Idle
      BY <1>0, <2>1, RequestRecords DEF MilestonePcs
    <2>3. /\ id \in Ids /\ m \in Milestones
          /\ q \in Request /\ q.pc = "count" /\ q.id = id /\ q.m = m /\ q # Idle
      BY <2>2 DEF Request, Idle
    <2>4. /\ req'[r] = q /\ req' \in [Requests -> Request]
          /\ \A other \in Requests \ {r} : req'[other] = req[other]
      BY <1>0, <2>1, <2>3 DEF TypeOK
    <2>5. \A e \in Ids, n \in Milestones :
            milestone'[e][n] = IF e = id /\ n = m THEN "RELEASED" ELSE milestone[e][n]
      BY <1>0, <2>1, <2>3 DEF TypeOK
    <2>6. milestone[id][m] # "NONE"
      BY <2>1 DEF IInv, MilestoneRequestsHaveMilestones, MilestonePcs
    <2>7. ASSUME NEW e \in Ids
          PROVE  /\ Pending(e)' \subseteq Pending(e)
                 /\ WholeDeal(e)' => WholeDeal(e)
                 /\ IsChainEligible(e)' = IsChainEligible(e)
      BY <2>1, <2>3, <2>5, <2>6 DEF Pending, WholeDeal, IsChainEligible
    <2> HIDE DEF q
    <2>8. TypeOK'
      <3>1. milestone' \in [Ids -> [Milestones -> {"NONE", "PENDING", "RELEASED"}]]
        BY <1>0, <2>1, <2>3 DEF TypeOK
      <3> QED BY <1>0, <2>1, <2>4, <3>1 DEF TypeOK, Chain!TypeOK
    <2>9. RequestsHaveRows'
      BY <2>1, <2>2, <2>3, <2>4 DEF IInv, RequestsHaveRows
    <2>10. WritesAreConfirmed'
      BY <2>1, <2>3, <2>4 DEF IInv, WritesAreConfirmed, IsChainEligible
    <2>11. MilestoneRequestsHaveMilestones'
      <3> SUFFICES ASSUME NEW other \in Requests, req'[other].pc \in MilestonePcs
                   PROVE  milestone'[req'[other].id][req'[other].m] # "NONE"
        BY DEF MilestoneRequestsHaveMilestones
      <3>1. CASE other = r
        BY <2>3, <2>4, <2>5, <3>1
      <3>2. CASE other # r
        <4>1. req'[other] = req[other] /\ req[other].id \in Ids /\ req[other].m \in Milestones
          BY <1>0, <2>4, <3>2, RequestRecords
        <4> QED BY <2>5, <4>1 DEF IInv, MilestoneRequestsHaveMilestones
      <3> QED BY <3>1, <3>2
    <2>12. ReleasesFoundNonePending'
      <3> SUFFICES ASSUME NEW other \in Requests,
                          \/ req'[other].pc \in {"verifyTx", "readChain", "write"}
                             /\ req'[other].op = "release"
                          \/ req'[other].pc = "complete",
                          NEW n \in Milestones
                   PROVE  milestone'[req'[other].id][n] # "PENDING"
        BY DEF ReleasesFoundNonePending, Pending
      <3>1. other # r /\ req'[other] = req[other]
        BY <2>3, <2>4
      <3>2. req[other].id \in Ids
        BY <1>0, <3>1, RequestRecords DEF MilestonePcs
      <3>3. Pending(req[other].id) = {}
        BY <3>1 DEF IInv, ReleasesFoundNonePending
      <3>4. milestone[req[other].id][n] # "PENDING"
        BY <3>3 DEF Pending
      <3> QED BY <2>5, <3>1, <3>2, <3>4
    <2> HIDE DEF id, m
    <2>13. NeverAheadOfChain'
      <3> SUFFICES ASSUME NEW e \in Ids, IsChainEligible(e)', WholeDeal(e)'
                   PROVE  (chain[e] \in Behind(status[e]))'
        BY DEF NeverAheadOfChain
      <3>1. IsChainEligible(e) /\ WholeDeal(e)
        BY <2>7
      <3>2. chain[e] \in Behind(status[e])
        BY <3>1 DEF IInv, NeverAheadOfChain
      <3> QED BY <2>1, <3>2 DEF Behind
    <2>14. ReleaseWaitsForMilestones'
      <3> SUFFICES ASSUME NEW e \in Ids, status'[e] = "RELEASED", e \notin ruled'
                   PROVE  Pending(e)' = {}
        BY DEF ReleaseWaitsForMilestones
      <3>1. Pending(e) = {}
        BY <2>1 DEF IInv, ReleaseWaitsForMilestones
      <3>2. Pending(e)' \subseteq Pending(e)
        BY <2>7
      <3> QED BY <3>1, <3>2
    <2> QED BY <2>8, <2>9, <2>10, <2>11, <2>12, <2>13, <2>14 DEF IInv
  <1>8. ASSUME NEW r \in Requests, Count(r) PROVE IInv'
    <2>1. /\ req[r].pc = "count" /\ UNCHANGED <<db, chain>>
          /\ req' = [req EXCEPT ![r] = IF Pending(req[r].id) = {}
                                       THEN [req[r] EXCEPT !.pc = "complete"] ELSE Idle]
      BY <1>8, <1>0 DEF Count, NoneLeft, TypeOK
    <2>2. /\ req[r] \in [pc : {"releaseOne", "count", "complete"}, id : Ids, m : Milestones]
          /\ req[r] # Idle
      BY <1>0, <2>1, RequestRecords DEF MilestonePcs
    <2>3. CASE Pending(req[r].id) = {}
      <3> DEFINE q == [req[r] EXCEPT !.pc = "complete"]
      <3>1. q \in Request /\ q.pc = "complete" /\ q.id = req[r].id /\ q.m = req[r].m
        BY <2>2 DEF Request
      <3>2. status[q.id] # "ABSENT" /\ milestone[q.id][q.m] # "NONE"
        BY <2>1, <2>2, <3>1
        DEF IInv, RequestsHaveRows, MilestoneRequestsHaveMilestones, MilestonePcs
      <3>3. req' = [req EXCEPT ![r] = q] /\ Pending(q.id) = {}
        BY <2>1, <2>3, <3>1
      <3> HIDE DEF q
      <3> QED BY <2>1, <3>1, <3>2, <3>3, RequestStep
    <2>4. CASE Pending(req[r].id) # {}
      BY <2>1, <2>4, RequestStep DEF Idle, Request, MilestonePcs
    <2> QED BY <2>3, <2>4
  <1>9. ASSUME NEW r \in Requests, Complete(r) PROVE IInv'
    <2>1. /\ req[r].pc = "complete"
          /\ status' = [status EXCEPT ![req[r].id] = "RELEASED"]
          /\ req' = [req EXCEPT ![r] = Idle]
          /\ UNCHANGED <<configured, row, milestone, ruled, chain>>
      BY <1>9 DEF Complete
    <2>2. req[r] # Idle /\ req[r].id \in Ids /\ req[r].m \in Milestones
      BY <1>0, <2>1, RequestRecords DEF MilestonePcs
    <2>3. Pending(req[r].id) = {} /\ ~WholeDeal(req[r].id)
      BY <2>1, <2>2
      DEF IInv, ReleasesFoundNonePending, MilestoneRequestsHaveMilestones, MilestonePcs, WholeDeal
    <2> QED BY <2>1, <2>2, <2>3, StatusWrite DEF DbStatuses
  <1>10. ASSUME NEW r \in Requests, Abort(r) PROVE IInv'
    BY <1>10, RequestStep DEF Abort, Idle, Request, MilestonePcs
  <1>11. CASE ChainStep
    <2>1. PICK id \in Ids : Chain!Step(id)
      BY <1>11 DEF ChainStep
    <2>2. /\ Chain!TypeOK'
          /\ \A other \in Ids, s \in DbStatuses \cup {"ABSENT"} :
               chain[other] \in Behind(s) => chain'[other] \in Behind(s)
      BY <1>0, <2>1, ChainMovesOn DEF TypeOK
    <2>3. UNCHANGED <<configured, row, status, milestone, ruled, req>>
      BY <1>11 DEF ChainStep, db
    <2>4. \A e \in Ids : IsChainEligible(e)' = IsChainEligible(e) /\ Pending(e)' = Pending(e)
                         /\ WholeDeal(e)' = WholeDeal(e)
      BY <2>3 DEF IsChainEligible, Pending, WholeDeal
    <2>5. TypeOK'
      BY <1>0, <2>2, <2>3 DEF TypeOK
    <2>6. RequestsHaveRows' /\ MilestoneRequestsHaveMilestones'
      BY <2>3 DEF IInv, RequestsHaveRows, MilestoneRequestsHaveMilestones
    <2>7. WritesAreConfirmed'
      <3> SUFFICES ASSUME NEW r \in Requests, req[r].pc = "write", IsChainEligible(req[r].id)
                   PROVE  chain'[req[r].id] \in Chain!Onwards(VerifiedOps[req[r].op].expects)
        BY <2>3 DEF WritesAreConfirmed, IsChainEligible
      <3>1. req[r].op \in OpNames /\ req[r].id \in Ids
        BY <1>0, RequestRecords
      <3>2. chain[req[r].id] \in Behind(VerifiedOps[req[r].op].to)
        BY <3>1, HandlerTable DEF IInv, WritesAreConfirmed
      <3> QED BY <2>2, <3>1, <3>2, HandlerTable
    <2>8. ReleasesFoundNonePending' /\ ReleaseWaitsForMilestones'
      BY <2>3 DEF IInv, ReleasesFoundNonePending, ReleaseWaitsForMilestones, Pending
    <2>9. NeverAheadOfChain'
      BY <1>0, <2>2, <2>3, <2>4 DEF IInv, NeverAheadOfChain, TypeOK
    <2> QED BY <2>5, <2>6, <2>7, <2>8, <2>9 DEF IInv
  <1>12. CASE UNCHANGED vars
    BY <1>12 DEF vars, db, IInv, TypeOK, Chain!TypeOK, RequestsHaveRows, WritesAreConfirmed,
      MilestoneRequestsHaveMilestones, ReleasesFoundNonePending, NeverAheadOfChain,
      ReleaseWaitsForMilestones, IsChainEligible, Pending, WholeDeal
  <1> QED BY <1>1, <1>2, <1>3, <1>4, <1>5, <1>6, <1>7, <1>8, <1>9, <1>10, <1>11, <1>12
    DEF Next, NextWithoutFailures, BackendStep, BeginSome, HandlerStep

LEMMA AlwaysIInv == Spec => []IInv
  BY InitIInv, NextIInv, PTL DEF Spec

-----------------------------------------------------------------------------
(* The theorems *)

\* The rows, the requests in flight and the chain keep to their types in create,
\* the six verified updates, releaseMilestone and every failure in between.
THEOREM ServiceTypeCorrect == Spec => []TypeOK
  <1>1. IInv => TypeOK
    BY DEF IInv
  <1> QED BY <1>1, AlwaysIInv, PTL

\* verifyOnChain: however many requests interleave between its chain read and the
\* unconditional update, an eligible row without milestones never shows a funding,
\* a dispute or a settlement the contract does not have.
THEOREM NeverLeadsTheChain == Spec => []NeverAheadOfChain
  <1>1. IInv => NeverAheadOfChain
    BY DEF IInv
  <1> QED BY <1>1, AlwaysIInv, PTL

\* release() and releaseMilestone(): a row that no arbitrator ruled on is RELEASED
\* only with every milestone released, whichever requests raced to get it there.
THEOREM ReleasesWait == Spec => []ReleaseWaitsForMilestones
  <1>1. IInv => ReleaseWaitsForMilestones
    BY DEF IInv
  <1> QED BY <1>1, AlwaysIInv, PTL

LEMMA SettledMeansChain ==
  ASSUME NeverAheadOfChain, NEW id \in Ids, IsChainEligible(id), WholeDeal(id)
  PROVE  /\ status[id] = "RELEASED" => chain[id] = "Released"
         /\ status[id] = "REFUNDED" => chain[id] = "Refunded"
  BY DEF NeverAheadOfChain, Behind

\* fund, release, refund, dispute and resolve: two requests that settle an eligible row
\* without milestones cannot turn it from one outcome to the other, although the update
\* by id does not ask what the row has become, because the contract has confirmed one.
THEOREM ConfirmedOutcomesStay == Spec => VerifiedOutcomeIsFinal
  <1> DEFINE Kept(id) ==
        IsChainEligible(id) /\ WholeDeal(id) /\ status[id] \in DbSettled
          => status'[id] \notin DbSettled \ {status[id]}
  <1>1. IInv /\ IInv' /\ [Next]_vars => [\A id \in Ids : Kept(id)]_vars
    <2> SUFFICES ASSUME IInv, IInv', Next, NEW id \in Ids, IsChainEligible(id), WholeDeal(id),
                        status[id] \in DbSettled
                 PROVE  status'[id] \notin DbSettled \ {status[id]}
      BY DEF Kept
    <2>1. CASE status'[id] = status[id]
      BY <2>1
    <2>2. CASE \E r \in Requests : Write(r) \/ Complete(r)
      <3>1. UNCHANGED <<configured, row, milestone, chain>>
        BY <2>2 DEF Write, Complete
      <3>2. IsChainEligible(id)' /\ WholeDeal(id)' /\ NeverAheadOfChain'
        BY <3>1 DEF IInv, IsChainEligible, WholeDeal
      <3>3. /\ status'[id] = "RELEASED" => chain'[id] = "Released"
            /\ status'[id] = "REFUNDED" => chain'[id] = "Refunded"
        BY <3>2 DEF NeverAheadOfChain, Behind
      <3>4. /\ status[id] = "RELEASED" => chain[id] = "Released"
            /\ status[id] = "REFUNDED" => chain[id] = "Refunded"
        BY SettledMeansChain DEF IInv
      <3> QED BY <3>1, <3>3, <3>4 DEF DbSettled
    <2>3. CASE \E e \in Ids, shape \in Shapes : Create(e, shape)
      <3>1. PICK e \in Ids : status[e] = "ABSENT" /\ status' = [status EXCEPT ![e] = "PENDING"]
        BY <2>3 DEF Create
      <3>2. e # id
        BY <3>1 DEF DbSettled
      <3> QED BY <2>1, <3>1, <3>2 DEF IInv, TypeOK
    <2>4. CASE ~(\E r \in Requests : Write(r) \/ Complete(r))
               /\ ~(\E e \in Ids, shape \in Shapes : Create(e, shape))
      <3>1. status' = status
        BY <2>4, Zenon
        DEF Next, NextWithoutFailures, BackendStep, BeginSome, Begin, BeginMilestone, HandlerStep,
           VerifyTx, ReadChain, ReleaseOne, Count, Abort, ChainStep, db
      <3> QED BY <2>1, <3>1
    <2> QED BY <2>2, <2>3, <2>4
  <1> QED BY <1>1, AlwaysIInv, PTL DEF Spec, VerifiedOutcomeIsFinal

\* fund to resolve: stale updates set a row back, never into a dead end.  A settled deal
\* whose eligible row has been seen funded is shown, or has a report that assertStatus,
\* the handler's own checks and verifyOnChain all accept; whether somebody makes it is
\* what FundedRowCatchesUp adds.
THEOREM NoRowIsStuck == Spec => []SettledDealHasAReport
  <1>1. IInv => SettledDealHasAReport
    <2> SUFFICES ASSUME IInv, NEW id \in Ids,
                        ChainSettled(id), SeenFunded(id), IsChainEligible(id), WholeDeal(id)
                 PROVE  Agrees(id) \/ CanBeReported(id)
      BY DEF SettledDealHasAReport
    <2>1. chain[id] \in Behind(status[id]) /\ chain[id] \in {"Released", "Refunded"}
      BY DEF IInv, NeverAheadOfChain, ChainSettled, Chain!Settled
    <2>2. Pending(id) = {}
      BY DEF WholeDeal, Pending
    <2>3. CASE status[id] \in DbSettled
      BY <2>1, <2>3 DEF DbSettled, Behind, Agrees
    <2>4. CASE status[id] = "FUNDED"
      <3> DEFINE op == IF chain[id] = "Released" THEN "release" ELSE "refund"
      <3>1. op \in Reports /\ op # "dispute"
        BY DEF Reports
      <3>2. VerifiedOps[op].from = "FUNDED" /\ VerifiedOps[op].expects = chain[id]
        BY <2>1 DEF VerifiedOps
      <3> HIDE DEF op
      <3> QED BY <2>2, <2>4, <3>1, <3>2 DEF CanBeReported, PassesChecks, AsExpected
    <2>5. CASE status[id] = "DISPUTED"
      <3> DEFINE op == IF chain[id] = "Released" THEN "resolveToSeller" ELSE "resolveToBuyer"
      <3>1. op \in Reports /\ op \notin {"release", "dispute"}
        BY DEF Reports
      <3>2. VerifiedOps[op].from = "DISPUTED" /\ VerifiedOps[op].expects = chain[id]
        BY <2>1 DEF VerifiedOps
      <3> HIDE DEF op
      <3> QED BY <2>2, <2>5, <3>1, <3>2 DEF CanBeReported, PassesChecks, AsExpected
    <2> QED BY <2>3, <2>4, <2>5 DEF IInv, TypeOK, SeenFunded, DbStatuses, DbSettled
  <1> QED BY <1>1, AlwaysIInv, PTL
=============================================================================
