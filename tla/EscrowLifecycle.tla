--------------------------- MODULE EscrowLifecycle ---------------------------
(***************************************************************************)
(* What the escrow contract promises about the STATUS of a deal, and       *)
(* nothing else: no money, no signatures, no ledger time.  EscrowContract  *)
(* implements it, and EscrowsService uses it as its environment: the       *)
(* backend sees the chain only as a status it can read.                    *)
(***************************************************************************)

CONSTANT Ids

VARIABLE status

\* EscrowStatus of the contract, with "Absent" for an id nobody has registered.
Statuses == {"Absent", "Created", "Funded", "Released", "Refunded", "Disputed"}

Settled == {"Released", "Refunded"}

TypeOK == status \in [Ids -> Statuses]

Init == status = [id \in Ids |-> "Absent"]

Move(id, from, to) ==
  /\ status[id] = from
  /\ status' = [status EXCEPT ![id] = to]

Create(id)  == Move(id, "Absent", "Created")
Fund(id)    == Move(id, "Created", "Funded")
Release(id) == Move(id, "Funded", "Released")
Refund(id)  == Move(id, "Funded", "Refunded")
Dispute(id) == Move(id, "Funded", "Disputed")
Resolve(id) == \E outcome \in Settled : Move(id, "Disputed", outcome)

Step(id) ==
  \/ Create(id)
  \/ Fund(id)
  \/ Release(id)
  \/ Refund(id)
  \/ Dispute(id)
  \/ Resolve(id)

Next == \E id \in Ids : Step(id)

Spec == Init /\ [][Next]_status

\* The statuses a deal may be in once it has been seen in status s.
Onwards(s) ==
  CASE s = "Absent"   -> Statuses
    [] s = "Created"  -> Statuses \ {"Absent"}
    [] s = "Funded"   -> {"Funded", "Disputed", "Released", "Refunded"}
    [] s = "Disputed" -> {"Disputed", "Released", "Refunded"}
    [] s = "Released" -> {"Released"}
    [] s = "Refunded" -> {"Refunded"}
=============================================================================
