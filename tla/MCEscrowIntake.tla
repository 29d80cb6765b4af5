---------------------------- MODULE MCEscrowIntake ----------------------------
(* Small instances of EscrowIntake. *)
EXTENDS EscrowIntake

CONSTANTS o1, o2, ann, bob, cid

\* Four grains to a stroop: below half a stroop, a tie, milestones that sum to the amount
\* exactly, a stroop away from it, or in fractions that are rounded one by one, amounts
\* that binary numbers blur, and one too large for its column.
Amounts == {<<1, <<>>>>, <<6, <<>>>>, <<8, <<4, 8>>>>, <<7, <<3, 3, 3>>>>, <<49, <<>>>>,
            <<80, <<40, 46>>>>, <<4, <<20, 20>>>>, <<100, <<>>>>}

Order(n, asset, depositor, beneficiary, arbitrator) ==
  [amount |-> n[1], milestones |-> n[2], asset |-> asset,
   depositor |-> depositor, beneficiary |-> beneficiary, arbitrator |-> arbitrator]

OnChain == {Order(n, "XLM", ann, bob, cid) : n \in Amounts}

OffChain == {Order(<<4, <<>>>>, "XLM", ann, bob, None), Order(<<4, <<>>>>, "EURX", ann, bob, cid)}

\* The other order shares the first one's depositor, or nothing with it.
Others == {Order(<<4, <<>>>>, "NATIVE", ann, cid, bob), Order(<<4, <<>>>>, "USDC", bob, cid, ann)}

MCAsks == [o \in Orders |-> IF o = o1 THEN OnChain \cup OffChain ELSE Others]
=============================================================================
