--------------------------- MODULE MCEscrowsService ---------------------------
(* Small instances of EscrowsService. *)
EXTENDS EscrowsService, TLC

EveryShape ==
  [arbitrator : BOOLEAN, assetResolves : BOOLEAN, milestones : {{}, Milestones}]

\* With an arbitrator and a known asset, and nothing to release piecemeal.
WholeDeals == {[arbitrator |-> TRUE, assetResolves |-> TRUE, milestones |-> {}]}

\* With milestones, on the chain or not.
Piecemeal == [arbitrator : BOOLEAN, assetResolves : {TRUE}, milestones : {Milestones}]

Symmetry == Permutations(Requests) \cup Permutations(Milestones)
=============================================================================
