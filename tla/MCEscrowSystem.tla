---------------------------- MODULE MCEscrowSystem ----------------------------
(* Small instances of EscrowSystem. *)
EXTENDS EscrowSystem, TLC

\* On the chain, with an arbitrator and a known asset; with milestones or without.
Shape(milestones) == [arbitrator |-> TRUE, assetResolves |-> TRUE, milestones |-> milestones]

OnChainDeals == {Shape({}), Shape(Milestones)}

PartyAndRequestSymmetry == Permutations(Parties) \cup Permutations(Requests)
=============================================================================
