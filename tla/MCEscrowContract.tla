--------------------------- MODULE MCEscrowContract ---------------------------
(* Small instances of EscrowContract. *)
EXTENDS EscrowContract, TLC

\* The parties start with equal balances and no constant tells them apart, and
\* neither does any of the deals.
PartySymmetry == Permutations(Parties)
DealAndPartySymmetry == Permutations(Parties) \cup Permutations(Ids)
=============================================================================
