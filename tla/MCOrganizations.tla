--------------------------- MODULE MCOrganizations ---------------------------
(* Small instances of Organizations. *)
EXTENDS Organizations, TLC

\* create() took one of the rows and one of the users; the rest are alike.
Symmetry ==
  Permutations(Requests) \cup Permutations(MemberIds \ {FoundersRow})
    \cup Permutations(InvitationIds)
=============================================================================
