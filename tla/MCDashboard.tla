----------------------------- MODULE MCDashboard -----------------------------
(***************************************************************************)
(* Two users who take turns at one tab.  Each has the organization that    *)
(* came with the registration; b was also invited to a's.                  *)
(***************************************************************************)
EXTENDS Dashboard

CONSTANTS a, b, oa, ob

MCMembersOf == [o \in Orgs |-> IF o = oa THEN {a, b} ELSE {b}]
MCHomeOf == [u \in Users |-> IF u = a THEN oa ELSE ob]
=============================================================================
