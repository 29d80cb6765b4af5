------------------------------- MODULE MCHttpApi -------------------------------
(* A small instance of HttpApi. *)
EXTENDS HttpApi

CONSTANTS r1, r2, u1, u2, o1, o2

\* Every route against the requests that decide about keys.
MCOffered == [r \in Requests |->
  IF r = r1 THEN {t.handler : t \in Routes}
  ELSE {"apiKeys.revoke", "escrows.create"}]

\* u1 comes and goes in o1, where he may be demoted; u2 owns o2.
MCRanks == [o \in Orgs |-> [u \in Users |->
  CASE o = o1 /\ u = u1 -> {"OWNER", "VIEWER", None}
    [] o = o2 /\ u = u2 -> {"OWNER"}
    [] OTHER            -> {None}]]
=============================================================================
