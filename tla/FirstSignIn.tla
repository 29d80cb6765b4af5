------------------------------ MODULE FirstSignIn ------------------------------
(***************************************************************************)
(* How a user comes into being: register() and loginWithOAuth() of         *)
(* Backend/src/auth/auth.service.ts, for one e-mail address and one        *)
(* account with a provider, up to the call of createSession(), which is    *)
(* the business of Sessions.  loginWithOAuth makes the user and the link   *)
(* in separate statements, so an attempt may leave one without the other.  *)
(***************************************************************************)
EXTENDS Naturals

CONSTANT Requests   \* requests in flight at once

VARIABLES account,  \* the user row: absent, with a password, or made by OAuth
          links,    \* the number of OAuthAccount rows for the provider's account
          req       \* where each request is

rows == <<account, links>>
vars == <<rows, req>>

TypeOK ==
  /\ account \in {"absent", "password", "oauth"}
  /\ links \in 0..1
  /\ req \in [Requests -> {"idle", "createUser", "findUser", "createFromOAuth", "link"}]

Init ==
  /\ account = "absent"
  /\ links = 0
  /\ req = [r \in Requests |-> "idle"]

At(r, from, to) == req[r] = from /\ req' = [req EXCEPT ![r] = to]

-----------------------------------------------------------------------------
(* register() *)

BeginRegister(r) ==
  /\ account = "absent"
  /\ At(r, "idle", "createUser")
  /\ UNCHANGED rows

\* The e-mail is unique: of two that found nobody, one fails here.
CreateUser(r) ==
  /\ At(r, "createUser", "idle")
  /\ account = "absent"
  /\ account' = "password"
  /\ UNCHANGED links

-----------------------------------------------------------------------------
(* loginWithOAuth() *)

\* An account that is linked goes straight to its session.
BeginOAuth(r) ==
  /\ links = 0
  /\ At(r, "idle", "findUser")
  /\ UNCHANGED rows

\* Variant: every first sign-in with a provider makes a user.
AlwaysNew == "createFromOAuth"

AfterLookup == IF account = "absent" THEN "createFromOAuth" ELSE "link"

FindUser(r) ==
  /\ At(r, "findUser", AfterLookup)
  /\ UNCHANGED rows

CreateUserFromOAuth(r) ==
  /\ At(r, "createFromOAuth", "link")
  /\ account = "absent"
  /\ account' = "oauth"
  /\ UNCHANGED links

\* Variant: a schema that lets one account be linked again.
LinkAgain(r) ==
  /\ At(r, "link", "idle")
  /\ links' = links + 1
  /\ UNCHANGED account

\* One link per provider and account: of two first sign-ins, one fails here.
LinkAccount(r) ==
  /\ At(r, "link", "idle")
  /\ links = 0
  /\ links' = links + 1
  /\ UNCHANGED account

-----------------------------------------------------------------------------

\* A unique constraint, the database or the process: the request ends.
Abort(r) ==
  /\ req[r] # "idle"
  /\ req' = [req EXCEPT ![r] = "idle"]
  /\ UNCHANGED rows

Next ==
  \E r \in Requests :
    \/ BeginRegister(r)
    \/ CreateUser(r)
    \/ BeginOAuth(r)
    \/ FindUser(r)
    \/ CreateUserFromOAuth(r)
    \/ LinkAccount(r)
    \/ Abort(r)

\* Requests run to their end; somebody keeps signing in with the provider; and none
\* of the statements of loginWithOAuth fails every time it is tried.
Fairness ==
  /\ \A r \in Requests : WF_vars(Abort(r))
  /\ SF_vars(\E r \in Requests : BeginOAuth(r))
  /\ SF_vars(\E r \in Requests : FindUser(r))
  /\ SF_vars(\E r \in Requests : CreateUserFromOAuth(r))
  /\ SF_vars(\E r \in Requests : LinkAccount(r))

Spec == Init /\ [][Next]_vars /\ Fairness

-----------------------------------------------------------------------------

\* Wherever earlier attempts have failed, and whoever registers the address in the
\* middle of one, a first sign-in that is tried again links the account in the end.
FirstOAuthSignInCompletes == <>(links = 1)
=============================================================================
