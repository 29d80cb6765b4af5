------------------------------- MODULE Sessions -------------------------------
(***************************************************************************)
(* Signing in and staying signed in: Backend/src/auth, for one user who    *)
(* has a password (FirstSignIn tells where users come from).               *)
(*                                                                         *)
(* A refresh token, a magic link and a recovery code are meant to serve    *)
(* once, and the code treats them alike: find the row, check that it is    *)
(* unspent, mark it BY ID, open a session.  They are the credentials here, *)
(* each row with the state its columns amount to; a session is a           *)
(* credential that is spent by its rotation.  As in EscrowsService,        *)
(* requests interleave at every await and may fail there.                  *)
(***************************************************************************)
EXTENDS Naturals, FiniteSets

CONSTANTS SessionRows, Links, Codes,  \* bound how many of each are ever made
          Requests,                   \* requests in flight at once
          SignIn                      \* the origin of a session no credential paid for

ASSUME KindAssumption ==
  /\ SessionRows \cap Links = {} /\ SessionRows \cap Codes = {} /\ Links \cap Codes = {}
  /\ SignIn \notin SessionRows \cup Links \cup Codes

VARIABLES twoFactor,  \* user.twoFactorEnabled
          cred,       \* the rows of sessions, magic_link_tokens, two_factor_recovery_codes
          req,        \* the requests in flight
          origin,     \* history: the credential a session was opened with
          line,       \* history: the first session of the chain of rotations
          raced,      \* history: sessions whose credential was spent under way
          loggedOut   \* history: sessions that a logout revoked

rows == <<twoFactor, cred>>
history == <<origin, line, raced, loggedOut>>
vars == <<rows, req, history>>

Credentials == SessionRows \cup Links \cup Codes

Idle == [pc |-> "idle"]

Request ==
  [pc : {"spend"}, from : Credentials, raced : BOOLEAN]
    \cup [pc : {"open"}, from : Credentials \cup {SignIn}, raced : BOOLEAN]
    \cup [pc : {"sign"}, session : SessionRows]
    \cup [pc : {"findCode"}, code : Codes]
    \cup {Idle}

TypeOK ==
  /\ twoFactor \in BOOLEAN
  /\ cred \in [Credentials -> {"none", "placeholder", "fresh", "spent", "expired", "deleted"}]
  /\ \A s \in SessionRows : cred[s] # "deleted"
  /\ \A l \in Links : cred[l] \notin {"placeholder", "deleted"}
  /\ \A c \in Codes : cred[c] \notin {"placeholder", "expired"}
  /\ req \in [Requests -> Request]
  /\ origin \in [SessionRows -> Credentials \cup {SignIn}]
  /\ line \in [SessionRows -> SessionRows]
  /\ raced \subseteq SessionRows /\ loggedOut \subseteq SessionRows

Init ==
  /\ twoFactor = FALSE
  /\ cred = [k \in Credentials |-> "none"]
  /\ req = [r \in Requests |-> Idle]
  /\ origin = [s \in SessionRows |-> SignIn]
  /\ line = [s \in SessionRows |-> s]
  /\ raced = {} /\ loggedOut = {}

-----------------------------------------------------------------------------
(* What a request does next *)

Goto(r, q) == req' = [req EXCEPT ![r] = q]

\* A session that no single-use credential pays for.
Admit(r) == Goto(r, [pc |-> "open", from |-> SignIn, raced |-> FALSE])

Start(r, q) == req[r] = Idle /\ Goto(r, q) /\ UNCHANGED <<rows, history>>

\* Whoever has checked k and not yet marked it is overtaken when somebody else does.
Overtaken(k, q) == IF q.pc = "spend" /\ q.from = k THEN [q EXCEPT !.raced = TRUE] ELSE q

-----------------------------------------------------------------------------
(* createSession(): the row with a placeholder hash, then the token's own *)

OpenSession(r, s) ==
  /\ req[r].pc = "open"
  /\ cred[s] = "none"
  /\ cred' = [cred EXCEPT ![s] = "placeholder"]
  /\ origin' = [origin EXCEPT ![s] = req[r].from]
  /\ line' = [line EXCEPT ![s] = IF req[r].from \in SessionRows THEN line[req[r].from] ELSE s]
  /\ raced' = IF req[r].raced THEN raced \cup {s} ELSE raced
  /\ Goto(r, [pc |-> "sign", session |-> s])
  /\ UNCHANGED <<twoFactor, loggedOut>>

\* The token is handed out once its hash is stored.
StoreHash(r) ==
  /\ req[r].pc = "sign"
  /\ cred' = [cred EXCEPT ![req[r].session] = "fresh"]
  /\ Goto(r, Idle)
  /\ UNCHANGED <<twoFactor, history>>

-----------------------------------------------------------------------------
(* rotateSession(), verifyMagicLink(), consumeRecoveryCode() *)

\* Variant: a token that has been used is as good as a new one.
IssuedAndInTime(k) == cred[k] \in {"fresh", "spent"}

\* The row is found; revokedAt or usedAt is null, expiresAt lies ahead, the hash matches.
Unspent(k) == cred[k] = "fresh"

BeginSpend(r, k) ==
  /\ k \in SessionRows \cup Links
  /\ Unspent(k)
  /\ Start(r, [pc |-> "spend", from |-> k, raced |-> FALSE])

\* A login reaches its recovery code later, behind the password.
FindCode(r) ==
  /\ req[r].pc = "findCode"
  /\ Goto(r, IF Unspent(req[r].code)
             THEN [pc |-> "spend", from |-> req[r].code, raced |-> FALSE] ELSE Idle)
  /\ UNCHANGED <<rows, history>>

\* Variant: the rotation leaves the old session as it is.
MarkAllButSessions(k) == IF k \in SessionRows THEN cred ELSE [cred EXCEPT ![k] = "spent"]

Mark(k) == [cred EXCEPT ![k] = "spent"]

\* update by id, unconditional; a row that was deleted fails the request.
Spend(r) ==
  LET k == req[r].from IN
  /\ req[r].pc = "spend"
  /\ cred[k] # "deleted"
  /\ cred' = Mark(k)
  /\ req' = [q \in Requests |->
               IF q = r THEN [pc |-> "open", from |-> k, raced |-> req[r].raced]
               ELSE Overtaken(k, req[q])]
  /\ UNCHANGED <<twoFactor, history>>

\* revokeByRefreshToken: one conditional statement, nothing for a session revoked
\* already.  The token's expiry is its own, so the row's may lie behind it.
Logout(s) ==
  /\ cred[s] \in {"fresh", "expired"}
  /\ cred' = Mark(s)
  /\ loggedOut' = loggedOut \cup {s}
  /\ req' = [q \in Requests |-> Overtaken(s, req[q])]
  /\ UNCHANGED <<twoFactor, origin, line, raced>>

\* Variant: recovery codes expire like everything else.
ExpireAny(k) ==
  /\ cred[k] = "fresh"
  /\ cred' = [cred EXCEPT ![k] = "expired"]
  /\ UNCHANGED <<twoFactor, req, history>>

Expire(k) ==
  /\ k \notin Codes
  /\ cred[k] = "fresh"
  /\ cred' = [cred EXCEPT ![k] = "expired"]
  /\ UNCHANGED <<twoFactor, req, history>>

RequestLink(l) ==
  /\ cred[l] = "none"
  /\ cred' = [cred EXCEPT ![l] = "fresh"]
  /\ UNCHANGED <<twoFactor, req, history>>

-----------------------------------------------------------------------------
(* register(), loginWithOAuth() and login() *)

\* register() and loginWithOAuth() past their own statements; login() with a password
\* and, if the user as read has two-factor enabled, a code of the authenticator.
BeginSignIn(r) == req[r] = Idle /\ Admit(r) /\ UNCHANGED <<rows, history>>

\* The user is read once, before the password is verified; the next thing login()
\* reads is the recovery code.
BeginLoginWithCode(r, c) == twoFactor /\ Start(r, [pc |-> "findCode", code |-> c])

-----------------------------------------------------------------------------
(* enable() and disable(): transactions *)

WithoutCodes == [k \in Credentials |-> IF k \in Codes /\ cred[k] # "none" THEN "deleted" ELSE cred[k]]

EnableTwoFactor(new) ==
  /\ new # {} /\ \A c \in new : cred[c] = "none"
  /\ twoFactor' = TRUE
  /\ cred' = [k \in Credentials |-> IF k \in new THEN "fresh" ELSE WithoutCodes[k]]
  /\ UNCHANGED <<req, history>>

DisableTwoFactor ==
  /\ twoFactor' = FALSE
  /\ cred' = WithoutCodes
  /\ UNCHANGED <<req, history>>

-----------------------------------------------------------------------------

\* A constraint, a deleted row, the database or the process: the request ends.
Abort(r) ==
  /\ req[r] # Idle
  /\ Goto(r, Idle)
  /\ UNCHANGED <<rows, history>>

Begin(r) ==
  \/ \E k \in Credentials : BeginSpend(r, k)
  \/ BeginSignIn(r)
  \/ \E c \in Codes : BeginLoginWithCode(r, c)

Step(r) ==
  \/ \E s \in SessionRows : OpenSession(r, s)
  \/ StoreHash(r)
  \/ FindCode(r)
  \/ Spend(r)

Elsewhere ==
  \/ \E s \in SessionRows : Logout(s)
  \/ \E k \in Credentials : Expire(k)
  \/ \E l \in Links : RequestLink(l)
  \/ \E new \in SUBSET Codes : EnableTwoFactor(new)
  \/ DisableTwoFactor

Next ==
  \/ Elsewhere
  \/ \E r \in Requests : Begin(r) \/ Step(r) \/ Abort(r)

Spec == Init /\ [][Next]_vars

-----------------------------------------------------------------------------
(* Safety *)

Opened(s) == cred[s] # "none"

\* rotateSession, verifyMagicLink and login: two sessions come from one refresh
\* token, magic link or recovery code only when the request behind one of them was
\* overtaken by the other between its check and its update.  Requests that do not
\* overlap are served once, in whatever order they come and wherever they fail.
CredentialsServeOnce ==
  \A s, t \in SessionRows :
    /\ s # t /\ Opened(s) /\ Opened(t)
    /\ origin[s] = origin[t] /\ origin[s] # SignIn
    => s \in raced \/ t \in raced

Live(s) == cred[s] \in {"placeholder", "fresh", "expired"}

InLine(x) == {s \in SessionRows : Opened(s) /\ line[s] = x}

\* However often a session is rotated, the chain that began with one sign-in has at
\* most one unrevoked session, and none once a logout has revoked one of them, until
\* a rotation in the chain has overlapped another one or the logout.
OneLiveSessionPerSignIn ==
  \A x \in SessionRows :
    InLine(x) \cap raced = {} =>
      /\ \A s, t \in InLine(x) : Live(s) /\ Live(t) => s = t
      /\ InLine(x) \cap loggedOut # {} => \A s \in InLine(x) : ~Live(s)
=============================================================================
