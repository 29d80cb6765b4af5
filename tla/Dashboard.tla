------------------------------- MODULE Dashboard -------------------------------
(***************************************************************************)
(* One tab of Frontend/src: the session store, the two forms that fill it, *)
(* the dashboard and its card of API keys, and the two cached queries they *)
(* show, against a backend that answers in any order, late or not at all.  *)
(*                                                                         *)
(* The tab runs on while a request is away: its user moves between pages,  *)
(* signs out, and somebody else signs in, all in one page load, so that    *)
(* the query cache outlives them.  Whose organizations are whose does not  *)
(* change meanwhile.  What alerts say, and the copying of a secret, are    *)
(* left out.  At most one creation and one revocation are away at a time.  *)
(***************************************************************************)
EXTENDS Naturals, FiniteSets, Functions

CONSTANTS Users, Keys, Orgs,
          MembersOf,    \* those who may read and change an organization's keys
          HomeOf,       \* organizations[0] of a user's account: what the card is about
          WithCode,     \* users with a second factor
          Known,        \* users with an account from the start
          MaxAway,      \* with so many requests away the user only waits or reloads
          None

ASSUME DashboardAssumption ==
  /\ MembersOf \in [Orgs -> SUBSET Users]
  /\ HomeOf \in [Users -> Orgs \cup {None}]
  /\ WithCode \subseteq Users /\ Known \subseteq Users
  /\ None \notin Users \cup Keys \cup Orgs
  /\ MaxAway \in Nat

VARIABLES account,   \* backend: who is registered
          key,       \* backend: the organizations' keys
          signedIn,  \* useAuthStore: whose session, or None
          page,
          form,      \* the form on the page: whose answer it waits for, whose code it asks for
          signing,   \* sign-ins and sign-ups under way
          leaving,   \* how many sign-outs each user has under way
          me,        \* the query ['auth', 'me']: whose account it holds
          list,      \* the query ['api-keys', organization] of each organization
          creating,  \* the POST of a key under way, and whether its card is still there
          revoking,  \* the DELETE of one, the same, and the list its answer invalidates
          secret,    \* the card's revealedKey
          told,      \* history: changes the tab was told of and could ask for again
          odd        \* history: what was unusual about the session and its page

vars == <<account, key, signedIn, page, form, signing, leaving, me, list, creating, revoking,
          secret, told, odd>>

Pages == {"home", "login", "signup", "dashboard"}
KeyStates == {"absent", "live", "revoked"}
Lists == [Keys -> KeyStates]
Changes == [key : Keys, to : {"live", "revoked"}]

BlankForm == [waits |-> None, code |-> None]

\* fresh: not invalidated, nor found older than staleTime; by: whose token the fetch
\* under way carries; seen: the list the server has read for it.
NoQuery == [data |-> None, fresh |-> FALSE, by |-> None, seen |-> None]

\* shadow: the session began while a sign-out was under way; swapped: it replaced
\* another under an open dashboard; current: the account on screen was fresh, or asked
\* for already, when the dashboard was opened; failed: fetching it failed since.
Plain == [shadow |-> FALSE, swapped |-> FALSE, current |-> FALSE, failed |-> FALSE]

TypeOK ==
  /\ account \subseteq Users
  /\ key \in [Keys -> [state : KeyStates, maker : Users \cup {None}, org : Orgs \cup {None}]]
  /\ signedIn \in Users \cup {None}
  /\ page \in Pages /\ (page = "dashboard" => signedIn # None)
  /\ form \in [waits : Users \cup {None}, code : WithCode \cup {None}]
  /\ signing \in [Users -> {"no", "login", "code", "signup"}]
  /\ leaving \in [Users -> Nat]
  /\ me \in [data : Users \cup {None}, fresh : BOOLEAN, by : Users \cup {None},
             seen : Users \cup {None}]
  /\ list \in [Orgs -> [data : Lists \cup {None}, fresh : BOOLEAN, by : Users \cup {None},
                        seen : Lists \cup {None}]]
  /\ creating \in [by : Users, org : Orgs, key : Keys \cup {None}, here : BOOLEAN] \cup {None}
  /\ revoking \in [by : Users, key : Keys, tells : Orgs, here : BOOLEAN] \cup {None}
  /\ secret \in Keys \cup {None}
  /\ told \subseteq Changes
  /\ odd \in [shadow : BOOLEAN, swapped : BOOLEAN, current : BOOLEAN, failed : BOOLEAN]

SomebodyLeaves == \E u \in Users : leaving[u] > 0

\* Sign-ins, sign-ups, sign-outs, creations, revocations and fetches.
Away == Cardinality({u \in Users : signing[u] # "no"}) + SumFunction(leaving)
          + Cardinality({o \in Orgs : list[o].by # None})
          + Cardinality({r \in {"me"} : me.by # None})
          + Cardinality({r \in {creating, revoking} : r # None})

Init ==
  /\ account = Known
  /\ key = [k \in Keys |-> [state |-> "absent", maker |-> None, org |-> None]]
  /\ signedIn = None /\ page = "login" /\ form = BlankForm
  /\ signing = [u \in Users |-> "no"] /\ leaving = [u \in Users |-> 0]
  /\ me = NoQuery /\ list = [o \in Orgs |-> NoQuery]
  /\ creating = None /\ revoking = None /\ secret = None
  /\ told = {} /\ odd = Plain

-----------------------------------------------------------------------------
(* Queries *)

\* Variant: a component that mounts is content with whatever there is.
MountedOnce(q, u, aged) ==
  IF q.by = None /\ q.data = None THEN [q EXCEPT !.by = u] ELSE q

\* A component that mounts asks for what is missing, stale or by now older than
\* staleTime, with the token of the moment, unless somebody has asked already.  Growing
\* old on the page fetches nothing.
Mounted(q, u, aged) ==
  IF q.by = None /\ (q.data = None \/ ~q.fresh \/ aged)
  THEN [q EXCEPT !.by = u, !.fresh = FALSE] ELSE q

Arrived(q, d) == [data |-> d, fresh |-> TRUE, by |-> None, seen |-> None]
Stopped(q) == [q EXCEPT !.by = None, !.seen = None]

\* The organization whose card is on the page: the first of the account on screen.
CardOf(p, q) == IF p = "dashboard" /\ q.data # None THEN HomeOf[q.data] ELSE None
Card == CardOf(page, me)

\* cancelRefetch replaces the fetch under way, except the first of all; a list nobody
\* shows is left for the next who does.
CannotAskAgain(o) == list[o].by # None /\ (list[o].data = None \/ Card # o)

\* Variant: a fetch under way is good enough.
JoinList(o) ==
  [list EXCEPT ![o].fresh = FALSE,
               ![o].by = IF Card = o /\ @ = None THEN signedIn ELSE @]

InvalidateList(o) ==
  IF Card = o /\ ~CannotAskAgain(o)
  THEN [list EXCEPT ![o] = [@ EXCEPT !.fresh = FALSE, !.by = signedIn, !.seen = None]]
  ELSE [list EXCEPT ![o].fresh = FALSE]

\* A mutation under way takes its card's latest organization for its own while the card
\* is there.
Followed(r, kept, o) ==
  IF ~kept THEN [r EXCEPT !.here = FALSE]
  ELSE IF r.here THEN [r EXCEPT !.tells = o] ELSE r

\* What every change of session, page or account brings with it: the redirect of an
\* open dashboard without a session, the queries of what appears, and the end of the
\* card's own state when it disappears.  The card has no key: it is the same one when
\* the account on screen changes, with whatever it showed and waited for.
Render(u, p, q) == \E aged \in BOOLEAN :
  LET p2 == IF p = "dashboard" /\ u = None THEN "login" ELSE p
      opens == p2 = "dashboard" /\ page # "dashboard"
      q2 == IF opens THEN Mounted(q, u, aged) ELSE q
      card == CardOf(p2, q2)
      kept == card # None /\ Card # None
  IN
  /\ signedIn' = u /\ page' = p2 /\ me' = q2
  /\ list' \in IF card \in {None, Card} THEN {list}
               ELSE {[list EXCEPT ![card] = Mounted(@, u, old)] : old \in BOOLEAN}
  /\ secret' = IF kept THEN secret ELSE None
  /\ creating' = IF creating # None /\ ~kept THEN [creating EXCEPT !.here = FALSE] ELSE creating
  /\ revoking' = IF revoking # None THEN Followed(revoking, kept, card) ELSE None
  /\ form' = IF p2 = page THEN form ELSE BlankForm
  /\ odd' = [shadow  |-> IF u = signedIn THEN odd.shadow ELSE u # None /\ SomebodyLeaves,
             swapped |-> p2 = "dashboard" /\ page = "dashboard"
                           /\ (odd.swapped \/ u # signedIn),
             current |-> IF opens THEN (q.fresh /\ ~aged) \/ q.by # None
                         ELSE odd.current /\ p2 = "dashboard",
             failed  |-> ~opens /\ p2 = "dashboard"
                           /\ (odd.failed \/ (me.by # None /\ q = Stopped(me)))]

-----------------------------------------------------------------------------
(* Pages and the session *)

NavbarLinks == IF signedIn = None THEN {"login", "signup"} ELSE {"dashboard"}
CallToActionLinks == {"signup"}

\* Around either form, and below it.
AuthShellLinks == {"home"}
OtherForm == IF page = "login" THEN {"signup"} ELSE {"login"}

Links ==
  CASE page = "home"                 -> NavbarLinks \cup CallToActionLinks
    [] page \in {"login", "signup"} -> AuthShellLinks \cup OtherForm
    [] page = "dashboard"            -> {}

FollowLink(p) ==
  /\ p \in Links /\ Away < MaxAway
  /\ Render(signedIn, p, me)
  /\ UNCHANGED <<account, key, signing, leaving, told>>

\* Signing in leaves the form behind in the tab's history.
GoBack(p) ==
  /\ page = "dashboard" /\ p \in {"login", "signup"} /\ Away < MaxAway
  /\ Render(signedIn, p, me)
  /\ UNCHANGED <<account, key, signing, leaving, told>>

\* Variant: a store that lives in memory only.
ReloadEmpty ==
  /\ page' = IF page = "dashboard" THEN "login" ELSE page
  /\ signedIn' = None /\ form' = BlankForm
  /\ signing' = [u \in Users |-> "no"] /\ leaving' = [u \in Users |-> 0]
  /\ creating' = None /\ revoking' = None /\ secret' = None
  /\ me' = NoQuery /\ list' = [o \in Orgs |-> NoQuery]
  /\ odd' = Plain
  /\ UNCHANGED <<account, key, told>>

\* The page is loaded again: only the store survives.  The first render is the server's,
\* which has no store, so that the dashboard's redirect may come before the store does.
Reload ==
  /\ signedIn' = signedIn /\ form' = BlankForm
  /\ page' = page \/ (page = "dashboard" /\ page' = "login")
  /\ signing' = [u \in Users |-> "no"] /\ leaving' = [u \in Users |-> 0]
  /\ creating' = None /\ revoking' = None /\ secret' = None
  /\ me' = IF page = "dashboard" THEN Mounted(NoQuery, signedIn, FALSE) ELSE NoQuery
  /\ list' = [o \in Orgs |-> NoQuery]
  /\ odd' = Plain
  /\ UNCHANGED <<account, key, told>>

\* LoginForm.  Once the code is asked for, address and password are fixed.
SubmitLogin(u) ==
  /\ page = "login" /\ form.waits = None /\ Away < MaxAway
  /\ form.code \in {None, u}
  /\ signing[u] = "no"
  /\ form' = [form EXCEPT !.waits = u]
  /\ signing' = [signing EXCEPT ![u] = IF form.code = u THEN "code" ELSE "login"]
  /\ UNCHANGED <<account, key, signedIn, page, leaving, me, list, creating, revoking, secret,
                 told, odd>>

\* SignupForm
SubmitSignup(u) ==
  /\ page = "signup" /\ form.waits = None /\ Away < MaxAway
  /\ signing[u] = "no"
  /\ form' = [form EXCEPT !.waits = u]
  /\ signing' = [signing EXCEPT ![u] = "signup"]
  /\ UNCHANGED <<account, key, signedIn, page, leaving, me, list, creating, revoking, secret,
                 told, odd>>

\* setSession and router.push, wherever the tab is by now.
SetSession(u) ==
  /\ signing' = [signing EXCEPT ![u] = "no"]
  /\ Render(u, "dashboard", me)
  /\ UNCHANGED <<key, leaving, told>>

LoginSucceeds(u) ==
  /\ u \in account
  /\ signing[u] = "code" \/ (signing[u] = "login" /\ u \notin WithCode)
  /\ SetSession(u)
  /\ UNCHANGED account

SignupSucceeds(u) ==
  /\ signing[u] = "signup" /\ u \notin account
  /\ account' = account \cup {u}
  /\ SetSession(u)

\* Variant: whoever logs in is asked for a code.
AskEverybody(u) ==
  /\ signing[u] = "login" /\ u \in account
  /\ signing' = [signing EXCEPT ![u] = "no"]
  /\ form' = IF form.waits = u /\ page = "login" THEN [waits |-> None, code |-> u] ELSE form
  /\ UNCHANGED <<account, key, signedIn, page, leaving, me, list, creating, revoking, secret,
                 told, odd>>

\* requiresTwoFactor, for a form that is still there to ask.
CodeAsked(u) ==
  /\ signing[u] = "login" /\ u \in account \cap WithCode
  /\ signing' = [signing EXCEPT ![u] = "no"]
  /\ form' = IF form.waits = u /\ page = "login" THEN [waits |-> None, code |-> u] ELSE form
  /\ UNCHANGED <<account, key, signedIn, page, leaving, me, list, creating, revoking, secret,
                 told, odd>>

\* Refused, failed or lost; a lost sign-up may have registered.
SignInFails(u) ==
  /\ signing[u] # "no"
  /\ \/ account' = account
     \/ signing[u] = "signup" /\ account' = account \cup {u}
  /\ signing' = [signing EXCEPT ![u] = "no"]
  /\ form' = IF form.waits = u THEN [form EXCEPT !.waits = None] ELSE form
  /\ UNCHANGED <<key, signedIn, page, leaving, me, list, creating, revoking, secret, told, odd>>

\* handleSignOut, up to its await and after it, whether or not /auth/logout answered.
\* The button stays enabled.
SignOut ==
  /\ page = "dashboard" /\ Away < MaxAway
  /\ leaving' = [leaving EXCEPT ![signedIn] = @ + 1]
  /\ UNCHANGED <<account, key, signedIn, page, form, signing, me, list, creating, revoking,
                 secret, told, odd>>

ClearSession(u) ==
  /\ leaving[u] > 0
  /\ leaving' = [leaving EXCEPT ![u] = @ - 1]
  /\ Render(None, "login", me)
  /\ UNCHANGED <<account, key, signing, told>>

-----------------------------------------------------------------------------
(* The account *)

AnswerMe ==
  /\ me.by # None /\ me.by \in account
  /\ Render(signedIn, page, Arrived(me, me.by))
  /\ UNCHANGED <<account, key, signing, leaving, told>>

\* retry: false
FailMe ==
  /\ me.by # None
  /\ Render(signedIn, page, Stopped(me))
  /\ UNCHANGED <<account, key, signing, leaving, told>>

-----------------------------------------------------------------------------
(* The card of API keys *)

ServerList(o) == [k \in Keys |-> IF key[k].org = o THEN key[k].state ELSE "absent"]

ReadList(o) ==
  /\ list[o].by \in MembersOf[o] /\ list[o].seen = None
  /\ list' = [list EXCEPT ![o].seen = ServerList(o)]
  /\ UNCHANGED <<account, key, signedIn, page, form, signing, leaving, me, creating, revoking,
                 secret, told, odd>>

AnswerList(o) ==
  /\ list[o].seen # None
  /\ list' = [list EXCEPT ![o] = Arrived(@, @.seen)]
  /\ UNCHANGED <<account, key, signedIn, page, form, signing, leaving, me, creating, revoking,
                 secret, told, odd>>

\* A member no more, or no answer, twice; the card says nothing of it.
FailList(o) ==
  /\ list[o].by # None
  /\ list' = [list EXCEPT ![o] = Stopped(@)]
  /\ UNCHANGED <<account, key, signedIn, page, form, signing, leaving, me, creating, revoking,
                 secret, told, odd>>

SubmitKey ==
  /\ Card # None /\ creating = None /\ Away < MaxAway
  /\ creating' = [by |-> signedIn, org |-> Card, key |-> None, here |-> TRUE]
  /\ UNCHANGED <<account, key, signedIn, page, form, signing, leaving, me, list, revoking,
                 secret, told, odd>>

ServerCreates(k) ==
  /\ creating # None /\ creating.key = None /\ creating.by \in MembersOf[creating.org]
  /\ key[k].state = "absent"
  /\ key' = [key EXCEPT ![k] = [state |-> "live", maker |-> creating.by, org |-> creating.org]]
  /\ creating' = [creating EXCEPT !.key = k]
  /\ UNCHANGED <<account, signedIn, page, form, signing, leaving, me, list, revoking, secret,
                 told, odd>>

Told(o, k, to) == IF CannotAskAgain(o) THEN told ELSE told \cup {[key |-> k, to |-> to]}

\* Variant: a secret is shown to whatever card there is.
RevealToAnyCard ==
  /\ creating # None /\ creating.key # None
  /\ secret' = IF Card # None THEN creating.key ELSE None
  /\ list' = InvalidateList(creating.org)
  /\ told' = Told(creating.org, creating.key, "live")
  /\ creating' = None
  /\ UNCHANGED <<account, key, signedIn, page, form, signing, leaving, me, revoking, odd>>

\* setRevealedKey of the card that asked, and invalidateQueries.
KeyCreated ==
  /\ creating # None /\ creating.key # None
  /\ secret' = IF creating.here THEN creating.key ELSE secret
  /\ list' = InvalidateList(creating.org)
  /\ told' = Told(creating.org, creating.key, "live")
  /\ creating' = None
  /\ UNCHANGED <<account, key, signedIn, page, form, signing, leaving, me, revoking, odd>>

\* Refused, or an answer lost: a key that was made stays, and nobody knows its secret.
CreateFails ==
  /\ creating # None
  /\ creating' = None
  /\ UNCHANGED <<account, key, signedIn, page, form, signing, leaving, me, list, revoking,
                 secret, told, odd>>

\* The button is there for what the list shows as live, and off while one is pending.
SubmitRevoke(k) ==
  /\ Card # None /\ revoking = None /\ Away < MaxAway
  /\ list[Card].data # None /\ list[Card].data[k] = "live"
  /\ revoking' = [by |-> signedIn, key |-> k, tells |-> Card, here |-> TRUE]
  /\ UNCHANGED <<account, key, signedIn, page, form, signing, leaving, me, list, creating,
                 secret, told, odd>>

ServerRevokes ==
  /\ revoking # None /\ revoking.by \in MembersOf[key[revoking.key].org]
  /\ key' = [key EXCEPT ![revoking.key].state = "revoked"]
  /\ UNCHANGED <<account, signedIn, page, form, signing, leaving, me, list, creating, revoking,
                 secret, told, odd>>

\* What is invalidated is the list of the organization the card has come to show.
KeyRevoked ==
  /\ revoking # None /\ key[revoking.key].state = "revoked"
  /\ revoking.by \in MembersOf[key[revoking.key].org]
  /\ list' = InvalidateList(revoking.tells)
  /\ told' = IF revoking.tells = key[revoking.key].org
             THEN Told(revoking.tells, revoking.key, "revoked") ELSE told
  /\ revoking' = None
  /\ UNCHANGED <<account, key, signedIn, page, form, signing, leaving, me, creating, secret, odd>>

\* Nothing says so.
RevokeFails ==
  /\ revoking # None
  /\ revoking' = None
  /\ UNCHANGED <<account, key, signedIn, page, form, signing, leaving, me, list, creating,
                 secret, told, odd>>

\* Online again: what is on the page asks for what is missing or stale.
Reconnect ==
  /\ page = "dashboard" /\ Away < MaxAway
  /\ me' \in {Mounted(me, signedIn, aged) : aged \in BOOLEAN}
  /\ list' \in IF Card = None THEN {list}
               ELSE {[list EXCEPT ![Card] = Mounted(@, signedIn, aged)] : aged \in BOOLEAN}
  /\ UNCHANGED <<account, key, signedIn, page, form, signing, leaving, creating, revoking,
                 secret, told, odd>>

SessionStep ==
  \/ \E p \in Pages : FollowLink(p) \/ GoBack(p)
  \/ \E u \in Users : \/ SubmitLogin(u) \/ SubmitSignup(u) \/ LoginSucceeds(u)
                      \/ SignupSucceeds(u) \/ CodeAsked(u) \/ SignInFails(u) \/ ClearSession(u)
  \/ Reload \/ SignOut \/ AnswerMe \/ FailMe

CardStep ==
  \/ \E o \in Orgs : ReadList(o) \/ AnswerList(o) \/ FailList(o)
  \/ SubmitKey \/ KeyCreated \/ CreateFails
  \/ \E k \in Keys : ServerCreates(k) \/ SubmitRevoke(k)
  \/ ServerRevokes \/ KeyRevoked \/ RevokeFails
  \/ Reconnect

Next == SessionStep \/ CardStep

Spec == Init /\ [][Next]_vars

-----------------------------------------------------------------------------

\* The secret of a new key is on screen only in the session of the user who made it,
\* except where another sign-in was answered under the open dashboard.
SecretShownToItsMaker ==
  secret # None =>
    /\ Card # None /\ key[secret].state # "absent"
    /\ key[secret].maker = signedIn \/ odd.swapped

\* The query of the account is not told one user from the next.  Another's account is
\* on screen only if it was fresh or on its way when the dashboard was opened, if the
\* session changed under it, or while its replacement is on its way or after that failed.
ForeignAccountHasAnExcuse ==
  page = "dashboard" /\ me.data \notin {None, signedIn} =>
    odd.current \/ odd.swapped \/ odd.failed \/ me.by # None

\* A session ends by its own user's sign-out, or by one that was under way when it began.
SessionOutlivesOtherSignOuts ==
  [][signedIn # None /\ signedIn' = None => leaving[signedIn] > 0 \/ odd.shadow]_signedIn

\* A list that counts as fresh has every change of its organization's keys the tab was
\* told of, except those it was told of during the first load, during a load that went
\* on while the list was not on the page, or by a card that shows another organization
\* by then.
ListShowsOwnChanges ==
  \A c \in told :
    LET l == list[key[c.key].org] IN
    l.data # None /\ l.fresh /\ l.by = None =>
      l.data[c.key] = "revoked" \/ (c.to = "live" /\ l.data[c.key] = "live")
=============================================================================
