-------------------------------- MODULE HttpApi --------------------------------
(***************************************************************************)
(* Requests to Backend/src from the moment they are sent to what their     *)
(* client makes of the answer: the routes of the controllers, the global   *)
(* guards and those of the route, the validation of the body, the handler, *)
(* the exception filter, and the two clients that decode its envelope.     *)
(* API keys, which the guards read and the requests change, are here in    *)
(* full; memberships change as Organizations says, seen from outside.      *)
(*                                                                         *)
(* A request is split at every await of the database.  Rates are           *)
(* abstracted to a throttle that may refuse anything, a credential that is *)
(* missing, forged or expired to None, a body to its being valid, and      *)
(* the handlers of the other services to refusing, writing and failing.    *)
(***************************************************************************)
EXTENDS Naturals

CONSTANTS Requests, Users, Orgs, Keys,
          Offered,      \* the handlers a request of each name may ask for
          Ranks,        \* the roles a user may have in an organization, or None
          None

Everyone == {"OWNER", "ADMIN", "DEVELOPER", "FINANCE", "VIEWER"}
Managers == {"OWNER", "ADMIN"}
Builders == {"OWNER", "ADMIN", "DEVELOPER"}

ASSUME HttpAssumption ==
  /\ Offered \in [Requests -> SUBSET STRING]
  /\ Ranks \in [Orgs -> [Users -> SUBSET (Everyone \cup {None})]]
  /\ \A o \in Orgs, u \in Users : Ranks[o][u] # {}

VARIABLES key,       \* the ApiKey table
          role,      \* role[o][u]: of user u in organization o, or None
          req,       \* the requests and the answers to them
          entitled   \* history: whose caller was entitled at some time since it was sent

vars == <<key, role, req, entitled>>

-----------------------------------------------------------------------------
(* Routes.  guard: of the route or its controller; roles: @Roles; caller: the  *)
(* parameter the handler takes its caller from; body: what is validated;       *)
(* writes: the handler changes something; refusals: statuses of its exceptions. *)

Route(handler, public, guard, roles, caller, body, writes, refusals) ==
  [handler |-> handler, public |-> public, guard |-> guard, roles |-> roles,
   caller |-> caller, body |-> body, writes |-> writes, refusals |-> refusals]

Open(handler, body, writes, refusals) ==
  Route(handler, TRUE, "none", {}, "none", body, writes, refusals)

SignedIn(handler, body, writes, refusals) ==
  Route(handler, FALSE, "none", {}, "user", body, writes, refusals)

ByRole(handler, roles, caller, body, writes, refusals) ==
  Route(handler, FALSE, "roles", roles, caller, body, writes, refusals)

ByKey(handler, body, writes, refusals) ==
  Route(handler, TRUE, "apiKey", {}, "apiKey", body, writes, refusals)

AuthRoutes == {
  Open("auth.register", "dto", TRUE, {409}),
  Open("auth.login", "dto", TRUE, {401}),
  Open("auth.refresh", "dto", TRUE, {}),
  Open("auth.logout", "dto", TRUE, {}),
  Open("auth.requestMagicLink", "dto", TRUE, {}),
  Open("auth.verifyMagicLink", "dto", TRUE, {400}),
  Open("auth.oauthStatus", "none", FALSE, {}),
  SignedIn("auth.me", "none", FALSE, {}),
  SignedIn("auth.setupTwoFactor", "none", FALSE, {}),
  SignedIn("auth.confirmTwoFactor", "dto", TRUE, {400}),
  SignedIn("auth.disableTwoFactor", "dto", TRUE, {400}),
  Route("auth.oauthLogin", TRUE, "oauth", {}, "none", "none", FALSE, {}),
  Route("auth.oauthCallback", TRUE, "oauth", {}, "profile", "none", TRUE, {})}

EscrowRoutes == {
  ByKey("escrows.create", "dto", TRUE, {400}),
  ByKey("escrows.list", "dto", FALSE, {}),
  ByKey("escrows.get", "none", FALSE, {404}),
  ByKey("escrows.getOnChainState", "none", FALSE, {404}),
  ByKey("escrows.fund", "dto", TRUE, {400, 404, 409}),
  ByKey("escrows.release", "dto", TRUE, {400, 404, 409}),
  ByKey("escrows.releaseMilestone", "none", TRUE, {404, 409}),
  ByKey("escrows.refund", "dto", TRUE, {400, 404, 409}),
  ByKey("escrows.dispute", "dto", TRUE, {400, 404, 409}),
  ByKey("escrows.resolve", "dto", TRUE, {400, 404, 409})}

OrganizationRoutes == {
  SignedIn("organizations.list", "none", FALSE, {}),
  SignedIn("organizations.create", "dto", TRUE, {}),
  ByRole("organizations.listMembers", Everyone, "none", "none", FALSE, {}),
  ByRole("organizations.invite", Managers, "user", "dto", TRUE, {409}),
  SignedIn("organizations.acceptInvitation", "unchecked", TRUE, {400, 403}),
  ByRole("organizations.updateMemberRole", Managers, "none", "dto", TRUE, {400, 404}),
  ByRole("organizations.removeMember", Managers, "none", "none", TRUE, {400, 404})}

ApiKeyRoutes == {
  ByRole("apiKeys.list", Everyone, "none", "none", FALSE, {}),
  ByRole("apiKeys.create", Builders, "user", "dto", TRUE, {}),
  ByRole("apiKeys.revoke", Builders, "none", "none", TRUE, {404})}

\* The checks of health.check fail with ServiceUnavailableException.
HealthRoutes == {
  Open("health.live", "none", FALSE, {503}),
  Open("health.ready", "none", FALSE, {503})}

Routes == AuthRoutes \cup EscrowRoutes \cup OrganizationRoutes \cup ApiKeyRoutes \cup HealthRoutes

\* They may succeed without a write: a second factor is asked for, the address has no
\* account, or the token could not be revoked for whatever reason.
MayDoNothing == {"auth.login", "auth.requestMagicLink", "auth.logout"}

\* What the SDK sends, with X-Api-Key; every other client sends an access token.
SdkCalls == {
  "escrows.create", "escrows.list", "escrows.get", "escrows.fund", "escrows.release",
  "escrows.releaseMilestone", "escrows.refund", "escrows.dispute", "escrows.resolve",
  "escrows.getOnChainState"}

-----------------------------------------------------------------------------

Statuses == {200, 302, 400, 401, 403, 404, 409, 429, 500, 502, 503}

ApiKey == [org : Orgs, revoked : BOOLEAN]

ASSUME NoneAssumption == None \notin Everyone \cup Users \cup Orgs \cup Keys \cup ApiKey

Idle == [pc |-> "idle"]

\* user, apiKey: the credentials sent; org, target: the path's parameters.
Running ==
  [pc : {"jwt", "guard", "touch", "pipe", "handle", "revoke", "finish"},
   route : Routes, user : Users \cup {None}, apiKey : Keys \cup {None},
   org : Orgs \cup {None}, target : Keys \cup {None},
   caller : {"none", "user", "apiKey", "profile"}, wrote : BOOLEAN]

\* status 0: no answer reached the client; json: the answer has the API's envelope.
Answered ==
  [pc : {"answered"}, route : Routes, wrote : BOOLEAN, status : Statuses \cup {0}, json : BOOLEAN]

TypeOK ==
  /\ key \in [Keys -> ApiKey \cup {None}]
  /\ role \in [Orgs -> [Users -> Everyone \cup {None}]]
  /\ req \in [Requests -> Running \cup Answered \cup {Idle}]
  /\ entitled \in [Requests -> BOOLEAN]

Init ==
  /\ key = [k \in Keys |-> None]
  /\ role \in [Orgs -> [Users -> Everyone \cup {None}]]
  /\ \A o \in Orgs, u \in Users : role[o][u] \in Ranks[o][u]
  /\ req = [r \in Requests |-> Idle]
  /\ entitled = [r \in Requests |-> FALSE]

\* Variant: a key that was found is good.
KeyExists(k) == k # None /\ key[k] # None

KeyIsLive(k) == k # None /\ key[k] # None /\ ~key[k].revoked

\* The guard's own rule, for what the tables say now.
Entitled(q, keys, roles) ==
  /\ ~q.route.public => q.user # None
  /\ q.route.guard = "roles" => q.user # None /\ roles[q.org][q.user] \in q.route.roles
  /\ q.route.guard = "apiKey" =>
       q.apiKey # None /\ keys[q.apiKey] # None /\ ~keys[q.apiKey].revoked

IsRunning(q) == q.pc \notin {"idle", "answered"}

\* Every step: the history notices what the tables have become.
Noticed ==
  entitled' = [r \in Requests |->
    /\ IsRunning(req'[r])
    /\ Entitled(req'[r], key', role') \/ entitled[r]]

Goto(r, q) == req' = [req EXCEPT ![r] = q]
At(r, pc) == req[r].pc = pc

Reply(q, status, json) ==
  [pc |-> "answered", route |-> q.route, wrote |-> q.wrote, status |-> status, json |-> json]

\* The handler's result, or the envelope of GlobalExceptionFilter.
Answer(q, status) == Reply(q, status, TRUE)

-----------------------------------------------------------------------------
(* Clients *)

\* Variant: the boundary itself is taken for a client's error.
ErrorTypeAbove500(status) ==
  CASE status \in {401, 403} -> "authentication_error"
    [] status = 429          -> "rate_limit_error"
    [] status > 500          -> "api_error"
    [] OTHER                 -> "invalid_request_error"

ErrorTypeForStatus(status) ==
  CASE status \in {401, 403} -> "authentication_error"
    [] status = 429          -> "rate_limit_error"
    [] status >= 500         -> "api_error"
    [] OTHER                 -> "invalid_request_error"

\* What StellarEscrow.request and apiFetch throw: the envelope's type when the body is
\* JSON, the bare status otherwise, and the error of fetch when nothing came.
Succeeded(q) == q.status \in {200, 302}
Silent(q) == q.status = 0

Told(q) ==
  CASE Succeeded(q)                                   -> "success"
    [] Silent(q)                                      -> "no_answer"
    [] ~Succeeded(q) /\ ~Silent(q) /\ q.json          -> ErrorTypeForStatus(q.status)
    [] ~Succeeded(q) /\ ~Silent(q) /\ ~q.json         -> "status_only"

\* A request is sent with its credential; the first guard may refuse it at once.
Send(r) ==
  /\ req[r] = Idle
  /\ \E t \in Routes, u \in Users \cup {None}, k \in Keys \cup {None},
        o \in Orgs \cup {None}, x \in Keys \cup {None} :
       /\ t.handler \in Offered[r]
       /\ t.public => u = None
       /\ t.handler \notin SdkCalls => k = None
       /\ (o # None) = (t.guard = "roles")
       /\ (x # None) = (t.handler = "apiKeys.revoke")
       /\ LET q == [pc |-> "jwt", route |-> t, user |-> u, apiKey |-> k, org |-> o,
                    target |-> x, caller |-> "none", wrote |-> FALSE]
          IN Goto(r, q) \/ Goto(r, Answer(q, 429))
  /\ UNCHANGED <<key, role>>

\* The client hears nothing: the connection broke, before or after the work was done.
Hang(r) ==
  /\ IsRunning(req[r]) \/ (At(r, "answered") /\ req[r].status # 0)
  /\ Goto(r, Reply(req[r], 0, FALSE))
  /\ UNCHANGED <<key, role>>

\* The process dies under the request and the load balancer answers in its place.
Die(r) ==
  /\ IsRunning(req[r])
  /\ Goto(r, Reply(req[r], 502, FALSE))
  /\ UNCHANGED <<key, role>>

Forget(r) ==
  /\ At(r, "answered")
  /\ Goto(r, Idle)
  /\ UNCHANGED <<key, role>>

-----------------------------------------------------------------------------
(* Guards, in the order they run, and the pipe *)

\* JwtStrategy: the token verifies and its user is found.
TokenHolds(q) == q.user # None

\* JwtAuthGuard: only here does request.user come from.
Authenticate(r) ==
  /\ At(r, "jwt")
  /\ IF req[r].route.public THEN Goto(r, [req[r] EXCEPT !.pc = "guard"])
     ELSE IF TokenHolds(req[r]) THEN Goto(r, [req[r] EXCEPT !.pc = "guard", !.caller = "user"])
     ELSE Goto(r, Answer(req[r], 401))
  /\ UNCHANGED <<key, role>>

PassGuard(r) ==
  /\ At(r, "guard") /\ req[r].route.guard = "none"
  /\ Goto(r, [req[r] EXCEPT !.pc = "pipe"])
  /\ UNCHANGED <<key, role>>

CheckRole(r) ==
  /\ At(r, "guard") /\ req[r].route.guard = "roles"
  /\ Goto(r, IF /\ req[r].caller = "user"
                /\ role[req[r].org][req[r].user] \in req[r].route.roles
             THEN [req[r] EXCEPT !.pc = "pipe"] ELSE Answer(req[r], 403))
  /\ UNCHANGED <<key, role>>

FindKeyByHash(r) ==
  /\ At(r, "guard") /\ req[r].route.guard = "apiKey"
  /\ Goto(r, IF KeyIsLive(req[r].apiKey)
             THEN [req[r] EXCEPT !.pc = "touch"] ELSE Answer(req[r], 401))
  /\ UNCHANGED <<key, role>>

\* Variant: the row that was read is saved with its new time of use.
SaveKey(r) ==
  /\ At(r, "touch")
  /\ key' = [key EXCEPT ![req[r].apiKey].revoked = FALSE]
  /\ Goto(r, [req[r] EXCEPT !.pc = "pipe", !.caller = "apiKey"])
  /\ UNCHANGED role

\* The update of lastUsedAt, a column of its own, and request.apiKey.
TouchKey(r) ==
  /\ At(r, "touch")
  /\ Goto(r, [req[r] EXCEPT !.pc = "pipe", !.caller = "apiKey"])
  /\ UNCHANGED <<key, role>>

\* Passport sends the browser to the provider, with placeholder credentials if need be,
\* or brings it back with a profile, with a refusal or with an error.
RunPassport(r) ==
  /\ At(r, "guard") /\ req[r].route.guard = "oauth"
  /\ \/ req[r].route.caller = "none" /\ Goto(r, Answer(req[r], 302))
     \/ /\ req[r].route.caller = "profile"
        /\ \/ Goto(r, [req[r] EXCEPT !.pc = "pipe", !.caller = "profile"])
           \/ \E s \in {401, 500} : Goto(r, Answer(req[r], s))
  /\ UNCHANGED <<key, role>>

\* ValidationPipe.  A body whose type is inline is let through as it is.
Validate(r) ==
  /\ At(r, "pipe")
  /\ \/ Goto(r, [req[r] EXCEPT !.pc = "handle"])
     \/ req[r].route.body = "dto" /\ Goto(r, Answer(req[r], 400))
  /\ UNCHANGED <<key, role>>

-----------------------------------------------------------------------------
(* Handlers *)

Handler(r) == req[r].route.handler

Refuse(r) ==
  /\ At(r, "handle")
  /\ Handler(r) # "apiKeys.revoke"
  /\ \E s \in req[r].route.refusals : Goto(r, Answer(req[r], s))
  /\ UNCHANGED <<key, role>>

\* A service's first write; it may have more to do.
Write(r) ==
  /\ At(r, "handle") /\ req[r].route.writes
  /\ Handler(r) \notin {"apiKeys.create", "apiKeys.revoke"}
  /\ Goto(r, [req[r] EXCEPT !.pc = "finish", !.wrote = TRUE])
  /\ UNCHANGED <<key, role>>

\* Variant: the parameter of the path goes by another name.
CreateStrayKey(r, k) ==
  /\ At(r, "handle") /\ Handler(r) = "apiKeys.create"
  /\ key[k] = None
  /\ key' = [key EXCEPT ![k] = [org |-> None, revoked |-> FALSE]]
  /\ Goto(r, [req[r] EXCEPT !.pc = "finish", !.wrote = TRUE])
  /\ UNCHANGED role

CreateKey(r, k) ==
  /\ At(r, "handle") /\ Handler(r) = "apiKeys.create"
  /\ key[k] = None
  /\ key' = [key EXCEPT ![k] = [org |-> req[r].org, revoked |-> FALSE]]
  /\ Goto(r, [req[r] EXCEPT !.pc = "finish", !.wrote = TRUE])
  /\ UNCHANGED role

\* Variant: the key is looked up by its id alone.
FindAnyKey(r) ==
  /\ At(r, "handle") /\ Handler(r) = "apiKeys.revoke"
  /\ Goto(r, IF key[req[r].target] # None
             THEN [req[r] EXCEPT !.pc = "revoke"] ELSE Answer(req[r], 404))
  /\ UNCHANGED <<key, role>>

FindKey(r) ==
  /\ At(r, "handle") /\ Handler(r) = "apiKeys.revoke"
  /\ Goto(r, IF key[req[r].target] # None /\ key[req[r].target].org = req[r].org
             THEN [req[r] EXCEPT !.pc = "revoke"] ELSE Answer(req[r], 404))
  /\ UNCHANGED <<key, role>>

\* By id; a key that was revoked before gets a new time.
RevokeKey(r) ==
  /\ At(r, "revoke")
  /\ key' = [key EXCEPT ![req[r].target].revoked = TRUE]
  /\ Goto(r, [req[r] EXCEPT !.pc = "finish", !.wrote = TRUE])
  /\ UNCHANGED role

Finish(r) ==
  /\ \/ At(r, "finish")
     \/ At(r, "handle") /\ (~req[r].route.writes \/ Handler(r) \in MayDoNothing)
  /\ Goto(r, Answer(req[r], 200))
  /\ UNCHANGED <<key, role>>

\* Anything thrown that is no HttpException: the database, the mail server, a token that
\* does not verify, a body nobody checked.
Fail(r) ==
  /\ IsRunning(req[r])
  /\ Goto(r, Answer(req[r], 500))
  /\ UNCHANGED <<key, role>>

\* Organizations: invited, promoted, demoted, removed.
ChangeRole(o, u) ==
  /\ \E n \in Ranks[o][u] \ {role[o][u]} : role' = [role EXCEPT ![o][u] = n]
  /\ UNCHANGED <<key, req>>

Guards(r) ==
  \/ Authenticate(r) \/ PassGuard(r) \/ CheckRole(r) \/ FindKeyByHash(r) \/ TouchKey(r)
  \/ RunPassport(r) \/ Validate(r)

Handle(r) ==
  \/ Refuse(r) \/ Write(r) \/ FindKey(r) \/ RevokeKey(r) \/ Finish(r) \/ Fail(r)
  \/ \E k \in Keys : CreateKey(r, k)

Next ==
  /\ \/ \E r \in Requests : Send(r) \/ Guards(r) \/ Handle(r) \/ Hang(r) \/ Die(r) \/ Forget(r)
     \/ \E o \in Orgs, u \in Users : ChangeRole(o, u)
  /\ Noticed

Spec == Init /\ [][Next]_vars

-----------------------------------------------------------------------------

Admitted(q) == q.pc \in {"pipe", "handle", "revoke", "finish"}

\* A request that got past its guards had, at some moment after it was sent, everything
\* its route asks for, and its handler finds the caller it reads.  So nothing sent after
\* a key was revoked or a member removed is ever handled, though a request that was in
\* the guard at the time may be.
HandledRequestsWereEntitled ==
  \A r \in Requests : Admitted(req[r]) =>
    /\ entitled[r]
    /\ req[r].route.caller \in {"none", req[r].caller}

\* A key, once revoked, stays revoked, whatever guards still have it in hand.
RevocationIsFinal ==
  [][\A k \in Keys : key[k] # None /\ key[k].revoked => key'[k] = key[k]]_key

\* A key is revoked by a request for its own organization, which a member of it made
\* who could manage keys at some moment after it was sent.
KeysAreRevokedFromInside ==
  [][\A k \in Keys : key[k] # None /\ key'[k] # key[k] =>
       \E r \in Requests :
         /\ At(r, "revoke")
         /\ req[r].target = k /\ req[r].org = key[k].org
         /\ entitled[r]]_key

\* What a client is told is what happened: an error whose type blames the request has
\* left nothing behind and may be repeated, success means the work is done where there
\* was work, and only api_error, a bare status and silence leave it open.
AnswersTellWhatHappened ==
  \A r \in Requests : At(r, "answered") =>
    /\ Told(req[r]) \in {"invalid_request_error", "authentication_error", "rate_limit_error"}
         => ~req[r].wrote
    /\ Told(req[r]) = "success" /\ req[r].route.writes /\ Handler(r) \notin MayDoNothing
         => req[r].wrote
=============================================================================
