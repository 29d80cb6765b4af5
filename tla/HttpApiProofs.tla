----------------------------- MODULE HttpApiProofs -----------------------------
(***************************************************************************)
(* Theorems about HttpApi, for any number of requests, users,              *)
(* organizations and keys, and whatever routes the requests ask for.       *)
(***************************************************************************)
EXTENDS HttpApi, TLAPS

-----------------------------------------------------------------------------
(* What the routes have in common *)

RouteIsSound(t) ==
  /\ t.guard \in {"none", "roles", "apiKey", "oauth"}
  /\ \A s \in t.refusals : s \in {400, 401, 403, 404, 409, 503}
  /\ t.guard = "none" => t.caller = "none" \/ (t.caller = "user" /\ ~t.public)
  /\ t.guard = "roles" => ~t.public /\ t.caller \in {"none", "user"}
  /\ t.guard = "apiKey" => t.public /\ t.caller = "apiKey"
  /\ t.guard = "oauth" => /\ t.public /\ t.caller \in {"none", "profile"}
                          /\ t.caller = "none" => ~t.writes
  /\ t.handler \in {"apiKeys.create", "apiKeys.revoke"} => t.guard = "roles" /\ t.writes

\* A route that reads a caller has the guard that sets one, a provider's redirect writes
\* nothing, and no refusal looks like a success.
LEMMA RoutesAreSound == \A t \in Routes : RouteIsSound(t)
  <1>1. ASSUME NEW t \in HealthRoutes PROVE RouteIsSound(t)
    <2>1. t.guard = "none" /\ t.public = TRUE /\ t.caller = "none" /\ t.writes = FALSE
      BY DEF HealthRoutes, Open, Route
    <2>2. \A s \in t.refusals : s = 503
      BY DEF HealthRoutes, Open, Route
    <2>3. t.handler \notin {"apiKeys.create", "apiKeys.revoke"}
      BY DEF HealthRoutes, Open, Route
    <2> QED BY <2>1, <2>2, <2>3 DEF RouteIsSound
  <1>2. ASSUME NEW t \in ApiKeyRoutes PROVE RouteIsSound(t)
    <2>1. t.guard = "roles" /\ t.public = FALSE /\ t.caller \in {"none", "user"}
      BY DEF ApiKeyRoutes, ByRole, Route
    <2>2. \A s \in t.refusals : s = 404
      BY DEF ApiKeyRoutes, ByRole, Route
    <2>3. t.writes = FALSE \/ t.writes = TRUE
      BY DEF ApiKeyRoutes, ByRole, Route
    <2>4. t.handler = "apiKeys.list" \/ t.writes = TRUE
      BY DEF ApiKeyRoutes, ByRole, Route
    <2> QED BY <2>1, <2>2, <2>3, <2>4 DEF RouteIsSound
  <1>3. ASSUME NEW t \in EscrowRoutes PROVE RouteIsSound(t)
    <2>1. t.guard = "apiKey" /\ t.public = TRUE /\ t.caller = "apiKey"
      BY DEF EscrowRoutes, ByKey, Route
    <2>2. \A s \in t.refusals : s \in {400, 404, 409}
      BY DEF EscrowRoutes, ByKey, Route
    <2>3. t.writes = FALSE \/ t.writes = TRUE
      BY DEF EscrowRoutes, ByKey, Route
    <2>4. t.handler \notin {"apiKeys.create", "apiKeys.revoke"}
      BY DEF EscrowRoutes, ByKey, Route
    <2> QED BY <2>1, <2>2, <2>3, <2>4 DEF RouteIsSound
  <1>4. ASSUME NEW t \in OrganizationRoutes PROVE RouteIsSound(t)
    <2>1. /\ t.public = FALSE /\ t.caller \in {"none", "user"}
          /\ t.guard \in {"none", "roles"}
      BY DEF OrganizationRoutes, SignedIn, ByRole, Route
    <2>2. \A s \in t.refusals : s \in {400, 403, 404, 409}
      BY DEF OrganizationRoutes, SignedIn, ByRole, Route
    <2>3. t.writes = FALSE \/ t.writes = TRUE
      BY DEF OrganizationRoutes, SignedIn, ByRole, Route
    <2>4. t.handler \notin {"apiKeys.create", "apiKeys.revoke"}
      BY DEF OrganizationRoutes, SignedIn, ByRole, Route
    <2> QED BY <2>1, <2>2, <2>3, <2>4 DEF RouteIsSound
  <1>5. ASSUME NEW t \in AuthRoutes PROVE RouteIsSound(t)
    <2>1. /\ t.public = FALSE \/ t.public = TRUE
          /\ t.guard \in {"none", "oauth"}
      BY DEF AuthRoutes, Open, SignedIn, Route
    <2>2. \A s \in t.refusals : s \in {400, 401, 409}
      BY DEF AuthRoutes, Open, SignedIn, Route
    <2>3. t.writes = FALSE \/ t.writes = TRUE
      BY DEF AuthRoutes, Open, SignedIn, Route
    <2>4. t.handler \notin {"apiKeys.create", "apiKeys.revoke"}
      BY DEF AuthRoutes, Open, SignedIn, Route
    <2>5. t.guard = "none" => t.caller = "none" \/ (t.caller = "user" /\ t.public = FALSE)
      BY DEF AuthRoutes, Open, SignedIn, Route
    <2>6. t.guard = "oauth" => /\ t.public = TRUE /\ t.caller \in {"none", "profile"}
                               /\ t.caller = "none" => t.writes = FALSE
      BY DEF AuthRoutes, Open, SignedIn, Route
    <2> QED BY <2>1, <2>2, <2>3, <2>4, <2>5, <2>6 DEF RouteIsSound
  <1> QED BY <1>1, <1>2, <1>3, <1>4, <1>5 DEF Routes

-----------------------------------------------------------------------------
(* The invariant *)

\* A request's path has what its route needs, and its caller is who the first guard saw.
PathIsComplete(q) ==
  /\ q.route.guard = "roles" => q.org \in Orgs
  /\ q.route.handler = "apiKeys.revoke" => q.target \in Keys
  /\ q.caller = "user" => q.user # None

\* Where a request is tells what has been seen of it.
RequestIsInOrder(r) ==
  LET q == req[r] IN
  IsRunning(q) =>
    /\ PathIsComplete(q)
    /\ q.pc = "jwt" => q.caller = "none"
    /\ q.pc = "guard" => IF q.route.public THEN q.caller = "none" ELSE q.caller = "user"
    /\ q.pc = "touch" => q.route.guard = "apiKey" /\ q.apiKey \in Keys /\ key[q.apiKey] # None
    /\ q.pc = "touch" \/ Admitted(q) => entitled[r]
    /\ Admitted(q) => q.route.caller \in {"none", q.caller}
    /\ q.pc = "revoke" =>
         /\ q.route.handler = "apiKeys.revoke"
         /\ key[q.target] # None /\ key[q.target].org = q.org
    /\ q.wrote = (q.pc = "finish")

AnswerTellsWhatHappened(r) ==
  At(r, "answered") =>
    /\ Told(req[r]) \in {"invalid_request_error", "authentication_error", "rate_limit_error"}
         => ~req[r].wrote
    /\ Told(req[r]) = "success" /\ req[r].route.writes /\ Handler(r) \notin MayDoNothing
         => req[r].wrote

IInv ==
  /\ TypeOK
  /\ \A r \in Requests : RequestIsInOrder(r)
  /\ \A r \in Requests : AnswerTellsWhatHappened(r)

-----------------------------------------------------------------------------
(* Records and answers *)

LEMMA RunningRecord ==
  ASSUME TypeOK, NEW r \in Requests, IsRunning(req[r])
  PROVE  /\ req[r] \in Running
         /\ req[r].route \in Routes
  BY DEF TypeOK, IsRunning, Running, Answered, Idle

\* Blame comes in the envelope, and never with these statuses.
LEMMA ErrorTypes ==
  ASSUME NEW status \in Statuses \cup {0}
  PROVE  /\ ErrorTypeForStatus(status) # "success"
         /\ status >= 500 => ErrorTypeForStatus(status) = "api_error"
  <1>1. status \in Nat
    BY DEF Statuses
  <1>2. CASE status \in {401, 403}
    BY <1>2 DEF ErrorTypeForStatus
  <1>3. CASE status = 429
    BY <1>3 DEF ErrorTypeForStatus
  <1>4. CASE status >= 500
    <2>1. status \notin {401, 403} /\ status # 429
      BY <1>1, <1>4
    <2> QED BY <1>4, <2>1 DEF ErrorTypeForStatus
  <1>5. CASE status \notin {401, 403} /\ status # 429 /\ ~(status >= 500)
    BY <1>5 DEF ErrorTypeForStatus
  <1> QED BY <1>2, <1>3, <1>4, <1>5

LEMMA Telling ==
  ASSUME NEW q, q.status \in Statuses \cup {0}, q.json \in BOOLEAN
  PROVE  /\ Told(q) = "success" => q.status \in {200, 302}
         /\ Told(q) \in {"invalid_request_error", "authentication_error", "rate_limit_error"}
              => q.json /\ q.status \notin {0, 200, 302, 500, 502, 503}
  <1>1. CASE Succeeded(q)
    <2>1. ~Silent(q)
      BY <1>1 DEF Succeeded, Silent
    <2>2. Told(q) = "success"
      BY <1>1, <2>1 DEF Told
    <2> QED BY <1>1, <2>2 DEF Succeeded
  <1>2. CASE Silent(q)
    <2>1. ~Succeeded(q)
      BY <1>2 DEF Succeeded, Silent
    <2>2. Told(q) = "no_answer"
      BY <1>2, <2>1 DEF Told
    <2> QED BY <2>2
  <1>3. CASE ~Succeeded(q) /\ ~Silent(q) /\ q.json
    <2>1. Told(q) = ErrorTypeForStatus(q.status)
      BY <1>3 DEF Told
    <2>2. q.status >= 500 => Told(q) = "api_error"
      BY <2>1, ErrorTypes
    <2>3. q.status \in {500, 502, 503} => q.status >= 500
      OBVIOUS
    <2> QED BY <1>3, <2>1, <2>2, <2>3, ErrorTypes DEF Succeeded, Silent
  <1>4. CASE ~Succeeded(q) /\ ~Silent(q) /\ ~q.json
    <2>1. Told(q) = "status_only"
      BY <1>4 DEF Told
    <2> QED BY <2>1
  <1> QED BY <1>1, <1>2, <1>3, <1>4

\* An answer tells what happened if nothing was written before a refusal, and a success
\* found the work done.
LEMMA AnswerIsTrue ==
  ASSUME NEW r \in Requests, NEW a \in Answered, req'[r] = a,
         ~a.wrote \/ a.status \in {0, 200, 302, 500, 502},
         a.status \in {200, 302} =>
           ~a.route.writes \/ a.wrote \/ a.route.handler \in MayDoNothing
  PROVE  AnswerTellsWhatHappened(r)'
  <1>1. a.status \in Statuses \cup {0} /\ a.json \in BOOLEAN
    BY DEF Answered
  <1>2. /\ Told(a) = "success" => a.status \in {200, 302}
        /\ Told(a) \in {"invalid_request_error", "authentication_error", "rate_limit_error"}
             => a.status \notin {0, 200, 302, 500, 502, 503}
    BY <1>1, Telling
  <1>3. Told(a) = Told(req[r])'
    BY DEF Told, ErrorTypeForStatus, Succeeded, Silent
  <1> QED BY <1>1, <1>2, <1>3 DEF AnswerTellsWhatHappened, Handler

-----------------------------------------------------------------------------
(* Keys *)

\* A key keeps its organization, and its revocation.
KeyStays(k) ==
  key[k] # None => /\ key'[k] # None /\ key'[k].org = key[k].org
                   /\ key[k].revoked => key'[k] = key[k]

KeysStay == \A k \in Keys : KeyStays(k)

LEMMA CreatedKey ==
  ASSUME IInv, NEW r \in Requests, NEW k \in Keys, CreateKey(r, k)
  PROVE  /\ key' \in [Keys -> ApiKey \cup {None}]
         /\ KeysStay
         /\ \A l \in Keys : key[l] # None => key'[l] = key[l]
  <1>1. IsRunning(req[r]) /\ Handler(r) = "apiKeys.create"
    BY DEF CreateKey, At, IsRunning
  <1>2. req[r].route.guard = "roles"
    BY <1>1, RunningRecord, RoutesAreSound DEF IInv, RouteIsSound, Handler
  <1>3. req[r].org \in Orgs
    BY <1>1, <1>2 DEF IInv, RequestIsInOrder, PathIsComplete
  <1>4. [org |-> req[r].org, revoked |-> FALSE] \in ApiKey
    BY <1>3 DEF ApiKey
  <1>5. key[k] = None /\ key' = [key EXCEPT ![k] = [org |-> req[r].org, revoked |-> FALSE]]
    BY DEF CreateKey
  <1>6. key' \in [Keys -> ApiKey \cup {None}]
    BY <1>4, <1>5 DEF IInv, TypeOK
  <1>7. \A l \in Keys : key[l] # None => key'[l] = key[l]
    BY <1>5 DEF IInv, TypeOK
  <1> QED BY <1>6, <1>7 DEF KeysStay, KeyStays

LEMMA RevokedKey ==
  ASSUME IInv, NEW r \in Requests, RevokeKey(r)
  PROVE  /\ key' \in [Keys -> ApiKey \cup {None}]
         /\ KeysStay
         /\ req[r].target \in Keys /\ key[req[r].target] # None
         /\ key[req[r].target].org = req[r].org
         /\ \A l \in Keys : key'[l] # key[l] => l = req[r].target
  <1>1. IsRunning(req[r]) /\ req[r].pc = "revoke"
    BY DEF RevokeKey, At, IsRunning
  <1>2. /\ req[r].route.handler = "apiKeys.revoke" /\ PathIsComplete(req[r])
        /\ key[req[r].target] # None /\ key[req[r].target].org = req[r].org
    BY <1>1 DEF IInv, RequestIsInOrder
  <1> DEFINE k == req[r].target
             v == [key[k] EXCEPT !.revoked = TRUE]
  <1>3. k \in Keys /\ key[k] \in ApiKey
    BY <1>2 DEF PathIsComplete, IInv, TypeOK
  <1>4. v \in ApiKey /\ v.org = key[k].org /\ (key[k].revoked => v = key[k])
    BY <1>3 DEF ApiKey
  <1>5. key' = [key EXCEPT ![k] = v]
    BY DEF RevokeKey
  <1> HIDE DEF v
  <1>6. key' \in [Keys -> ApiKey \cup {None}]
    BY <1>3, <1>4, <1>5 DEF IInv, TypeOK
  <1>7. key'[k] = v /\ \A l \in Keys : l # k => key'[l] = key[l]
    BY <1>3, <1>5 DEF IInv, TypeOK
  <1>8. v # None
    BY <1>4, NoneAssumption
  <1>9. KeysStay
    BY <1>4, <1>7, <1>8 DEF KeysStay, KeyStays
  <1> QED BY <1>2, <1>3, <1>6, <1>7, <1>9

-----------------------------------------------------------------------------
(* Steps of one request *)

\* Requests that do not move keep their order, their entitlement and their answers.
LEMMA OthersStay ==
  ASSUME IInv, Noticed, KeysStay, NEW p \in Requests, req'[p] = req[p]
  PROVE  RequestIsInOrder(p)' /\ AnswerTellsWhatHappened(p)'
  <1>1. IsRunning(req[p]) => (entitled[p] => entitled'[p])
    BY DEF Noticed
  <1>2. AnswerTellsWhatHappened(p)'
    BY DEF IInv, AnswerTellsWhatHappened, At, Handler, Told, ErrorTypeForStatus, Succeeded, Silent
  <1>3. RequestIsInOrder(p)'
    <2> SUFFICES ASSUME IsRunning(req[p])
                 PROVE  RequestIsInOrder(p)'
      BY DEF RequestIsInOrder, IsRunning
    <2>1. RequestIsInOrder(p)
      BY DEF IInv
    <2>2. req[p].pc = "touch" => req[p].apiKey \in Keys /\ key'[req[p].apiKey] # None
      BY <2>1 DEF RequestIsInOrder, KeysStay, KeyStays
    <2>3. req[p].pc = "revoke" =>
            key'[req[p].target] # None /\ key'[req[p].target].org = req[p].org
      BY <2>1 DEF RequestIsInOrder, PathIsComplete, KeysStay, KeyStays
    <2> QED BY <1>1, <2>1, <2>2, <2>3
         DEF RequestIsInOrder, PathIsComplete, IsRunning, Admitted
  <1> QED BY <1>2, <1>3

\* A step of one request preserves the invariant if it leaves that request in order.
LEMMA OneRequestMoves ==
  ASSUME IInv, Noticed, KeysStay, NEW r \in Requests, NEW q, Goto(r, q),
         q \in Running \cup Answered \cup {Idle},
         key' \in [Keys -> ApiKey \cup {None}], role' = role,
         RequestIsInOrder(r)', AnswerTellsWhatHappened(r)'
  PROVE  IInv'
  <1>1. /\ req' \in [Requests -> Running \cup Answered \cup {Idle}]
        /\ \A p \in Requests : p # r => req'[p] = req[p]
    BY DEF Goto, IInv, TypeOK
  <1>2. entitled' \in [Requests -> BOOLEAN]
    BY DEF Noticed
  <1>3. TypeOK'
    BY <1>1, <1>2 DEF IInv, TypeOK
  <1>4. \A p \in Requests : RequestIsInOrder(p)' /\ AnswerTellsWhatHappened(p)'
    BY <1>1, OthersStay
  <1> QED BY <1>3, <1>4 DEF IInv

LEMMA UnchangedKeysStay ==
  ASSUME IInv, UNCHANGED key
  PROVE  KeysStay /\ key' \in [Keys -> ApiKey \cup {None}]
  BY DEF IInv, TypeOK, KeysStay, KeyStays

\* A request that is answered.
LEMMA Replying ==
  ASSUME IInv, Noticed, UNCHANGED <<key, role>>, NEW r \in Requests,
         NEW a \in Answered, Goto(r, a),
         ~a.wrote \/ a.status \in {0, 200, 302, 500, 502},
         a.status \in {200, 302} =>
           ~a.route.writes \/ a.wrote \/ a.route.handler \in MayDoNothing
  PROVE  IInv'
  <1>1. req'[r] = a
    BY DEF Goto, IInv, TypeOK
  <1>2. AnswerTellsWhatHappened(r)'
    BY <1>1, AnswerIsTrue
  <1>3. RequestIsInOrder(r)'
    BY <1>1 DEF Answered, RequestIsInOrder, IsRunning
  <1> QED BY <1>2, <1>3, OneRequestMoves, UnchangedKeysStay

\* An answer of the API, which is no success and comes before anything is written or is
\* api_error.
LEMMA Refusing ==
  ASSUME IInv, Noticed, UNCHANGED <<key, role>>, NEW r \in Requests,
         NEW q, q.route \in Routes, q.wrote \in BOOLEAN,
         NEW status \in {400, 401, 403, 404, 409, 429, 500, 503},
         ~q.wrote \/ status = 500,
         Goto(r, Answer(q, status))
  PROVE  IInv'
  <1> DEFINE a == Reply(q, status, TRUE)
  <1>1. status \in Statuses \cup {0} /\ status \notin {200, 302}
    BY DEF Statuses
  <1>2. a \in Answered
    BY <1>1 DEF Reply, Answered
  <1>3. a.status = status /\ a.route = q.route /\ a.wrote = q.wrote
    BY DEF Reply
  <1>4. Goto(r, a)
    BY DEF Answer
  <1> HIDE DEF a
  <1> QED BY <1>1, <1>2, <1>3, <1>4, Replying

\* A running request that only moves on, past its guards if it was entitled.
LEMMA Advancing ==
  ASSUME IInv, Noticed, UNCHANGED <<key, role>>, NEW r \in Requests, IsRunning(req[r]),
         NEW pc \in {"guard", "touch", "pipe", "handle", "revoke"},
         NEW caller \in {"none", "user", "apiKey", "profile"},
         ~req[r].wrote,
         Goto(r, [req[r] EXCEPT !.pc = pc, !.caller = caller]),
         caller = "user" => req[r].user # None,
         pc = "guard" => IF req[r].route.public THEN caller = "none" ELSE caller = "user",
         pc = "touch" =>
           req[r].route.guard = "apiKey" /\ req[r].apiKey \in Keys /\ key[req[r].apiKey] # None,
         pc # "guard" => entitled'[r],
         pc \notin {"guard", "touch"} => req[r].route.caller \in {"none", caller},
         pc = "revoke" =>
           /\ req[r].route.handler = "apiKeys.revoke"
           /\ key[req[r].target] # None /\ key[req[r].target].org = req[r].org
  PROVE  IInv'
  <1> DEFINE q == [req[r] EXCEPT !.pc = pc, !.caller = caller]
  <1>1. req[r] \in Running /\ PathIsComplete(req[r])
    BY RunningRecord DEF IInv, RequestIsInOrder
  <1>2. q \in Running
    BY <1>1 DEF Running
  <1>3. /\ q.pc = pc /\ q.caller = caller /\ q.route = req[r].route /\ q.user = req[r].user
        /\ q.apiKey = req[r].apiKey /\ q.org = req[r].org /\ q.target = req[r].target
        /\ q.wrote = req[r].wrote
    BY <1>1 DEF Running
  <1>4. Goto(r, q)
    OBVIOUS
  <1>5. req'[r] = q
    BY <1>4 DEF Goto, IInv, TypeOK
  <1> HIDE DEF q
  <1>6. AnswerTellsWhatHappened(r)'
    BY <1>3, <1>5 DEF AnswerTellsWhatHappened, At
  <1>7. q.wrote = FALSE
    BY <1>1, <1>3 DEF Running
  <1>8. RequestIsInOrder(r)'
    BY <1>1, <1>3, <1>5, <1>7 DEF RequestIsInOrder, PathIsComplete, IsRunning, Admitted
  <1> QED BY <1>2, <1>4, <1>6, <1>8, OneRequestMoves, UnchangedKeysStay

\* What an entitled request looks like to the guards.
LEMMA NoticedEntitled ==
  ASSUME IInv, Noticed, NEW r \in Requests, IsRunning(req'[r]),
         Entitled(req'[r], key', role') \/ entitled[r]
  PROVE  entitled'[r]
  BY DEF Noticed

LEMMA SendStep ==
  ASSUME IInv, Noticed, NEW r \in Requests, Send(r)
  PROVE  IInv'
  <1>1. PICK t \in Routes, u \in Users \cup {None}, k \in Keys \cup {None},
             o \in Orgs \cup {None}, x \in Keys \cup {None} :
          /\ t.handler \in Offered[r]
          /\ t.public => u = None
          /\ t.handler \notin SdkCalls => k = None
          /\ (o # None) = (t.guard = "roles")
          /\ (x # None) = (t.handler = "apiKeys.revoke")
          /\ LET q == [pc |-> "jwt", route |-> t, user |-> u, apiKey |-> k, org |-> o,
                       target |-> x, caller |-> "none", wrote |-> FALSE]
             IN Goto(r, q) \/ Goto(r, Answer(q, 429))
    BY Zenon DEF Send
  <1> DEFINE q == [pc |-> "jwt", route |-> t, user |-> u, apiKey |-> k, org |-> o,
                   target |-> x, caller |-> "none", wrote |-> FALSE]
  <1>2. q \in Running
    BY DEF Running
  <1>3. /\ q.pc = "jwt" /\ q.route = t /\ q.org = o /\ q.target = x /\ q.caller = "none"
        /\ q.wrote = FALSE
    OBVIOUS
  <1>4. Goto(r, q) \/ Goto(r, Answer(q, 429))
    BY <1>1
  <1> HIDE DEF q
  <1>5. /\ UNCHANGED <<key, role>>
        /\ t.guard = "roles" => o \in Orgs
        /\ t.handler = "apiKeys.revoke" => x \in Keys
    BY <1>1 DEF Send
  <1>6. CASE Goto(r, q)
    <2>1. req'[r] = q
      BY <1>6 DEF Goto, IInv, TypeOK
    <2>2. RequestIsInOrder(r)'
      BY <1>3, <1>5, <2>1 DEF RequestIsInOrder, PathIsComplete, IsRunning, Admitted
    <2>3. AnswerTellsWhatHappened(r)'
      BY <1>3, <2>1 DEF AnswerTellsWhatHappened, At
    <2> QED BY <1>2, <1>5, <1>6, <2>2, <2>3, OneRequestMoves, UnchangedKeysStay
  <1>7. CASE Goto(r, Answer(q, 429))
    <2>1. q.route \in Routes /\ q.wrote \in BOOLEAN /\ ~q.wrote
      BY <1>3
    <2> QED BY <1>5, <1>7, <2>1, Refusing
  <1> QED BY <1>4, <1>6, <1>7

LEMMA LossStep ==
  ASSUME IInv, Noticed, NEW r \in Requests, Hang(r) \/ Die(r) \/ Forget(r) \/ Fail(r)
  PROVE  IInv'
  <1>1. UNCHANGED <<key, role>>
    BY DEF Hang, Die, Forget, Fail
  <1>2. IsRunning(req[r]) \/ At(r, "answered")
          => req[r].route \in Routes /\ req[r].wrote \in BOOLEAN
    BY DEF IInv, TypeOK, IsRunning, At, Running, Answered, Idle
  <1>3. CASE Hang(r) \/ Die(r)
    <2>1. PICK status \in {0, 502} : Goto(r, Reply(req[r], status, FALSE))
      BY <1>3 DEF Hang, Die
    <2> DEFINE a == Reply(req[r], status, FALSE)
    <2>2. a \in Answered
      <3>1. IsRunning(req[r]) \/ At(r, "answered")
        BY <1>3 DEF Hang, Die
      <3>2. status \in Statuses \cup {0}
        BY DEF Statuses
      <3> QED BY <1>2, <3>1, <3>2 DEF Reply, Answered
    <2>3. a.status = status
      BY DEF Reply
    <2>4. Goto(r, a)
      BY <2>1
    <2> HIDE DEF a
    <2> QED BY <1>1, <2>2, <2>3, <2>4, Replying
  <1>4. CASE Fail(r)
    BY <1>1, <1>2, <1>4, Refusing DEF Fail
  <1>5. CASE Forget(r)
    <2>1. req'[r] = Idle
      BY <1>5 DEF Forget, Goto, IInv, TypeOK
    <2>2. RequestIsInOrder(r)' /\ AnswerTellsWhatHappened(r)'
      BY <2>1 DEF RequestIsInOrder, AnswerTellsWhatHappened, IsRunning, At, Idle
    <2> QED BY <1>1, <1>5, <2>2, OneRequestMoves, UnchangedKeysStay DEF Forget
  <1> QED BY <1>3, <1>4, <1>5

-----------------------------------------------------------------------------
(* Guards *)

\* Moving on without a word about the caller keeps the caller.
LEMMA SameCaller ==
  ASSUME NEW q \in Running, NEW pc
  PROVE  [q EXCEPT !.pc = pc] = [q EXCEPT !.pc = pc, !.caller = q.caller]
  BY DEF Running

LEMMA GuardStep ==
  ASSUME IInv, Noticed, NEW r \in Requests, Guards(r)
  PROVE  IInv'
  <1> DEFINE q == req[r]
  <1>1. UNCHANGED <<key, role>> /\ IsRunning(q)
    BY DEF Guards, Authenticate, PassGuard, CheckRole, FindKeyByHash, TouchKey, RunPassport,
           Validate, At, IsRunning
  <1>2. /\ q \in Running /\ q.route \in Routes /\ q.wrote \in BOOLEAN
        /\ RouteIsSound(q.route) /\ RequestIsInOrder(r)
    BY <1>1, RunningRecord, RoutesAreSound DEF IInv, Running
  <1>3. q.pc # "finish" /\ ~q.wrote
    BY <1>1, <1>2 DEF Guards, Authenticate, PassGuard, CheckRole, FindKeyByHash, TouchKey,
           RunPassport, Validate, At, RequestIsInOrder
  <1>5. CASE Authenticate(r)
    <2>1. q.pc = "jwt" /\ q.caller = "none"
      BY <1>1, <1>2, <1>5 DEF Authenticate, At, RequestIsInOrder
    <2>2. CASE q.route.public
      <3>1. Goto(r, [q EXCEPT !.pc = "guard", !.caller = "none"])
        <4>1. Goto(r, [q EXCEPT !.pc = "guard"])
          BY <1>5, <2>2 DEF Authenticate
        <4> QED BY <1>2, <2>1, <4>1, SameCaller
      <3> QED BY <1>1, <1>3, <2>2, <3>1, Advancing
    <2>3. CASE ~q.route.public /\ q.user # None
      <3>1. Goto(r, [q EXCEPT !.pc = "guard", !.caller = "user"])
        BY <1>5, <2>3 DEF Authenticate, TokenHolds
      <3> QED BY <1>1, <1>3, <2>3, <3>1, Advancing
    <2>4. CASE ~q.route.public /\ q.user = None
      <3>1. Goto(r, Answer(q, 401))
        BY <1>5, <2>4 DEF Authenticate, TokenHolds
      <3> QED BY <1>1, <1>2, <1>3, <3>1, Refusing
    <2> QED BY <2>2, <2>3, <2>4
  <1>6. CASE PassGuard(r)
    <2>1. /\ q.pc = "guard" /\ q.route.guard = "none"
          /\ Goto(r, [q EXCEPT !.pc = "pipe"])
      BY <1>6 DEF PassGuard, At
    <2>2. /\ q.caller \in {"none", "user"} /\ (q.caller = "user" => q.user # None)
          /\ q.route.caller \in {"none", q.caller}
          /\ q.route.public \/ q.user # None
      BY <1>1, <1>2, <2>1 DEF RequestIsInOrder, PathIsComplete, RouteIsSound
    <2>3. Goto(r, [q EXCEPT !.pc = "pipe", !.caller = q.caller])
      BY <1>2, <2>1, SameCaller
    <2>4. entitled'[r]
      <3>1. req'[r] = [q EXCEPT !.pc = "pipe"]
        BY <2>1 DEF Goto, IInv, TypeOK
      <3>2. /\ IsRunning(req'[r]) /\ req'[r].route = q.route /\ req'[r].user = q.user
        BY <1>2, <3>1 DEF IsRunning, Running
      <3>3. Entitled(req'[r], key', role')
        BY <2>1, <2>2, <3>2 DEF Entitled
      <3> QED BY <3>2, <3>3, NoticedEntitled
    <2> QED BY <1>1, <1>3, <2>2, <2>3, <2>4, Advancing
  <1>7. CASE CheckRole(r)
    <2>1. q.pc = "guard" /\ q.route.guard = "roles"
      BY <1>7 DEF CheckRole, At
    <2>2. /\ q.caller = "user" /\ q.user # None /\ ~q.route.public
          /\ q.route.caller \in {"none", "user"}
      BY <1>1, <1>2, <2>1 DEF RequestIsInOrder, PathIsComplete, RouteIsSound
    <2>3. CASE role[q.org][q.user] \in q.route.roles
      <3>1. Goto(r, [q EXCEPT !.pc = "pipe"])
        BY <1>7, <2>2, <2>3 DEF CheckRole
      <3>2. Goto(r, [q EXCEPT !.pc = "pipe", !.caller = "user"])
        BY <1>2, <2>2, <3>1, SameCaller
      <3>3. req'[r] = [q EXCEPT !.pc = "pipe"]
        BY <3>1 DEF Goto, IInv, TypeOK
      <3>4. /\ IsRunning(req'[r]) /\ req'[r].route = q.route /\ req'[r].user = q.user
            /\ req'[r].org = q.org
        BY <1>2, <3>3 DEF IsRunning, Running
      <3>5. Entitled(req'[r], key', role')
        BY <1>1, <2>1, <2>2, <2>3, <3>4 DEF Entitled
      <3>6. entitled'[r]
        BY <3>4, <3>5, NoticedEntitled
      <3> QED BY <1>1, <1>3, <2>2, <3>2, <3>6, Advancing
    <2>4. CASE role[q.org][q.user] \notin q.route.roles
      <3>1. Goto(r, Answer(q, 403))
        BY <1>7, <2>4 DEF CheckRole
      <3> QED BY <1>1, <1>2, <1>3, <3>1, Refusing
    <2> QED BY <2>3, <2>4
  <1>8. CASE FindKeyByHash(r)
    <2>1. q.pc = "guard" /\ q.route.guard = "apiKey"
      BY <1>8 DEF FindKeyByHash, At
    <2>2. q.route.public /\ q.caller = "none"
      BY <1>1, <1>2, <2>1 DEF RequestIsInOrder, RouteIsSound
    <2>3. CASE KeyIsLive(q.apiKey)
      <3>1. q.apiKey \in Keys /\ key[q.apiKey] # None /\ ~key[q.apiKey].revoked
        BY <1>2, <2>3 DEF KeyIsLive, Running
      <3>2. Goto(r, [q EXCEPT !.pc = "touch"])
        BY <1>8, <2>3 DEF FindKeyByHash
      <3>3. Goto(r, [q EXCEPT !.pc = "touch", !.caller = "none"])
        BY <1>2, <2>2, <3>2, SameCaller
      <3>4. req'[r] = [q EXCEPT !.pc = "touch"]
        BY <3>2 DEF Goto, IInv, TypeOK
      <3>5. /\ IsRunning(req'[r]) /\ req'[r].route = q.route /\ req'[r].apiKey = q.apiKey
        BY <1>2, <3>4 DEF IsRunning, Running
      <3>6. Entitled(req'[r], key', role')
        BY <1>1, <2>1, <2>2, <2>3, <3>1, <3>5 DEF Entitled, KeyIsLive
      <3>7. entitled'[r]
        BY <3>5, <3>6, NoticedEntitled
      <3> QED BY <1>1, <1>3, <2>1, <2>2, <3>1, <3>3, <3>7, Advancing
    <2>4. CASE ~KeyIsLive(q.apiKey)
      <3>1. Goto(r, Answer(q, 401))
        BY <1>8, <2>4 DEF FindKeyByHash
      <3> QED BY <1>1, <1>2, <1>3, <3>1, Refusing
    <2> QED BY <2>3, <2>4
  <1>9. CASE TouchKey(r)
    <2>1. q.pc = "touch" /\ Goto(r, [q EXCEPT !.pc = "pipe", !.caller = "apiKey"])
      BY <1>9 DEF TouchKey, At
    <2>2. entitled[r] /\ q.route.caller = "apiKey"
      BY <1>1, <1>2, <2>1 DEF RequestIsInOrder, RouteIsSound
    <2>3. req'[r] = [q EXCEPT !.pc = "pipe", !.caller = "apiKey"]
      BY <2>1 DEF Goto, IInv, TypeOK
    <2>4. IsRunning(req'[r])
      BY <1>2, <2>3 DEF IsRunning, Running
    <2>5. entitled'[r]
      BY <2>2, <2>4, NoticedEntitled
    <2> QED BY <1>1, <1>3, <2>1, <2>2, <2>5, Advancing
  <1>10. CASE RunPassport(r)
    <2>1. q.pc = "guard" /\ q.route.guard = "oauth"
      BY <1>10 DEF RunPassport, At
    <2>2. q.route.public /\ q.route.caller \in {"none", "profile"}
      BY <1>2, <2>1 DEF RouteIsSound
    <2>3. CASE q.route.caller = "none" /\ Goto(r, Answer(q, 302))
      <3> DEFINE a == Reply(q, 302, TRUE)
      <3>1. a \in Answered
        BY <1>2 DEF Reply, Answered, Statuses
      <3>2. a.route = q.route /\ a.wrote = q.wrote
        BY DEF Reply
      <3>3. Goto(r, a)
        BY <2>3 DEF Answer
      <3>4. ~q.route.writes
        BY <1>2, <2>1, <2>3 DEF RouteIsSound
      <3> HIDE DEF a
      <3> QED BY <1>1, <1>3, <3>1, <3>2, <3>3, <3>4, Replying
    <2>4. CASE q.route.caller = "profile" /\ Goto(r, [q EXCEPT !.pc = "pipe", !.caller = "profile"])
      <3>1. req'[r] = [q EXCEPT !.pc = "pipe", !.caller = "profile"]
        BY <2>4 DEF Goto, IInv, TypeOK
      <3>2. IsRunning(req'[r]) /\ req'[r].route = q.route
        BY <1>2, <3>1 DEF IsRunning, Running
      <3>3. Entitled(req'[r], key', role')
        BY <2>1, <2>2, <3>2 DEF Entitled
      <3>4. entitled'[r]
        BY <3>2, <3>3, NoticedEntitled
      <3> QED BY <1>1, <1>3, <2>4, <3>4, Advancing
    <2>5. CASE \E s \in {401, 500} : Goto(r, Answer(q, s))
      BY <1>1, <1>2, <1>3, <2>5, Refusing
    <2> QED BY <1>10, <2>3, <2>4, <2>5 DEF RunPassport
  <1>11. CASE Validate(r)
    <2>1. q.pc = "pipe"
      BY <1>11 DEF Validate, At
    <2>2. /\ entitled[r] /\ q.route.caller \in {"none", q.caller}
          /\ (q.caller = "user" => q.user # None)
          /\ q.caller \in {"none", "user", "apiKey", "profile"}
      BY <1>1, <1>2, <2>1 DEF RequestIsInOrder, PathIsComplete, Admitted, Running
    <2>3. CASE Goto(r, [q EXCEPT !.pc = "handle"])
      <3>1. req'[r] = [q EXCEPT !.pc = "handle"]
        BY <2>3 DEF Goto, IInv, TypeOK
      <3>2. IsRunning(req'[r])
        BY <1>2, <3>1 DEF IsRunning, Running
      <3>3. entitled'[r]
        BY <2>2, <3>2, NoticedEntitled
      <3>4. Goto(r, [q EXCEPT !.pc = "handle", !.caller = q.caller])
        BY <1>2, <2>3, SameCaller
      <3> QED BY <1>1, <1>3, <2>2, <3>3, <3>4, Advancing
    <2>4. CASE Goto(r, Answer(q, 400))
      BY <1>1, <1>2, <1>3, <2>4, Refusing
    <2> QED BY <1>11, <2>3, <2>4 DEF Validate
  <1> QED BY <1>5, <1>6, <1>7, <1>8, <1>9, <1>10, <1>11 DEF Guards

-----------------------------------------------------------------------------
(* Handlers *)

\* The work of a request is done, by a step that may have changed a key.
LEMMA Written ==
  ASSUME IInv, Noticed, KeysStay, key' \in [Keys -> ApiKey \cup {None}], UNCHANGED role,
         NEW r \in Requests, req[r].pc \in {"handle", "revoke"},
         Goto(r, [req[r] EXCEPT !.pc = "finish", !.wrote = TRUE])
  PROVE  IInv'
  <1> DEFINE q == [req[r] EXCEPT !.pc = "finish", !.wrote = TRUE]
  <1>1. IsRunning(req[r]) /\ Admitted(req[r])
    BY DEF IsRunning, Admitted
  <1>2. req[r] \in Running /\ RequestIsInOrder(r)
    BY <1>1, RunningRecord DEF IInv
  <1>3. /\ PathIsComplete(req[r]) /\ entitled[r]
        /\ req[r].route.caller \in {"none", req[r].caller}
    BY <1>1, <1>2 DEF RequestIsInOrder
  <1>4. q \in Running
    BY <1>2 DEF Running
  <1>5. /\ q.pc = "finish" /\ q.caller = req[r].caller /\ q.route = req[r].route
        /\ q.user = req[r].user /\ q.org = req[r].org /\ q.target = req[r].target
        /\ q.wrote = TRUE
    BY <1>2 DEF Running
  <1>6. req'[r] = q
    BY DEF Goto, IInv, TypeOK
  <1>7. Goto(r, q)
    OBVIOUS
  <1> HIDE DEF q
  <1>8. IsRunning(req'[r])
    BY <1>5, <1>6 DEF IsRunning
  <1>9. entitled'[r]
    BY <1>3, <1>8, NoticedEntitled
  <1>10. PathIsComplete(req'[r])
    BY <1>3, <1>5, <1>6 DEF PathIsComplete
  <1>11. RequestIsInOrder(r)'
    BY <1>3, <1>5, <1>6, <1>9, <1>10 DEF RequestIsInOrder, PathIsComplete, Admitted, IsRunning
  <1>12. AnswerTellsWhatHappened(r)'
    BY <1>5, <1>6 DEF AnswerTellsWhatHappened, At
  <1> QED BY <1>4, <1>7, <1>11, <1>12, OneRequestMoves

LEMMA HandleStep ==
  ASSUME IInv, Noticed, NEW r \in Requests, Handle(r)
  PROVE  IInv' /\ KeysStay
  <1> DEFINE q == req[r]
  <1>1. IsRunning(q)
    BY DEF Handle, Refuse, Write, FindKey, RevokeKey, Finish, Fail, CreateKey, At, IsRunning
  <1>2. /\ q \in Running /\ q.route \in Routes /\ q.wrote \in BOOLEAN
        /\ RouteIsSound(q.route) /\ RequestIsInOrder(r)
    BY <1>1, RunningRecord, RoutesAreSound DEF IInv, Running
  <1>3. CASE Refuse(r)
    <2>1. q.pc = "handle" /\ UNCHANGED <<key, role>>
      BY <1>3 DEF Refuse, At
    <2>2. PICK s \in q.route.refusals : Goto(r, Answer(q, s))
      BY <1>3 DEF Refuse
    <2>3. s \in {400, 401, 403, 404, 409, 429, 500, 503}
      BY <1>2 DEF RouteIsSound
    <2>4. ~q.wrote
      BY <1>1, <1>2, <2>1 DEF RequestIsInOrder
    <2> QED BY <1>2, <2>1, <2>2, <2>3, <2>4, Refusing, UnchangedKeysStay
  <1>4. CASE Write(r)
    BY <1>4, Written, UnchangedKeysStay DEF Write, At
  <1>5. CASE FindKey(r)
    <2>1. /\ q.pc = "handle" /\ q.route.handler = "apiKeys.revoke" /\ UNCHANGED <<key, role>>
      BY <1>5 DEF FindKey, At, Handler
    <2>2. /\ ~q.wrote /\ entitled[r] /\ q.route.caller \in {"none", q.caller}
          /\ (q.caller = "user" => q.user # None)
          /\ q.caller \in {"none", "user", "apiKey", "profile"}
      BY <1>1, <1>2, <2>1 DEF RequestIsInOrder, PathIsComplete, Admitted, Running
    <2>3. CASE key[q.target] # None /\ key[q.target].org = q.org
      <3>1. Goto(r, [q EXCEPT !.pc = "revoke"])
        BY <1>5, <2>3 DEF FindKey
      <3>2. req'[r] = [q EXCEPT !.pc = "revoke"]
        BY <3>1 DEF Goto, IInv, TypeOK
      <3>3. IsRunning(req'[r])
        BY <1>2, <3>2 DEF IsRunning, Running
      <3>4. entitled'[r]
        BY <2>2, <3>3, NoticedEntitled
      <3>5. Goto(r, [q EXCEPT !.pc = "revoke", !.caller = q.caller])
        BY <1>2, <3>1, SameCaller
      <3> QED BY <1>1, <2>1, <2>2, <2>3, <3>4, <3>5, Advancing, UnchangedKeysStay
    <2>4. CASE ~(key[q.target] # None /\ key[q.target].org = q.org)
      <3>1. Goto(r, Answer(q, 404))
        BY <1>5, <2>4 DEF FindKey
      <3> QED BY <1>2, <2>1, <2>2, <3>1, Refusing, UnchangedKeysStay
    <2> QED BY <2>3, <2>4
  <1>6. CASE RevokeKey(r)
    BY <1>6, Written, RevokedKey DEF RevokeKey, At
  <1>7. CASE Finish(r)
    <2> DEFINE a == Reply(q, 200, TRUE)
    <2>1. UNCHANGED <<key, role>> /\ Goto(r, a)
      BY <1>7 DEF Finish, Answer
    <2>2. a \in Answered
      BY <1>2 DEF Reply, Answered, Statuses
    <2>3. a.status = 200 /\ a.route = q.route /\ a.wrote = q.wrote
      BY DEF Reply
    <2>4. ~q.route.writes \/ q.wrote \/ q.route.handler \in MayDoNothing
      BY <1>1, <1>2, <1>7 DEF Finish, At, RequestIsInOrder, Handler
    <2> HIDE DEF a
    <2> QED BY <2>1, <2>2, <2>3, <2>4, Replying, UnchangedKeysStay
  <1>8. CASE Fail(r)
    BY <1>8, LossStep, UnchangedKeysStay DEF Fail
  <1>9. ASSUME NEW k \in Keys, CreateKey(r, k) PROVE IInv' /\ KeysStay
    BY <1>9, Written, CreatedKey DEF CreateKey, At
  <1> QED BY <1>3, <1>4, <1>5, <1>6, <1>7, <1>8, <1>9 DEF Handle

-----------------------------------------------------------------------------
(* The invariant is inductive *)

LEMMA NoChangeStep ==
  ASSUME IInv, UNCHANGED vars
  PROVE  IInv' /\ KeysStay
  <1>1. KeysStay
    BY UnchangedKeysStay DEF vars
  <1>2. TypeOK'
    BY DEF IInv, TypeOK, vars
  <1>3. ASSUME NEW r \in Requests PROVE RequestIsInOrder(r)' /\ AnswerTellsWhatHappened(r)'
    BY DEF IInv, vars, RequestIsInOrder, AnswerTellsWhatHappened, PathIsComplete, IsRunning,
           Admitted, At, Handler, Told, ErrorTypeForStatus, Succeeded, Silent
  <1> QED BY <1>1, <1>2, <1>3 DEF IInv

LEMMA ChangeRoleStep ==
  ASSUME IInv, Noticed, NEW o \in Orgs, NEW u \in Users, ChangeRole(o, u)
  PROVE  IInv' /\ KeysStay
  <1>1. UNCHANGED <<key, req>>
    BY DEF ChangeRole
  <1>2. KeysStay /\ key' \in [Keys -> ApiKey \cup {None}]
    BY <1>1, UnchangedKeysStay
  <1>3. PICK n \in Ranks[o][u] : role' = [role EXCEPT ![o][u] = n]
    BY DEF ChangeRole
  <1>4. n \in Everyone \cup {None}
    <2>1. Ranks[o] \in [Users -> SUBSET (Everyone \cup {None})]
      BY HttpAssumption
    <2>2. Ranks[o][u] \in SUBSET (Everyone \cup {None})
      BY <2>1
    <2> QED BY <1>3, <2>2
  <1>5. role' \in [Orgs -> [Users -> Everyone \cup {None}]]
    BY <1>3, <1>4 DEF IInv, TypeOK
  <1>6. entitled' \in [Requests -> BOOLEAN]
    BY DEF Noticed
  <1>7. TypeOK'
    BY <1>1, <1>2, <1>5, <1>6 DEF IInv, TypeOK
  <1>8. \A p \in Requests : RequestIsInOrder(p)' /\ AnswerTellsWhatHappened(p)'
    BY <1>1, <1>2, OthersStay
  <1> QED BY <1>2, <1>7, <1>8 DEF IInv

LEMMA InitIInv == Init => IInv
  <1> SUFFICES ASSUME Init PROVE IInv
    OBVIOUS
  <1>1. TypeOK
    BY DEF Init, TypeOK
  <1>2. \A r \in Requests : RequestIsInOrder(r) /\ AnswerTellsWhatHappened(r)
    BY DEF Init, Idle, RequestIsInOrder, AnswerTellsWhatHappened, IsRunning, At
  <1> QED BY <1>1, <1>2 DEF IInv

LEMMA StepIInv == IInv /\ [Next]_vars => IInv' /\ KeysStay
  <1> SUFFICES ASSUME IInv, [Next]_vars PROVE IInv' /\ KeysStay
    OBVIOUS
  <1>1. CASE UNCHANGED vars
    BY <1>1, NoChangeStep
  <1>2. CASE Next
    <2>1. Noticed
      BY <1>2 DEF Next
    <2>2. ASSUME NEW r \in Requests, Send(r) PROVE IInv' /\ KeysStay
      <3>1. UNCHANGED key
        BY <2>2 DEF Send
      <3> QED BY <2>1, <2>2, <3>1, SendStep, UnchangedKeysStay
    <2>3. ASSUME NEW r \in Requests, Guards(r) PROVE IInv' /\ KeysStay
      <3>1. UNCHANGED key
        BY <2>3 DEF Guards, Authenticate, PassGuard, CheckRole, FindKeyByHash, TouchKey,
               RunPassport, Validate
      <3> QED BY <2>1, <2>3, <3>1, GuardStep, UnchangedKeysStay
    <2>4. ASSUME NEW r \in Requests, Handle(r) PROVE IInv' /\ KeysStay
      BY <2>1, <2>4, HandleStep
    <2>5. ASSUME NEW r \in Requests, Hang(r) \/ Die(r) \/ Forget(r) PROVE IInv' /\ KeysStay
      <3>1. UNCHANGED key
        BY <2>5 DEF Hang, Die, Forget
      <3> QED BY <2>1, <2>5, <3>1, LossStep, UnchangedKeysStay
    <2>6. ASSUME NEW o \in Orgs, NEW u \in Users, ChangeRole(o, u) PROVE IInv' /\ KeysStay
      BY <2>1, <2>6, ChangeRoleStep
    <2> QED BY <1>2, <2>2, <2>3, <2>4, <2>5, <2>6 DEF Next
  <1> QED BY <1>1, <1>2

LEMMA Invariance == Spec => []IInv
  BY InitIInv, StepIInv, PTL DEF Spec

-----------------------------------------------------------------------------
(* Theorems *)

\* The tables and the requests have their types, whatever is sent and lost.
THEOREM ApiTypeCorrect == Spec => []TypeOK
  <1>1. IInv => TypeOK
    BY DEF IInv
  <1> QED BY <1>1, Invariance, PTL

\* No handler runs for a request that was at no time entitled to it, and every handler
\* finds the caller it reads.
THEOREM HandlersServeTheEntitled == Spec => []HandledRequestsWereEntitled
  <1>1. IInv => HandledRequestsWereEntitled
    <2> SUFFICES ASSUME IInv, NEW r \in Requests, Admitted(req[r])
                 PROVE  entitled[r] /\ req[r].route.caller \in {"none", req[r].caller}
      BY DEF HandledRequestsWereEntitled
    <2>1. IsRunning(req[r]) /\ RequestIsInOrder(r)
      BY DEF Admitted, IsRunning, IInv
    <2> QED BY <2>1 DEF RequestIsInOrder
  <1> QED BY <1>1, Invariance, PTL

\* Errors that blame the request left nothing behind, and success means the work is done.
THEOREM ClientsAreToldTheTruth == Spec => []AnswersTellWhatHappened
  <1>1. IInv => AnswersTellWhatHappened
    BY DEF IInv, AnswerTellsWhatHappened, AnswersTellWhatHappened
  <1> QED BY <1>1, Invariance, PTL

\* A revoked key never works again.
THEOREM RevokedKeysStayRevoked == Spec => RevocationIsFinal
  <1>1. IInv /\ [Next]_vars =>
          [\A k \in Keys : key[k] # None /\ key[k].revoked => key'[k] = key[k]]_key
    BY StepIInv DEF KeysStay, KeyStays
  <1> QED BY <1>1, Invariance, PTL DEF Spec, RevocationIsFinal

\* Only a request of the key's own organization, entitled to manage keys at some time
\* since it was sent, changes a key that exists.
THEOREM KeysChangeFromInside == Spec => KeysAreRevokedFromInside
  <1>1. IInv /\ [Next]_vars =>
          [\A k \in Keys : key[k] # None /\ key'[k] # key[k] =>
             \E r \in Requests :
               /\ At(r, "revoke")
               /\ req[r].target = k /\ req[r].org = key[k].org
               /\ entitled[r]]_key
    <2> SUFFICES ASSUME IInv, [Next]_vars, NEW k \in Keys, key[k] # None, key'[k] # key[k]
                 PROVE  \E r \in Requests :
                          /\ At(r, "revoke")
                          /\ req[r].target = k /\ req[r].org = key[k].org
                          /\ entitled[r]
      OBVIOUS
    <2>1. PICK r \in Requests : RevokeKey(r)
      <3>1. Next
        BY DEF vars
      <3>2. ASSUME NEW r \in Requests, NEW l \in Keys, CreateKey(r, l) PROVE FALSE
        BY <3>2, CreatedKey
      <3> QED BY <3>1, <3>2
           DEF Next, Send, Guards, Authenticate, PassGuard, CheckRole, FindKeyByHash, TouchKey,
               RunPassport, Validate, Handle, Refuse, Write, FindKey, Finish, Fail, Hang, Die,
               Forget, ChangeRole
    <2>2. req[r].target = k /\ req[r].org = key[k].org
      BY <2>1, RevokedKey
    <2>3. req[r].pc = "revoke" /\ IsRunning(req[r]) /\ Admitted(req[r])
      BY <2>1 DEF RevokeKey, At, IsRunning, Admitted
    <2>4. entitled[r]
      BY <2>3 DEF IInv, RequestIsInOrder
    <2> QED BY <2>2, <2>3, <2>4 DEF At
  <1> QED BY <1>1, Invariance, PTL DEF Spec, KeysAreRevokedFromInside
=============================================================================
