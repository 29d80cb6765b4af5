# Stellar Escrow Engine: a TLA+ development

The Stellar Escrow Engine holds a buyer's tokens in a Soroban contract until a seller has
delivered, and keeps beside the contract a backend that merchants talk to: a NestJS service
over PostgreSQL which records escrows, milestones, organizations and sign-ins, and which checks
on the chain what its callers tell it. This directory holds TLA+ models of the parts that carry
protocol state, the TLC configurations that check them on small instances, and proofs, checked
by TLAPS, that the most important properties hold for every value of the constants.

Paths below are relative to the repository root.

## 1. The system

### Components

| Component | State it keeps | Operations | Modelled in |
|---|---|---|---|
| Escrow contract, `Blockchain/contracts/escrow/src/lib.rs` | one persistent entry per escrow id (parties, token, amount, status), each with a time-to-live; a balance in every token contract, shared by all escrows of the token | `create_escrow`, `fund`, `release`, `refund`, `dispute`, `resolve`, `get_escrow` | `EscrowContract` |
| Escrows service, `Backend/src/escrows/escrows.service.ts` | rows of `Escrow` and `Milestone` | create, list, get, getOnChainState, fund, release, releaseMilestone, refund, dispute, resolve | `EscrowsService`, and `create` in detail in `EscrowIntake` |
| Blockchain service, `Backend/src/blockchain/blockchain.service.ts` | its configuration: contract id, issuer, network | asset resolution, amount conversion, chain reads, building `create_escrow` | `EscrowIntake`; its reads are steps of `EscrowsService` |
| Contract client, `Blockchain/sdk/src` | none | builds transactions, decodes values | the builder of `create_escrow` in `EscrowIntake`, its reads in `EscrowsService` |
| Organizations service and roles guard, `Backend/src/organizations`, `Backend/src/auth/guards/roles.guard.ts` | rows of `OrganizationMember` and `OrganizationInvitation` | create, invite, acceptInvitation, updateMemberRole, removeMember | `Organizations` |
| Sessions and sign-in, `Backend/src/auth` | rows of `User`, `Session`, `MagicLinkToken`, `TwoFactorRecoveryCode`, `OAuthAccount` | register, login, refresh, logout, magic links, two-factor set-up, OAuth | `Sessions`, `FirstSignIn` |
| API keys, `Backend/src/api-keys`, `Backend/src/auth/guards/api-key.guard.ts` | rows of `ApiKey` | create, list, revoke, the guard | `HttpApi` |
| HTTP surface, the controllers, guards, pipe and exception filter of `Backend/src` | counters of the throttle, per process | 35 routes; authentication, throttling, validation, error envelope | `HttpApi` |
| API client SDK, `sdks/typescript/src` | none | one request per method; errors from envelopes | `HttpApi` |
| Frontend session and dashboard, `Frontend/src` | session store in localStorage, query cache, forms, the card's revealed key | sign in, sign up, sign out, create and revoke keys | `Dashboard` |
| Static pages, e-mail, infrastructure | none that a protocol depends on | | no (section 9) |

### How they interact

    parties' wallets --sign--> Soroban contract --transfer--> token contracts
          |                          ^
          | "I funded it, tx hash"   | getTransaction, simulated get_escrow
          v                          |
       HTTP guards --> Escrows service --> PostgreSQL
          ^            Organizations, sessions, API keys --^
          |
       SDK (API key), browser tab (access token)

* The backend never signs. `create` stores a row and returns an unsigned `create_escrow`
  transaction; whether it is ever submitted is the depositor's business. Every later handler is
  a *report*: the caller says that something happened on the chain, and for a row that is
  "chain eligible" (contract configured, arbitrator present, asset known) the backend looks it
  up before it writes.
* The chain moves without the backend. Anybody may sign a call for an id the backend has never
  heard of.
* The contract's only environment is the ledger (time-to-live runs down, archived entries can
  be restored by anyone) and the token contracts, whose balance for the contract is one pool.
* Handlers run on one event loop and share nothing but the database. A request can be overtaken
  at every `await`.
* Clients see nothing but answers: the handler's result, an envelope, something the load balancer
  says, or silence. The browser keeps what it was told in a store and a cache that have no owner.

### Behaviours that are hard

* *One pool, many deals.* A status mistake in one deal is paid out of another one's deposit.
* *Check, await, update by id.* Every handler reads a row, checks it, awaits (the RPC, or the
  next query) and then updates `where: { id }` with no condition repeated. The update lands on
  whatever the row has become.
* *Two records of one deal.* The row follows the chain with a delay, and each of its updates was
  verified at some earlier moment, not in the order in which they are written.
* *Failures between updates.* `releaseMilestone` makes three statements without a transaction; a
  process may stop after any of them. So do a session's rotation (revoke, insert, store the hash)
  and a first sign-in with a provider (insert the user, insert the link).
* *Time.* Entries of the contract are archived; transactions are unknown to the RPC before they
  are in a ledger; invitations expire while they are being accepted.
* *Guards.* `RolesGuard` and `ApiKeyGuard` answer for the moment they looked.
* *Retries without a key.* `create` commits before it answers and has nothing to tell a repeated
  request by; what it hands out is a transaction bound to a sequence number and to 30 seconds.
* *Late answers in a browser.* A tab goes on while its requests are away: its user opens another
  page, signs out, and somebody else signs in, and then the answer comes.

`PROJECT.json` lists each of these hazards at the line where it bites, with the properties that
would catch it going wrong.

### What makes each component correct

* Contract: what a token's pool holds is exactly what its open deals need; a deal's money leaves
  once, to the right party, on a signature the deal entitles; its terms never change; a deal does
  not disappear while it is in use.
* Escrows service: what is registered is what was asked for, and an order gets a second deal only
  knowingly; a verified row is never ahead of the chain; a settled deal reaches its row; a settled
  row keeps its outcome; a row is not released over a pending milestone.
* Contract and service together: what a row shows of a funding, an outcome, a dispute or a ruling is
  backed by tokens in custody or by the signature the contract asks for.
* Organizations: nobody is a member without having been offered that role; there is always an
  owner; a valid invitation can be accepted.
* Sessions: a refresh token, a magic link, a recovery code serves once; what began with one sign-in
  is one session at a time, and none after a logout; a first sign-in that failed half-way can be
  completed.
* HTTP surface and API keys: a handler runs only for a caller who was entitled to it; a revoked key
  is revoked for good, and only from inside its organization; what a client is told is what happened.
* Dashboard: a secret, an account, a list of keys are on screen for the user they belong to; a
  session ends when its own user ends it.

## 2. Modules

    EscrowLifecycle   status of a deal           <--- implemented by --- EscrowContract
          ^                                                                  |
          | the chain, as EscrowsService sees it                             |
    EscrowsService                           EscrowVault  <--- implemented --+
          ^                                  money of a deal                 |
          |                                                                  |
          +--- implemented by --- EscrowSystem --- contract and backend -----+
    Organizations     (on its own)
    EscrowIntake      create(), before EscrowsService; the contract as far as it can refuse
    Sessions, FirstSignIn   (FirstSignIn ends where a session of Sessions begins)
    HttpApi           in front of all of them; a service is a handler that refuses, writes, fails
    Dashboard         a client of HttpApi; the backend is what answers

    EscrowContractProofs, EscrowsServiceProofs, EscrowIntakeProofs,
    OrganizationsProofs, SessionsProofs, HttpApiProofs, DashboardProofs  theorems
    FiniteSums        sums over finite sets, for the first and the third of them
    MCEscrowContract, MCEscrowSystem, MCEscrowsService, MCEscrowIntake,
    MCOrganizations, MCSessions, MCHttpApi, MCDashboard                  instances for TLC

### `EscrowLifecycle` (abstract)

The status machine of one deal: Absent, Created, Funded, then Released, Refunded, or Disputed and
one of the two. It says nothing of money, signatures or time. It is what the documentation
promises of the contract *and* the environment that the backend is checked against, so the two
models meet in it: `EscrowContract` implements it (`ImplementsLifecycle`), `EscrowsService`
instantiates it as `Chain`.

### `EscrowVault` (abstract)

Every deal has a vault of its own. Agreeing on terms moves nothing, securing a deal moves its
amount from the buyer's wallet to its vault, settling moves the same amount to the buyer or the
seller. The contract keeps no vaults; `ImplementsVault` says nobody who watches wallets can tell.

### `EscrowContract`

| TLA+ | lib.rs |
|---|---|
| `escrows[id]` | the entry `DataKey::Escrow(id)`, `NoEscrow` when there is none |
| `ttl[id]` | what is left of its time-to-live; 0 means archived |
| `balance[token][address]` | the token contracts |
| `CreateEscrow`, `Fund`, `Release`, `Refund`, `Dispute`, `Resolve`, `GetEscrow` | the function of that name, with `require_escrow`, `write_escrow`, `payout` and the token transfer inlined |
| `Touch`, `Bump` | `extend_ttl(key, THRESHOLD, EXTEND_TO)` |
| `AdvanceLedger`, `RestoreEntry` | the network |
| `idle`, `disputed`, `settledBy` | history: they are read by properties only |

A contract call is a transaction, applied whole or not at all, so a call is one action: each
`return Err(..)`, each `require_auth` and a token transfer that traps is a conjunct of its guard.
`require_escrow` and `write_escrow` bump the same entry twice in one transaction, which is one
bump. An archived entry cannot be loaded, and still counts as existing for `create_escrow`.

The balance is the module's own: tokens that somebody transfers straight to the contract's address,
outside every call, are not modelled. They would only add to the pool, and no deal would miss them;
`PoolCoversEveryDeal` as an equation, and `ImplementsVault`, are about a contract nobody sends gifts to.

Any address may be named as seller or arbiter, the contract's own included (nothing in the code
forbids it); only `Parties` can sign. Tokens paid to the contract itself stay in its pool for good
(`StrandedOf`).

### `EscrowsService`

Each request in flight is a record in `req`: where it is (`pc`), what it was asked, and what it
remembers. A handler is cut at its awaits:

| TLA+ | escrows.service.ts |
|---|---|
| `Create` | `create`: one insert with its milestones. The `chainEscrowId` is a sequence, so row and deal share `id` |
| `Begin` | `get`, `assertStatus`, the milestone check of `release`, the arbitrator check of `dispute`, up to the first await of `verifyOnChain`; a row that is not eligible goes straight to its update |
| `VerifyTx`, `ReadChain` | `verifyTransactionSucceeded`, then `getOnChainEscrow` and the comparison of statuses |
| `Write` | `escrow.update({ where: { id } })` |
| `BeginMilestone`, `ReleaseOne`, `Count`, `Complete` | `releaseMilestone` and its three statements |
| `Abort` | an exception at any await, or the process dying: what was written stays |
| `ChainStep` | a transaction on the chain |

The six verified handlers differ only in the status they check, the chain status they demand and
the status they write; `VerifiedOps` is that table, with `resolve` as two lines of it.

### `EscrowSystem`

The two halves together: `EscrowContract` with all its calls, signatures, balances and archivals, and
the handlers of `EscrowsService`, which read the status of the real contract (`StatusView`) where the
service on its own reads `EscrowLifecycle`. A step is a contract call, a closing ledger, or a step of
the backend; neither side waits for the other, and the only thing they share is that reading. So
everything the wallets do on the contract interleaves with every await of every handler. The
properties of this module say what neither half can say alone: what a row shows, and where the
tokens are and who signed for them. A row and a deal share `id`; that the deal under it has the terms
of the row is the business of `EscrowIntake`, and no property here needs it.

### `EscrowIntake`

`create` and everything it calls, as far as the contract and as often as the client asks.
`EscrowsService` takes a row and its deal for two views of one thing; here that is what has to be
shown. Every order names its own wallets and its own asset. Two orders may share a depositor, whose
account then numbers the transactions of both, or nothing at all, so that a deal with another order's
wallets, token or amount is a state the module could reach.

| TLA+ | code |
|---|---|
| `Receive` | `CreateEscrowDto`, the check of the milestone sum (`SumCloseEnough`), the insert; `Stored` is the rounding of `Decimal(20,7)` |
| `ChainEligible`, `ResolveAssetContract` | `isChainEligible`, the early returns of `buildChainCreateTx`, `resolveAssetContract`: XLM and its alias NATIVE, USDC if `USDC_ASSET_ISSUER` is set (`Usdc` is `None` if it is not), nothing else |
| `FitsTheColumns` | `Decimal(20,7)`: the insert fails for a number it does not hold, since the DTO has no maximum |
| `GetAccount`, `Prepare` | `buildTransaction` of the contract client, cut at its two awaits: the sequence number is read in the first, the simulation in the second refuses an id the contract has |
| `ToContractAmount`, `Blur`, `SumBlur` | `Math.round(amount * 10^7)` and the sum of the milestones in doubles: what binary rounding can tip, either; large amounts blur by whole stroops |
| `CreateEscrowArgs`, `RegisteredTerms` | the argument list on the two sides of the call, in order |
| `BuildFails`, `Respond`, `Lose` | the `catch` of `buildChainCreateTx`, the answer, and no answer |
| `WantsADeal` | the client, who may ask again whenever it does not know its deal to be registered |
| `Expire`, `Submit` | `TX_TIMEOUT_SECONDS`; a signed transaction applied, or refused by its sequence number or by the contract |
| `OtherTransaction`, `StrangerRegisters` | the depositor's wallet used for something else; `create_escrow` called by anybody, under any id |
| `Fund` | `fund`: the row believes the deal under its id |

`deal[id].knew` is history: the ids that had deals when the account was read for the transaction.
Amounts are counted in grains, `Grain` to a stroop, so that fractions of a stroop exist. The
decimal of a request and the product with 10^7 are each rounded to one part in 2^53; `Precision` is 2^51
in the code, which bounds both with the room that whole grains need. It is small in the instance, so
that blurred amounts have few digits.

### `HttpApi`

A request from `Send` to what its client makes of the answer (`Told`). The five sets of routes are
tables: one line per handler with its decorators (`@Public`, `@UseGuards`, `@Roles`), the parameter
it takes its caller from, how its body is validated, whether it writes, and the statuses it refuses
with. The rest is the pipeline.

| TLA+ | code |
|---|---|
| `Authenticate` | the global `JwtAuthGuard` and `JwtStrategy` |
| `PassGuard`, `CheckRole`, `FindKeyByHash`, `TouchKey`, `RunPassport` | the guard of the route: none, `RolesGuard`, `ApiKeyGuard` (its lookup and its update of `lastUsedAt` are separate awaits), passport for OAuth |
| `Validate` | `ValidationPipe`; a body with an inline type passes unchecked |
| `CreateKey`, `FindKey`, `RevokeKey` | `ApiKeysService`, cut at its awaits |
| `Refuse`, `Write`, `Finish`, `Fail` | any other handler: an exception of its own, a first write, its result, anything thrown that is no `HttpException` (possibly after the write) |
| `Answer`, `ErrorTypeForStatus` | `GlobalExceptionFilter` |
| `Hang`, `Die` | a broken connection, before or after the work; the load balancer's own 502 |
| `Told` | `StellarEscrow.request` and `apiFetch` |
| `ChangeRole` | `Organizations`, seen from outside |

`entitled` is history: at some moment since the request was sent, the tables entitled its caller to
its route (`Entitled` is the guards' rule evaluated on the tables, not on what the guard read).

### `Dashboard`

One tab, its page loads included. `me` and `list[o]` are entries of the query cache: the data,
whether it counts as fresh, whose token a fetch under way carries and what the server has read for
it. The answers of sign-ins, sign-ups, sign-outs, creations and revocations come in any order.

`HomeOf[u]` is the first organization of a user's account, which every registration creates
(`auth.service.ts:54-64`), and the one the card is about. The card has no React key
(`dashboard/page.tsx:132`), so when the account on screen changes under an open dashboard the card of
one organization becomes the card of another: it keeps the secret it shows and the creation it waits
for, and a revocation it asked for will refresh the list of the organization it shows by then
(`Followed`). It ends where no account with an organization is on screen.

| TLA+ | Frontend/src |
|---|---|
| `signedIn`, `SetSession`, `ClearSession`, `Reload` | `store/auth-store.ts`, kept in localStorage. The first render of a reload is the server's and has no store, so the dashboard's redirect may go to `/login` although the session is kept |
| `SubmitLogin`, `LoginSucceeds`, `CodeAsked`, `SignInFails` | `login-form.tsx` |
| `SubmitSignup`, `SignupSucceeds` | `signup-form.tsx` |
| `NavbarLinks`, `CallToActionLinks`, `AuthShellLinks`, `OtherForm`, `FollowLink`, `GoBack` | the links on the landing page and around the forms, the browser's back button |
| `Render` | what React does after every change: the redirect effect of `dashboard/page.tsx`, mounting and unmounting of what the page shows, and the queries this starts |
| `SignOut`, `ClearSession` | `handleSignOut` before and after its await; its button stays enabled, so `leaving` counts |
| `AnswerMe`, `FailMe` | the query `['auth', 'me']` |
| `Mounted`, `Reconnect` | a query is fetched when what shows it mounts, or the network is back, if it is missing, invalidated or older than `staleTime`; its age is a choice, and growing old on the page fetches nothing |
| `ReadList`, `AnswerList`, `FailList`, `InvalidateList` | the query `['api-keys', id]` and `invalidateQueries` |
| `SubmitKey`, `ServerCreates`, `KeyCreated`, `CreateFails` and the same for revoking | the form and the buttons of `api-keys-card.tsx`; `creating.here` says that the card that asked is still mounted, `creating.org` which organization it asked for |

### `Organizations`

One organization. Membership rows and invitation rows are identified by their ids, because the
handlers update by id; a deleted membership is never reused. `BeginInvite`/`CheckInvitee`/`Upsert`
are `invite`, `BeginAccept`/`Enlist` are `acceptInvitation` (its transaction is one step, and both
unique constraints of the schema are conjuncts of its guard), `BeginChange`/`FindMember`/
`CountOwners`/`WriteRole`/`DeleteMember` are `updateMemberRole` and `removeMember`, which share
their shape. `GuardAdmits` is `RolesGuard`: the request may start while some owner or admin
exists. `offered` and `raced` are history. `create` is the initial state.

### `Sessions`

One user with a password. Session rows, magic-link rows and recovery-code rows are `Credentials`,
because the code spends all three in the same way; `cred[k]` is what the row's columns amount to:

| `cred[k]` | session | magic link | recovery code |
|---|---|---|---|
| `none` | no such row yet | no such row yet | no such row yet |
| `placeholder` | inserted with a random hash, token not signed yet | | |
| `fresh` | `revokedAt` null, `expiresAt` ahead | `usedAt` null, `expiresAt` ahead | `usedAt` null |
| `expired` | `revokedAt` null, `expiresAt` past | the same | |
| `spent` | `revokedAt` set | `usedAt` set | `usedAt` set |
| `deleted` | | | deleted by `enable` or `disable` |

| TLA+ | `Backend/src/auth` |
|---|---|
| `BeginSpend` | `rotateSession` or `verifyMagicLink` up to its update: the row found, unspent and in time |
| `BeginLoginWithCode`, `FindCode` | `login` up to the lookup in `consumeRecoveryCode`. Between the user's row and that lookup it only verifies the password, which reads nothing |
| `Spend` | the update by id that sets `revokedAt` or `usedAt` |
| `OpenSession`, `StoreHash` | the two statements of `createSession` |
| `BeginSignIn` | `register`, `loginWithOAuth` or `login` (password, authenticator) arriving at `createSession` |
| `Logout` | `revokeByRefreshToken`: one conditional `updateMany` |
| `RequestLink`, `EnableTwoFactor`, `DisableTwoFactor` | `requestMagicLink`, and the transactions of `enable` and `disable` |
| `Expire` | the clock passing `expiresAt` |
| `Abort` | an exception at any await, or the process dying |

`origin`, `line`, `raced` and `loggedOut` are history. A session is `raced` when the request that
opened it checked its credential, was overtaken by another update of that row, and wrote all the
same.

### `FirstSignIn`

One e-mail address and one account of a provider. `register` is two statements (look up, create),
`loginWithOAuth` up to four (look up the account, look up the user, create the user, create the
link); the unique columns of the schema are guards of the two inserts.

## 3. Runs

| Run | Instance | States | What it shows |
|---|---|---|---|
| `contract_custody` | two deals, two wallets, one token, amounts 0 to 2, each wallet holding 2 | 217,829 | `PoolCoversEveryDeal`, `TermsNeverChange`, and that the contract implements `EscrowLifecycle` and `EscrowVault` |
| `escrow_system` | one deal, three wallets, time-to-live up to 4, its row with or without a milestone, two requests, failures | 419,440 | `SettledByTheRightSignature`, `TouchedIsReachable`, `RowsTellWhereTheMoneyIs`, `ShownDisputeIsFrozen`, `RulingsAreTheArbiters` |
| `service_safety` | one row, two milestones, three requests, every kind of row, failures | 84,278 | `NeverAheadOfChain`, `ReleaseWaitsForMilestones`, `SettledDealHasAReport`, `VerifiedOutcomeIsFinal` |
| `service_catch_up` | one eligible row without milestones, two requests, fairness | 2,636 | `FundedRowCatchesUp` |
| `service_drift` | one row, two milestones | violation | section 6 |
| `escrow_intake` | two orders with wallets of their own (one of ten shapes, the other of two) in XLM, NATIVE, USDC and an unknown asset, two rows, three transactions of each account | 2,876,958 | `DealMatchesItsRow`, `MilestonesCoverAmount`, `DuplicatesAreBuiltKnowingly` |
| `org_members` | two users, three membership rows, two invitations, two requests | 658,610 | `LastOwnerLeavesOnlyInARace`, `MembersWereInvited` |
| `org_reinvite` | as above, smaller | violation | section 6 |
| `sessions` | three session rows, a link, a code, two requests, failures | 832,451 | `CredentialsServeOnce`, `OneLiveSessionPerSignIn` |
| `first_sign_in` | three requests, failures, fairness | 420 | `FirstOAuthSignInCompletes` |
| `http_api` | two requests (one for any route), two users, two organizations, one key | 398,998 | `HandledRequestsWereEntitled`, `AnswersTellWhatHappened`, `RevocationIsFinal`, `KeysAreRevokedFromInside` |
| `dashboard` | two users with an organization each, one a member of both, one key, two requests away at a time | 1,844,405 | `SecretShownToItsMaker`, `ForeignAccountHasAnExcuse`, `ListShowsOwnChanges`, `SessionOutlivesOtherSignOuts` |

Four more configurations are kept for what they show and are not part of the runs:
`MCContractTtl.cfg` (`MCEscrowContract.tla`),
`MCServiceLateReport.cfg`, `MCServiceSettleRace.cfg` (`MCEscrowsService.tla`) and
`MCOrgLastOwner.cfg` (`MCOrganizations.tla`) each end in a counterexample (section 6).

One passing run of each module checks its type invariant too, and each property is known to be
able to fail: `PROJECT.json` names, for every property, a plausible bug (a dropped guard, a swapped
comparison, a count that is off by one) written beside the definition as a *variant*, under which
TLC finds it violated.

### The properties in words

* `PoolCoversEveryDeal`: the pool of a token equals the sum of the amounts of its deals in custody
  plus what was released to the contract itself. It ties the status of every deal to one shared
  number, so a double payout, a double deposit or a lost refund in any interleaving breaks it.
* `SettledByTheRightSignature`: undisputed, a release was signed by the buyer or the arbiter and a
  refund by the seller or the arbiter; once disputed, only the arbiter's `resolve` pays.
* `TouchedIsReachable`: an entry touched within the threshold (15 days) is not archived, however
  old it was when it was touched. The boundary at the threshold itself is what could be wrong. It is
  half of what the comment in `lib.rs:8-11` promises: `TouchedHasFullLife` states all of it, and the
  code does not keep that (section 6).
* `TermsNeverChange`: no call replaces the terms behind an id, not even `create_escrow` on an
  archived entry.
* `RowsTellWhereTheMoneyIs`: an eligible row of a deal without milestones shows FUNDED only if the
  deal's amount is in the pool or has been settled since, and an outcome only if the contract has
  that outcome on the signature it asks for. The backend never checks a signature or a balance; it
  compares one status, at an earlier moment.
* `ShownDisputeIsFrozen`: while an eligible row shows a dispute, the deal was disputed on the contract
  and its money is still there, or has gone as the arbiter signed. It holds for rows with milestones
  too, and needs both halves: the row's word from `verifyOnChain`, the freeze from the contract.
* `RulingsAreTheArbiters`: any API key of the organization may call `resolve`, with any successful
  hash, and what it records of an eligible row is still a ruling the deal's arbiter signed. The
  chain status it checks (Released or Refunded) is also what `release` and `refund` leave, so this
  rests on where the row's DISPUTED came from, several requests earlier.
* `NeverAheadOfChain`: an eligible row without milestones may lag behind the chain and never leads
  it. This is *not* what each handler's check says: the check was made earlier, other requests have
  written since, and the write is unconditional. It holds because a chain status, once seen, only
  moves onward. Rows with milestones are excluded because `releaseMilestone` does not look at the
  chain (that is `service_drift`).
* `ReleaseWaitsForMilestones`: whatever overlaps, a row shows RELEASED with a milestone pending only
  after an arbitrator's `resolve`.
* `SettledDealHasAReport`: no late write leaves an eligible row that has been seen funded in a dead
  end; once the chain has settled the deal, some report passes all checks, or none is needed.
* `VerifiedOutcomeIsFinal`: `assertStatus` refuses a settled row, but the update does not repeat the
  question, so of two settlements under way both are written. For an eligible row without
  milestones it does no harm: the contract has confirmed only one of the outcomes. (For the other
  rows it does: `MCServiceSettleRace.cfg`.)
* `FundedRowCatchesUp`: once an eligible row has been seen funded, a settlement on the chain
  reaches it and stays there, although stale writes can set the row back several times.
* `LastOwnerLeavesOnlyInARace`: the organization loses its last owner only through a change that
  another change overlapped between lookup and write.
* `MembersWereInvited`: whoever joins does so in a role some manager offered to that address, even
  if the invitation was replaced, expired or was accepted by another request meanwhile.

* `CredentialsServeOnce`: two sessions have been opened with one refresh token, link or code only if
  one of the two requests was overtaken between its check and its update. The check and the update
  are separate statements for all three, so more than that the code does not give; what the property
  adds is that nothing else (a failure after the update, an expiry in between, codes replaced in
  between, a logout) opens a second way.
* `OneLiveSessionPerSignIn`: the sessions that rotation derives from one sign-in form a line with at
  most one unrevoked row, also between the statements of a rotation and after failed ones; and once
  somebody has logged out, none. Both end where a rotation overlaps another one or the logout: a
  rotation that had checked the row goes on after the logout and opens a session.
* `FirstOAuthSignInCompletes`: wherever a first sign-in with a provider stops, and whoever registers
  the address meanwhile, a later one finds what is there and links the account.
* `DealMatchesItsRow`: a deal registered from one of the backend's transactions has the wallets, the
  token of the asset and the amount of the row with its id: the nearest stroop to what its order asked
  for, at most one from what the row stores, as far as binary numbers go. Nothing in the code
  compares them: `verifyOnChain` looks at the status only, so everything hangs on ids that are never
  reused, on arguments that cross two languages by position, and on two roundings that agree.
* `MilestonesCoverAmount`: however amounts are rounded, the stored milestones of a row sum to its
  stored amount up to a stroop, half a stroop for each number rounded, and the blur of a binary sum.
* `DuplicatesAreBuiltKnowingly`: a client that repeats `create` can get two rows for one order, and
  two deals. By accident (two transactions built side by side, both signed) it cannot: they share
  the account's sequence number. One of the two was built when the other deal was on the chain.
* `HandledRequestsWereEntitled`: what got past the guards was entitled at some moment after it was
  sent, and finds the caller it reads. Check and use are apart, so "is entitled" does not hold; the
  property says how stale the guard's answer can be, for every route of the table.
* `AnswersTellWhatHappened`: an error whose type puts the blame on the request has left nothing
  behind; success means that the work is done. It relates the write of a handler that fails later,
  or whose process dies, to a boundary in a function of the filter and to two clients' decoding.
* `RevocationIsFinal`, `KeysAreRevokedFromInside`: the guard writes to the row of a key it read
  earlier, `revoke` writes by id alone; still no key comes back, and none is revoked from elsewhere.
* `SecretShownToItsMaker`: the secret of a new key is on screen only in the session of the user who made
  it, except where another sign-in was answered under the open dashboard: there the code does show it
  to the next user (section 6). It is about late answers, cards that come and go, and accounts that
  change on screen without a change of session.
* `ForeignAccountHasAnExcuse`: the cached account has no owner, so the next user of a tab can see the
  last one's. The property lists exactly when: the cached answer was fresh or under way as the
  dashboard was opened, the session changed beneath it, or its replacement is on its way or failed.
* `ListShowsOwnChanges`: a list of keys that counts as fresh contains what the tab was told of,
  unless the answer came during the first load or behind another page (`CannotAskAgain`), or to a
  card that shows another organization by then.
* `SessionOutlivesOtherSignOuts`: a session ends by its user's sign-out, or by one that was under
  way when it began. The second case is the code's (section 6).

### Bounds, symmetry, deadlock

* Two deals in `contract_custody` because the hazard is one deal paid from another's deposit; a
  wallet that can fund one deal of 2 or two of 1, so that a transfer can also trap. Amount 0 is
  there to be refused. One deal is enough for roles and time, which never involve a second one, and
  for what its row shows. Two requests in `escrow_system`: one that has verified and one that
  overtakes it.
* Ledger time is counted in units in which the threshold and the extension are small: their
  ratio (15 and 30 days) is kept in `escrow_system` (2 and 4), and `idle` stops counting just past
  the threshold, where no property reads it. `MinPersistentTtl` (what the network grants a new
  entry) is below the threshold in these instances, so a new entry is bumped at once; the theorem
  `TouchedStaysReachable` covers a network that grants more.
* Three requests in `service_safety`: two that race and a third that writes late. Rows do not
  interact, so one row suffices; two milestones make "the last one" a matter of order.
* In `Organizations` the sets of membership and invitation rows bound how many are ever created:
  three and two let a member leave, be invited again and return.
* Three session rows in `sessions` are a sign-in and two rotations, or the two sessions of one link
  and another sign-in; two requests are what a race takes. Links and codes have one row each, as
  rows of a kind meet only where `enable` replaces all codes.
* Three requests in `first_sign_in`: two first sign-ins and a registration.
* In `escrow_intake` two rows are either two orders or an order and its retry; a third row would
  race the same pair. `Grain` is 4: fractions below, at and above half a stroop. The shapes of the
  first order hold one for each way a sum can be rounded, one below half a stroop, two that a
  `Precision` of 40 blurs, one that `MaxStroops` does not hold and the two kinds of ineligible row. The
  second order differs from it in every wallet and the token, or shares the depositor and not the
  roles of the others. `MaxSequence` 3 leaves room for two deals and a transaction that spoils one.
* Requests in `http_api` meet only in the tables of keys and roles: one request for every route
  against one that revokes or uses the key is every kind of meeting. One key suffices, in either
  organization; one member is promoted, demoted and removed, the other owns the other organization.
* `MaxAway` 2 in `dashboard`: while two requests are away the user sends no third, so two answers can
  come in either order (a fetch that a page starts by itself may be a third). One user has a second
  factor, the other registers; each has an organization, so the card survives a change between their
  accounts, and the second is a member of the first one's too, so that one tab may change both lists.
  One key suffices, in either organization: no rule relates two keys.
* Symmetry is declared on sets whose members the module treats alike (parties, deals, requests,
  milestones, unused rows). Runs with liveness properties use none. The abstract modules treat
  the same sets alike, so the refinement runs may.
* Deadlock is checked for the contract, alone and with the backend beside it. It is not for the
  service, where every deal may be settled and every request refused, nor for an organization, whose
  last manager may leave, nor for `first_sign_in`, which ends with the account linked, nor for
  `escrow_intake`, whose ids and sequence numbers run out: these really do stop. `http_api` and
  `dashboard` have nothing that could wait for anything else (a request can always fail, a tab can
  always be reloaded), so asking would show nothing.

### Fairness

`FairSpec` of `EscrowsService` assumes weak fairness of every request's next step (the event loop
runs a request that can run) and strong fairness of the four reports that settle a row (a client
whose deal is settled keeps reporting until the row accepts it; strong, because stale writes can
take the row in and out of the status the report needs). It assumes nothing about the chain: no
deal ever has to move. It has no `Abort`: a request that always fails satisfies no liveness
property, and the safety runs have it.

`Spec` of `FirstSignIn` assumes that every request ends (weak fairness of `Abort`, which is enabled
until it does), that somebody keeps trying the sign-in, and that none of its statements fails every
time it is tried (strong fairness of each, over all requests together: failures and races may spoil
any number of attempts). It assumes nothing about registrations.

## 4. Proofs

All theorems are about `Spec` for arbitrary constants under the assumptions named in the modules
(`BalanceAssumption`, `AmountAssumption`, `AddressAssumption`, `TtlAssumption`, `TermsAssumption`,
`ShapeAssumption`, `FounderAssumption`, `RoleAssumption`, `KindAssumption`, `IntakeAssumption`,
`HttpAssumption`, `NoneAssumption`, `DashboardAssumption`, and `SystemAssumption`, which is
`ShapeAssumption` for the composition): any number of deals, parties, tokens,
amounts, requests, milestones, users, roles, sessions, links, codes, orders, organizations and keys.

**`FiniteSums`.** `MapThenFoldSet` is defined by a recursive function over subsets, and the induction
theorems of the library take an operator, which no installed prover can instantiate. What can be
cited is that strict inclusion of the subsets of a finite set is well-founded
(`FS_StrictSubsetOrderingWellFounded`) and that a well-founded relation has minimal elements of a
*set* (`WFMin`). So every induction here is by a smallest counterexample, collected in a set
(`SmallestSet`): the recursion has a solution (`FoldExists`), no more than one (`FoldsAgree`), and
the total is the term of any element plus the total of the rest (`TotalUnfolds`, `TotalWithout`).
`TotalsKeepPace` bounds the distance of two totals by that of their terms.

**`EscrowContractProofs`.** `TypeCorrect`, `SettlementIsSigned`, `TouchedStaysReachable`,
`PoolIsExact`, `EveryHeldDealIsPayable`, `TermsAreFixed`, `ContractImplementsLifecycle`,
`ContractImplementsVault`. The inductive invariant is `IInv = TypeOK /\ DisputeLeadsOn /\
SettledByTheRightSignature /\ TouchedIsReachable`. The signature property alone is not inductive:
from a state in which a *disputed* deal shows Funded, `release` would break it. `DisputeLeadsOn`
says that a disputed deal is Disputed or settled. `TypeOK` includes that no balance is negative,
which rests on the guard of `Transfer`. For the pool the invariant is `PoolIInv`: what the contract
has of a token is the total of the deals in `Custody` (held, or released to the contract's own
address), and that set is finite (`CustodyIsFinite`: nothing is assumed of `Ids`, a behaviour has
funded finitely many deals). Each step is one of three kinds: no deal enters or leaves custody, one
enters as its amount arrives, one leaves as it is paid (`PoolMoves`). `EveryHeldDealIsPayable` is
the use of it: a settlement is never short of tokens. The two refinement theorems show that `Init`
maps to `Init` and that each action maps to the abstract action of the same effect, or to a stutter
(`AdvanceLedger`, `GetEscrow` and `RestoreEntry`; for the vault `Dispute` too).

**The composition**, in the last sections of `EscrowContractProofs`: `SystemImplementsService`,
`RowsAreCovered`, `DisputesFreeze`, `RulingsAreSigned`. The argument is assume-guarantee, and
`ImplementsService` is its lemma: a theorem for every value of the constants, with no run of its
own. Every behaviour of `EscrowSystem` is one of `EscrowContract` (`SystemIsContract`: the backend
moves nothing there), so the contract's theorems hold in it; a contract call is a step of
`EscrowLifecycle` (`LifecycleStep`), which is the step `EscrowsService` allows its chain
(`ServiceSees`), so the composition implements `EscrowsService` and the service's theorems hold in
it too, of the contract itself. `EscrowSystem` instantiates the service's proof module, so they are
cited (`Service!AlwaysIInv`), not proved again. `RowsAreCovered` follows from the two invariants and
`EveryHeldDealIsPayable`. The other two do not: that a ruling is the arbiter's depends on what
several requests saw of the dispute. `DisputeIInv` follows it through: what is Disputed was disputed
(`DisputedWasDisputed`); a request about to write DISPUTED has seen that, and one on its way to a
ruling began at a row that says so (`RequestsKnowDisputes`); so have the rows (`RowsKnowDisputes`)
and the rulings (`RulingsFollowDisputes`, with the settlement they saw). Disputes are never
forgotten and settlements never undone (`DisputesStay`), so what was seen stays true while requests
stall.

**`EscrowsServiceProofs`.** `ServiceTypeCorrect`, `NeverLeadsTheChain`, `ReleasesWait`,
`ConfirmedOutcomesStay`, `NoRowIsStuck`. The chain
property needs what every request in flight knows: `WritesAreConfirmed` (a request about to write
for an eligible row has seen the chain status it writes, and the chain has since only moved onward
from it), `RequestsHaveRows` (the row it will write exists, so that `Create` cannot come under it).
The milestone property needs `MilestoneRequestsHaveMilestones` and `ReleasesFoundNonePending`
(whoever is on its way to write RELEASED, not counting rulings, has seen no pending milestone, and
milestones never become pending again). `ConfirmedOutcomesStay` needs the invariant on both sides of a
step: a write leaves the chain where it is, and one chain cannot vouch for two outcomes. `NoRowIsStuck`
is the part of `FundedRowCatchesUp` that needs no fairness: a row that is behind has a report.

**`OrganizationsProofs`.** `MembersTypeCorrect`, `LastOwnerIsSafeWithoutARace`, `JoiningNeedsAnOffer`.
`ChangesFoundTheirRow` and `UnracedChangesSpareAnOwner` say what a change that nobody overtook still
knows at its write: if it takes an owner away there is another one. `InvitationsWereOffered` and
`AcceptancesWereOffered` carry the offer from the invitation to the request that accepted it.

**`SessionsProofs`.** `SessionsTypeCorrect`, `NoCredentialServesTwice`, `RotationKeepsOneSession`. Both
properties speak of rows, and rows alone do not carry them over a step: between its update and its
insert a request owes a session to a credential that is already spent. The inductive invariant
counts those requests with the sessions (`ServedByOne`, `OneHeirPerLine`), and says what a check that
nobody has overtaken is still worth: the credential has served nobody and is not spent
(`UnracedChecksHold`), because whatever has served is spent for good (`ServedWereSpent`).
`SignersOwnTheirRow` keeps `StoreHash` from reviving a revoked row, `LinesExist` keeps a new row from
joining a line by accident.
`FirstSignInTypeCorrect`, at the end of the module, is about `FirstSignIn`, which it instantiates: no
overlap of sign-ins and failures links the provider's account twice.

**`EscrowIntakeProofs`.** `IntakeTypeCorrect`, `DealsMatchTheirRows`, `MilestonesSumUp`,
`NoAccidentalDuplicates`. Rounding comes first: `StoredIsNearest` and `ContractAmountIsNearest`
bound both roundings by half a stroop for every amount and every even `Grain`. The invariant then
follows the terms: rows are numbered without gaps (`NextIdIsFree`, so a retry cannot land on a row
that has an offer), a transaction carries the terms of its row from the moment it is built, a deal
those of its transaction. A row's milestones are those of its order, each rounded
(`RowsAreAsAsked`), so their total is within half a stroop for each of what was asked for
(`RoundedSum`, by `TotalsKeepPace`), however many there are. For the duplicates, `NumbersAreCurrent`
says of every transaction, built or being built, that its number is spent already unless whoever
built it knew every deal there is of the depositor's: a deal registered later has used the number
up. Wallets, tokens and issuer are arbitrary: that a deal cannot have those of another order is
`carries the terms of its row`, step by step, not a choice of the instance.

**`HttpApiProofs`.** `ApiTypeCorrect`, `HandlersServeTheEntitled`, `ClientsAreToldTheTruth`,
`RevokedKeysStayRevoked`, `KeysChangeFromInside`. `RoutesAreSound` proves of the 35 lines of the
table what the pipeline needs: a route that reads a caller has a guard that sets it, a provider's
redirect writes nothing, no refusal looks like a success, the routes that change keys are behind
`RolesGuard`. The inductive invariant is `TypeOK /\ RequestIsInOrder /\ AnswerTellsWhatHappened`:
what each stage of a running request has already made sure of (the caller is set, it was entitled,
the key it is about to revoke exists and belongs to the path's organization, it has or has not
written). Entitlement is history, so it survives whatever the tables become.

**`DashboardProofs`.** `DashboardTypeCorrect`, `SecretsStayWithTheirMakers`,
`ForeignAccountsAreExcused`, `FreshListsAreComplete`, `SessionsOutliveOtherSignOuts`. What a tab
shows is decided by answers that come later, so the inductive invariant says what the requests under
way will bring. A card may outlive the account it was opened for, so nothing is claimed of the
organization on screen:

* a creation whose card is still there was asked for in this session, or another one was swapped in
  under it (`CardIsStillThere`), and the key the server made for it says so (`CreationIsItsMakers`);
* a fetch of the account with another's token was under way when the dashboard was opened, or the
  session changed since (`AccountWasAskedFor`): its answer has an excuse before it comes;
* what the tab was told of is so (`ToldIsTrue`), a fetch that has read the keys has read it
  (`ReadAfterTold`), and no fetch is under way while the list counts as fresh
  (`FetchEndsStaleness`), so neither an answer nor a change can leave a fresh list behind;
* unless the session began under a sign-out, only its own user is leaving (`SignOutIsTheSessions`).

`Render` is part of seven actions. `RenderEffects` and `RenderedOdd` state once what it does,
`RenderKeeps` that it keeps the invariant for whatever session, page and answer it is given, and the
seven actions are instances. `DashboardAssumption` says of the constants only what kind of thing
each is.

*Only model-checked:* the liveness properties `FundedRowCatchesUp` and `FirstOAuthSignInCompletes`
(fairness and ENABLED are out of the provers' reach). Every other property of a passing run is a
theorem. TLC checked each inductive invariant on the instance of its run before it
was proved.

## 5. Abstractions

* The text of dispute reasons, titles, slugs and e-mails, wallets in rows, amounts in rows, paging
  and ordering of lists are left out of the backend models; no property is about them. What a row
  decides about a request is kept: arbitrator present, asset resolvable, milestones.
* A transaction hash is any that succeeded: the code does not ask what the transaction did, so the
  model has `VerifyTx` always succeed and `Abort` for the rest.
* `get_escrow` by simulation reads the state of one ledger: `ReadChain` is atomic. In `EscrowSystem` an
  archived entry may still be read (a read that fails is `Abort`), which only adds behaviours.
* A user is an e-mail address, and the current link of an invitation row is the row.
* `upsert` of an invitation is one statement. When two race on a new address the unique constraint
  refuses the second, which is an `Abort`.
* A token is its row: signatures and hashes are not modelled, and whoever presents a token holds it.
  Access tokens are stateless and expire by themselves, a logout does not reach them. The lifetime in
  a refresh token and the `expiresAt` of its row are computed apart (`parseTtlToMs` reads a bare number
  as seconds, jsonwebtoken as milliseconds), so `Sessions` lets a logout come after the row's expiry.
* Two-factor set-up is enabled for whoever holds the secret; its verification changes nothing.
* `RolesGuard` is evaluated when the request starts, its answer is not revised. Which manager asked
  is not recorded.
* `HttpApi` keeps of a body that it is valid or not, of a token that it verifies or not, of a rate
  that it may be exceeded at any time (the throttle's counters are per process, and nothing in the
  repository says how many processes there are). Of the other services it keeps that a handler
  refuses before it writes, and may fail after a write. `mode` and `scopes` of an API key are stored
  and never read.
* `EscrowIntake` counts amounts in integers, and what a double does to them is a bound, not a
  computation: the result of a product or a sum may be anything within `Blur` of the exact one. That is
  more than IEEE 754 allows, never less. An asset is one of four codes, as they are after trimming and
  raising to capitals. A deal does not leave Funded there: what follows is `EscrowsService`.
* Nobody transfers tokens to the escrow contract outside its calls.
* `Dashboard` has one tab, and who belongs to which organization does not change in it. Access
  tokens do not expire in it: the frontend has no refresh, an expired one is an answer that fails
  (`FailMe`, `FailList`, `CreateFails`).
* Escrow ids of the contract are 64-bit and `chainEscrowId` is a positive sequence, so no id is
  reused and no width matters; the sums of balances are the token contract's own concern.

## 6. Where the code differs from what is said of it

Two of these are runs that TLC ends with a counterexample, four are additional configurations.

* `service_drift`: `docs/ARCHITECTURE.md` says database and chain can never drift apart;
  `releaseMilestone` marks an eligible escrow RELEASED while the contract still holds the deposit.
* `org_reinvite`: `@@unique([organizationId, email, status])` allows one ACCEPTED invitation per
  address, so whoever was a member once and was removed can be sent a valid invitation that can
  never be accepted.
* `MCContractTtl.cfg`: `lib.rs:8-11` says that entries are kept alive for about 30 days "and bumped back
  up to that whenever an escrow is touched". `extend_ttl` with a threshold of 15 days does nothing
  while more than that is left, so an entry touched on its fourteenth day has 16 days to go, not 30.
  What the code gives is `TouchedIsReachable`: 15 days from any touch.
* `MCServiceLateReport.cfg`: `fund` accepts a PENDING row only while the chain shows Funded. A deal
  that is settled or disputed on the chain before its funding was reported stays PENDING for good,
  however often anybody reports anything. (It is a counterexample under `FairSpec`.) So the database and
  the chain drift apart here too, which `docs/ARCHITECTURE.md:54-56` rules out.
* `MCServiceSettleRace.cfg`: a release and a refund of one row that is not on the chain overlap, both
  have passed `assertStatus`, and the second replaces the outcome of the first.
* `MCOrgLastOwner.cfg`: two demotions or removals overlap, both count two owners, and the
  organization is left without one although each was refused if it came alone.

The following were read, or met in a model's states, and have no run.

* The comment on `release` (`lib.rs:116-118`) has the arbiter act after resolving a dispute; the code
  accepts him on any funded deal, and after a dispute refuses him, when only `resolve` works
  (`SettledByTheRightSignature` states what the code does).
* `docs/ARCHITECTURE.md:58-60` says that enabling the integration breaks no existing row; eligibility
  is recomputed from the row, so rows with an arbitrator that were funded before the contract id was
  configured need on-chain proof of a deal that was never registered.
* The comment on `rotateSession` speaks of "catching reuse of a token from a session that was already
  rotated"; two overlapping uses of one token are both served (`CredentialsServeOnce` says exactly
  when).
* `fund` compares the status under the row's id and nothing else: a deal that somebody else has
  registered under the id makes the row FUNDED (`escrow_intake` has the step).
* `revokeByRefreshToken` swallows every error (`session.service.ts:105-111`, "Already
  invalid/expired"), so a logout whose update failed answers success and the session lives on:
  `auth.logout` is in `MayDoNothing` for it.
* `google.strategy.ts:11-13` says that the routes check `GOOGLE_OAUTH_CLIENT_ID` up front; the
  controller does not, and passport sends the browser away with placeholder credentials.
* `acceptInvitation` declares its body inline, so the pipe checks nothing: a body without a token
  reaches the database call and ends in a 500, as do a refresh with a token that does not verify and
  every session error, none of which is an `HttpException`.
* `schema.prisma:227` speaks of a bcrypt or argon2 hash of an API key; the code stores SHA-256.
* Readiness depends on Redis, which nothing else uses.
* `query-provider.tsx:7-8` keeps one cache per browser session; nothing clears it at sign-out, and
  the account's query does not name its user (`ForeignAccountHasAnExcuse` lists the cases).
* A sign-out clears the store when its answer comes: a user who signs in meanwhile is signed out. The
  button stays enabled while it is under way, so there may be several such answers.
* `dashboard/page.tsx:132` mounts the card of keys without a key. If another sign-in is answered under
  the open dashboard and the next account arrives, the card becomes the next organization's with the
  last user's new secret still on it, and the secret of a creation still under way will appear there
  ("Copy this key now"). A revocation under way is answered by refreshing the wrong organization's
  list, so the right one shows the key as live until it goes stale.
* A reload of the dashboard renders without the store first, and its effect may leave for `/login`
  before the store is read; the session "so a page refresh doesn't drop the session"
  (`auth-store.ts:19`) is kept, and the user is on the sign-in page all the same.
* A key created while the first load of the list is under way is missing from it until it goes
  stale; a creation whose answer is lost leaves a key whose secret nobody knows; a revocation that
  fails says nothing.
* The backend sends people to `/login/magic` and `/auth/callback`; the frontend has neither page.

## 7. Running it

    tlc -config MCContractCustody.cfg MCEscrowContract.tla
    tlapm EscrowContractProofs.tla

`PROJECT.json` pairs every configuration with its module and maps each definition to the lines it
models.

## 8. Plan

Modelled as planned: the contract and its two abstractions, the service, both together,
organizations, sessions, amounts and registration (`EscrowIntake`), API keys and the HTTP surface,
the dashboard. Left:

1. *Composition* of `EscrowIntake` with `EscrowSystem`: that the deal a row's outcome speaks of was paid
   in the row's own terms, where today the two are joined by `TermsNeverChange` alone; a deploy that
   changes the configuration under rows.
2. The builders of the contract client for `fund`, `release`, `refund`, `dispute` and `resolve`, once
   something in the repository calls them.

## 9. Not modelled

* Contract client, apart from `createEscrow`, `buildTransaction` and the two reads: five more builders
  of the same shape that have no caller, and the decoding of values.
* E-mail: fire and forget; the link in the message is the invitation row, or the magic link's.
* Static pages of the frontend (marketing, documentation, legal): markup. So are the components they
  are made of; a menu, a theme and a tab of code samples are their only state.
* Logging, Swagger, CORS, compression, request ids; the seed of the database, which runs before the
  system does.
* Infrastructure descriptions; tables of the schema that no code reads or writes.
