---------------------------- MODULE DashboardProofs ----------------------------
(***************************************************************************)
(* Proofs about Dashboard: whatever users, keys and organizations there    *)
(* are and however many requests are away, a new secret is shown in its    *)
(* maker's session, an account of somebody else has one of the named       *)
(* excuses, a fresh list has the changes the tab was told of, and a        *)
(* session ends by a sign-out of its own user or one that began before it. *)
(***************************************************************************)
EXTENDS Dashboard, TLAPS

KeyRecords == [state : KeyStates, maker : Users \cup {None}, org : Orgs \cup {None}]
Queries == [data : Users \cup {None}, fresh : BOOLEAN, by : Users \cup {None},
            seen : Users \cup {None}]
KeyQueries == [data : Lists \cup {None}, fresh : BOOLEAN, by : Users \cup {None},
               seen : Lists \cup {None}]
Creations == [by : Users, org : Orgs, key : Keys \cup {None}, here : BOOLEAN]
Revocations == [by : Users, key : Keys, tells : Orgs, here : BOOLEAN]

-----------------------------------------------------------------------------
(* What makes the properties inductive *)

\* A creation the server has carried out is of a key that says who asked for it, and
\* in which organization.
CreationIsItsMakers ==
  creating # None /\ creating.key # None =>
    /\ key[creating.key].state # "absent"
    /\ key[creating.key].maker = creating.by /\ key[creating.key].org = creating.org

\* A creation whose card is there was asked for in this session, or another one came
\* under the open dashboard.
CardIsStillThere ==
  creating # None /\ creating.here => Card # None /\ (creating.by = signedIn \/ odd.swapped)

\* A fetch with another's token was under way when the dashboard was opened, or the
\* session changed since.
AccountWasAskedFor ==
  page = "dashboard" /\ me.by \notin {None, signedIn} => odd.current \/ odd.swapped

\* Whoever is signing out is signed in, unless he was already leaving when the session began.
SignOutIsTheSessions ==
  signedIn # None /\ ~odd.shadow => \A v \in Users : leaving[v] > 0 => v = signedIn

\* A change to a key, in what a list says of it.
Shows(state, to) == state = "revoked" \/ (to = "live" /\ state = "live")

ToldIsTrue == \A c \in told : key[c.key].org \in Orgs /\ Shows(key[c.key].state, c.to)

\* The changes the tab was told of that the list of an organization is to show.
ToldOf(o) == {c \in told : key[c.key].org = o}

\* One list: what a fetch under way has read has them, and so has a fresh list.
ListGood(l, changes) ==
  /\ l.by = None => l.seen = None
  /\ l.fresh => l.by = None /\ l.data # None
  /\ l.seen # None => \A c \in changes : Shows(l.seen[c.key], c.to)
  /\ l.fresh => \A c \in changes : Shows(l.data[c.key], c.to)

CardIInv == CreationIsItsMakers /\ CardIsStillThere /\ SecretShownToItsMaker
AccountIInv == AccountWasAskedFor /\ ForeignAccountHasAnExcuse
ListIInv == ToldIsTrue /\ \A o \in Orgs : ListGood(list[o], ToldOf(o))

IInv == TypeOK /\ CardIInv /\ AccountIInv /\ SignOutIsTheSessions /\ ListIInv

LEMMA Parts ==
  TypeOK => /\ key \in [Keys -> KeyRecords] /\ me \in Queries /\ list \in [Orgs -> KeyQueries]
            /\ creating \in Creations \cup {None} /\ revoking \in Revocations \cup {None}
            /\ told \subseteq Changes /\ secret \in Keys \cup {None}
            /\ leaving \in [Users -> Nat] /\ signedIn \in Users \cup {None}
            /\ account \subseteq Users /\ page \in Pages
            /\ (page = "dashboard" => signedIn # None)
            /\ signing \in [Users -> {"no", "login", "code", "signup"}]
BY DEF TypeOK, KeyRecords, Queries, KeyQueries, Creations, Revocations

LEMMA TypeFromParts ==
  ASSUME key' \in [Keys -> KeyRecords], me' \in Queries, list' \in [Orgs -> KeyQueries],
         creating' \in Creations \cup {None}, revoking' \in Revocations \cup {None},
         told' \subseteq Changes, secret' \in Keys \cup {None}, leaving' \in [Users -> Nat],
         signedIn' \in Users \cup {None}, account' \subseteq Users, page' \in Pages,
         page' = "dashboard" => signedIn' # None,
         signing' \in [Users -> {"no", "login", "code", "signup"}],
         form' \in [waits : Users \cup {None}, code : WithCode \cup {None}],
         odd' \in [shadow : BOOLEAN, swapped : BOOLEAN, current : BOOLEAN, failed : BOOLEAN]
  PROVE  TypeOK'
BY Zenon DEF TypeOK, KeyRecords, Queries, KeyQueries, Creations, Revocations

LEMMA ListFields ==
  ASSUME NEW l \in KeyQueries
  PROVE  /\ l.data \in Lists \cup {None} /\ l.seen \in Lists \cup {None}
         /\ l.by \in Users \cup {None} /\ l.fresh \in BOOLEAN
BY SMT DEF KeyQueries

-----------------------------------------------------------------------------
(* One list *)

LEMMA MountedList ==
  ASSUME NEW l \in KeyQueries, NEW u \in Users \cup {None}, NEW aged, NEW changes,
         ListGood(l, changes)
  PROVE  Mounted(l, u, aged) \in KeyQueries /\ ListGood(Mounted(l, u, aged), changes)
<1> DEFINE m == [l EXCEPT !.by = u, !.fresh = FALSE]
<1>1. CASE l.by = None /\ (l.data = None \/ ~l.fresh \/ aged)
  <2>1. Mounted(l, u, aged) = m
    BY <1>1, Zenon DEF Mounted
  <2>2. m \in KeyQueries /\ m.seen = l.seen /\ m.fresh = FALSE
    BY DEF KeyQueries
  <2>3. m.seen = None
    BY <1>1, <2>2, Zenon DEF ListGood
  <2> HIDE DEF m
  <2> QED
    BY <2>1, <2>2, <2>3, Zenon DEF ListGood
<1>2. CASE ~(l.by = None /\ (l.data = None \/ ~l.fresh \/ aged))
  BY <1>2, Zenon DEF Mounted
<1> QED
  BY <1>1, <1>2

LEMMA ReadListGood ==
  ASSUME NEW l \in KeyQueries, NEW changes, ListGood(l, changes), l.by # None,
         NEW s \in Lists, \A c \in changes : Shows(s[c.key], c.to)
  PROVE  [l EXCEPT !.seen = s] \in KeyQueries /\ ListGood([l EXCEPT !.seen = s], changes)
<1> DEFINE m == [l EXCEPT !.seen = s]
<1>1. /\ m \in KeyQueries /\ m.seen = s /\ m.by = l.by /\ m.fresh = l.fresh
  BY DEF KeyQueries
<1>2. ~l.fresh
  BY Zenon DEF ListGood
<1> HIDE DEF m
<1>3. ListGood(m, changes)
  BY <1>1, <1>2, Zenon DEF ListGood
<1> QED
  BY <1>1, <1>3 DEF m

LEMMA ArrivedListGood ==
  ASSUME NEW l \in KeyQueries, NEW changes, ListGood(l, changes), l.seen # None
  PROVE  Arrived(l, l.seen) \in KeyQueries /\ ListGood(Arrived(l, l.seen), changes)
<1> DEFINE m == Arrived(l, l.seen)
<1>1. m \in KeyQueries /\ m.data = l.seen /\ m.by = None /\ m.seen = None
  BY ListFields DEF Arrived, KeyQueries
<1> HIDE DEF m
<1>2. ListGood(m, changes)
  BY <1>1, Zenon DEF ListGood
<1> QED
  BY <1>1, <1>2 DEF m

LEMMA StoppedListGood ==
  ASSUME NEW l \in KeyQueries, NEW changes, ListGood(l, changes), l.by # None
  PROVE  Stopped(l) \in KeyQueries /\ ListGood(Stopped(l), changes)
<1> DEFINE m == Stopped(l)
<1>1. m \in KeyQueries /\ m.by = None /\ m.seen = None /\ m.fresh = l.fresh
  BY DEF Stopped, KeyQueries
<1>2. ~l.fresh
  BY Zenon DEF ListGood
<1> HIDE DEF m
<1>3. ListGood(m, changes)
  BY <1>1, <1>2, Zenon DEF ListGood
<1> QED
  BY <1>1, <1>3 DEF m

\* Asking again discards what the fetch under way has read.
LEMMA AskedAgainListGood ==
  ASSUME NEW l \in KeyQueries, NEW u \in Users, u # None, NEW changes
  PROVE  LET m == [l EXCEPT !.fresh = FALSE, !.by = u, !.seen = None]
         IN m \in KeyQueries /\ ListGood(m, changes)
<1> DEFINE m == [l EXCEPT !.fresh = FALSE, !.by = u, !.seen = None]
<1>1. m \in KeyQueries /\ m.fresh = FALSE /\ m.by = u /\ m.seen = None
  BY DEF KeyQueries
<1> HIDE DEF m
<1>2. ListGood(m, changes)
  BY <1>1, Zenon DEF ListGood
<1> QED
  BY <1>1, <1>2 DEF m

\* A list that is only marked owes nobody anything if nothing is being read for it.
LEMMA MarkedListGood ==
  ASSUME NEW l \in KeyQueries, NEW changes, NEW more, ListGood(l, changes),
         more = changes \/ l.by = None
  PROVE  [l EXCEPT !.fresh = FALSE] \in KeyQueries /\ ListGood([l EXCEPT !.fresh = FALSE], more)
<1> DEFINE m == [l EXCEPT !.fresh = FALSE]
<1>1. m \in KeyQueries /\ m.fresh = FALSE /\ m.by = l.by /\ m.seen = l.seen
  BY DEF KeyQueries
<1> HIDE DEF m
<1>2. ListGood(m, more)
  <2>1. CASE more = changes
    BY <2>1, <1>1, Zenon DEF ListGood
  <2>2. CASE l.by = None
    BY <2>2, <1>1, Zenon DEF ListGood
  <2> QED
    BY <2>1, <2>2
<1> QED
  BY <1>1, <1>2 DEF m

-----------------------------------------------------------------------------
(* Rendering *)

\* What the steps that render have in common: whose session and which page they ask
\* for, the query of the account they hand on, and all they leave alone.
Renders(u, p, q) ==
  /\ u \in Users \cup {None} /\ p \in Pages
  /\ \/ q = me
     \/ u = signedIn /\ p = page /\ me.by # None /\ q \in {Arrived(me, me.by), Stopped(me)}
  /\ Render(u, p, q)
  /\ leaving' \in [Users -> Nat] /\ (\A v \in Users : leaving'[v] > 0 => leaving[v] > 0)
  /\ UNCHANGED <<key, told>>

\* What Render names inside itself.
RenderedPage(u, p) == IF p = "dashboard" /\ u = None THEN "login" ELSE p
Opens(u, p) == RenderedPage(u, p) = "dashboard" /\ page # "dashboard"
RenderedMe(u, p, q, aged) == IF Opens(u, p) THEN Mounted(q, u, aged) ELSE q
NextCard(u, p, q, aged) == CardOf(RenderedPage(u, p), RenderedMe(u, p, q, aged))
Kept(u, p, q, aged) == NextCard(u, p, q, aged) # None /\ Card # None

\* The four fields of odd after a step that renders, kept as names: their values are
\* formulas.
NextShadow(u) == IF u = signedIn THEN odd.shadow ELSE u # None /\ SomebodyLeaves
NextSwapped(u, p) ==
  RenderedPage(u, p) = "dashboard" /\ page = "dashboard" /\ (odd.swapped \/ u # signedIn)
NextCurrent(u, p, q, aged) ==
  IF Opens(u, p) THEN (q.fresh /\ ~aged) \/ q.by # None
  ELSE odd.current /\ RenderedPage(u, p) = "dashboard"
NextFailed(u, p, q) ==
  ~Opens(u, p) /\ RenderedPage(u, p) = "dashboard"
    /\ (odd.failed \/ (me.by # None /\ q = Stopped(me)))

LEMMA OddFields ==
  ASSUME NEW s, NEW w, NEW c, NEW f
  PROVE  LET o == [shadow |-> s, swapped |-> w, current |-> c, failed |-> f]
         IN o.shadow = s /\ o.swapped = w /\ o.current = c /\ o.failed = f
OBVIOUS

\* All that rendering does, once the age of the account's query is known.
Effects(u, p, q, aged) ==
  /\ signedIn' = u
  /\ page' = RenderedPage(u, p)
  /\ me' = RenderedMe(u, p, q, aged)
  /\ \/ list' = list
     \/ \E old \in BOOLEAN :
          list' = [list EXCEPT ![NextCard(u, p, q, aged)] = Mounted(@, u, old)]
  /\ secret' = IF Kept(u, p, q, aged) THEN secret ELSE None
  /\ creating' = IF creating # None /\ ~Kept(u, p, q, aged)
                 THEN [creating EXCEPT !.here = FALSE] ELSE creating
  /\ revoking' = IF revoking # None
                 THEN Followed(revoking, Kept(u, p, q, aged), NextCard(u, p, q, aged)) ELSE None
  /\ form' \in {form, BlankForm}
  /\ odd' = [shadow  |-> NextShadow(u),             swapped |-> NextSwapped(u, p),
             current |-> NextCurrent(u, p, q, aged), failed  |-> NextFailed(u, p, q)]

LEMMA RenderEffects ==
  ASSUME NEW u, NEW p, NEW q, Render(u, p, q)
  PROVE  \E aged \in BOOLEAN : Effects(u, p, q, aged)
<1> DEFINE R(aged) ==
      LET p2 == IF p = "dashboard" /\ u = None THEN "login" ELSE p
          opens == p2 = "dashboard" /\ page # "dashboard"
          q2 == IF opens THEN Mounted(q, u, aged) ELSE q
          card == CardOf(p2, q2)
          kept == card # None /\ Card # None
      IN
      /\ signedIn' = u /\ page' = p2 /\ me' = q2
      /\ list' \in IF card \in {None, Card} THEN {list}
                   ELSE {[list EXCEPT ![card] = Mounted(@, u, old)] : old \in BOOLEAN}
      /\ secret' = IF kept THEN secret ELSE None
      /\ creating' = IF creating # None /\ ~kept THEN [creating EXCEPT !.here = FALSE] ELSE creating
      /\ revoking' = IF revoking # None THEN Followed(revoking, kept, card) ELSE None
      /\ form' = IF p2 = page THEN form ELSE BlankForm
      /\ odd' = [shadow  |-> IF u = signedIn THEN odd.shadow ELSE u # None /\ SomebodyLeaves,
                 swapped |-> p2 = "dashboard" /\ page = "dashboard"
                               /\ (odd.swapped \/ u # signedIn),
                 current |-> IF opens THEN (q.fresh /\ ~aged) \/ q.by # None
                             ELSE odd.current /\ p2 = "dashboard",
                 failed  |-> ~opens /\ p2 = "dashboard"
                               /\ (odd.failed \/ (me.by # None /\ q = Stopped(me)))]
<1>1. PICK aged \in BOOLEAN : R(aged)
  BY Zenon DEF Render
<1>2. /\ signedIn' = u
      /\ page' = RenderedPage(u, p)
      /\ me' = RenderedMe(u, p, q, aged)
      /\ secret' = IF Kept(u, p, q, aged) THEN secret ELSE None
      /\ creating' = IF creating # None /\ ~Kept(u, p, q, aged)
                     THEN [creating EXCEPT !.here = FALSE] ELSE creating
      /\ revoking' = IF revoking # None
                     THEN Followed(revoking, Kept(u, p, q, aged), NextCard(u, p, q, aged)) ELSE None
  BY <1>1, Zenon DEF RenderedPage, Opens, RenderedMe, NextCard, Kept
<1>3. list' \in IF NextCard(u, p, q, aged) \in {None, Card} THEN {list}
                ELSE {[list EXCEPT ![NextCard(u, p, q, aged)] = Mounted(@, u, old)] : old \in BOOLEAN}
  BY <1>1, Zenon DEF RenderedPage, Opens, RenderedMe, NextCard
<1>4. form' \in {form, BlankForm}
  BY <1>1
<1>5. odd' = [shadow  |-> NextShadow(u),             swapped |-> NextSwapped(u, p),
              current |-> NextCurrent(u, p, q, aged), failed  |-> NextFailed(u, p, q)]
  BY <1>1, Zenon DEF RenderedPage, Opens, NextShadow, NextSwapped, NextCurrent, NextFailed
<1> HIDE DEF R
<1>6. \/ list' = list
      \/ \E old \in BOOLEAN :
           list' = [list EXCEPT ![NextCard(u, p, q, aged)] = Mounted(@, u, old)]
  BY <1>3
<1> QED
  BY <1>2, <1>4, <1>5, <1>6, Zenon DEF Effects

LEMMA RenderedOdd ==
  ASSUME NEW u, NEW p, NEW q, NEW aged, Effects(u, p, q, aged)
  PROVE  /\ odd'.shadow = NextShadow(u)
         /\ odd'.swapped = NextSwapped(u, p)
         /\ odd'.current = NextCurrent(u, p, q, aged)
         /\ odd'.failed = NextFailed(u, p, q)
BY OddFields, Zenon DEF Effects

LEMMA OddType ==
  TypeOK => /\ odd.shadow \in BOOLEAN /\ odd.swapped \in BOOLEAN
            /\ odd.current \in BOOLEAN /\ odd.failed \in BOOLEAN
BY SMT DEF TypeOK

\* The queries a step hands on are queries, and opening a page leaves them so.
LEMMA RenderedQueries ==
  ASSUME TypeOK, NEW u, NEW p, NEW q, NEW aged, Renders(u, p, q), Effects(u, p, q, aged)
  PROVE  /\ q \in Queries /\ me' \in Queries /\ q.fresh \in BOOLEAN
         /\ NextCard(u, p, q, aged) \in Orgs \cup {None}
<1>1. u \in Users \cup {None} /\ (q = me \/ q \in {Arrived(me, me.by), Stopped(me)})
  BY DEF Renders
<1>2. me \in Queries
  BY Parts
<1>3. Arrived(me, me.by) \in Queries /\ Stopped(me) \in Queries
  BY <1>2 DEF Arrived, Stopped, Queries
<1>4. q \in Queries
  BY <1>1, <1>2, <1>3
<1>5. Mounted(q, u, aged) \in Queries
  BY <1>1, <1>4 DEF Mounted, Queries
<1>6. me' = RenderedMe(u, p, q, aged)
  BY DEF Effects
<1>7. me' \in Queries
  BY <1>4, <1>5, <1>6 DEF RenderedMe
<1>8. q.fresh \in BOOLEAN
  BY <1>4, SMT DEF Queries
<1>9. RenderedMe(u, p, q, aged).data \in Users \cup {None}
  BY <1>6, <1>7 DEF Queries
<1>10. NextCard(u, p, q, aged) \in Orgs \cup {None}
  BY <1>9, DashboardAssumption DEF NextCard, CardOf
<1> QED
  BY <1>4, <1>7, <1>8, <1>10

\* Every list is as it was, or was asked for.
LEMMA RenderedLists ==
  ASSUME TypeOK, NEW u, NEW p, NEW q, NEW aged, Renders(u, p, q), Effects(u, p, q, aged)
  PROVE  /\ DOMAIN list' = Orgs /\ list' = [o \in Orgs |-> list'[o]]
         /\ \A o \in Orgs : list'[o] = list[o] \/ \E old \in BOOLEAN : list'[o] = Mounted(list[o], u, old)
<1>1. list \in [Orgs -> KeyQueries]
  BY Parts
<1>2. CASE list' = list
  BY <1>1, <1>2
<1>3. CASE list' # list
  <2>1. PICK old \in BOOLEAN : list' = [list EXCEPT ![NextCard(u, p, q, aged)] = Mounted(@, u, old)]
    BY <1>3, Zenon DEF Effects
  <2> QED
    BY <1>1, <2>1
<1> QED
  BY <1>2, <1>3

LEMMA RenderedList ==
  ASSUME TypeOK, ListIInv, NEW u, NEW p, NEW q, NEW aged, Renders(u, p, q), Effects(u, p, q, aged)
  PROVE  list' \in [Orgs -> KeyQueries] /\ ListIInv'
<1>1. list \in [Orgs -> KeyQueries] /\ u \in Users \cup {None} /\ UNCHANGED <<key, told>>
  BY Parts DEF Renders
<1>2. ToldIsTrue' /\ \A o \in Orgs : ToldOf(o)' = ToldOf(o)
  BY <1>1 DEF ListIInv, ToldIsTrue, ToldOf
<1>3. \A o \in Orgs : list'[o] \in KeyQueries /\ ListGood(list'[o], ToldOf(o))
  <2> TAKE o \in Orgs
  <2>1. list[o] \in KeyQueries /\ ListGood(list[o], ToldOf(o))
    BY <1>1 DEF ListIInv
  <2>2. \A old : Mounted(list[o], u, old) \in KeyQueries /\ ListGood(Mounted(list[o], u, old), ToldOf(o))
    BY <1>1, <2>1, MountedList, Zenon
  <2> QED
    BY <2>1, <2>2, RenderedLists, Zenon
<1>4. list' \in [Orgs -> KeyQueries]
  BY <1>3, RenderedLists
<1>5. \A o \in Orgs : ListGood(list'[o], ToldOf(o)')
  BY <1>2, <1>3, Zenon
<1> QED
  BY <1>2, <1>4, <1>5, Zenon DEF ListIInv

LEMMA RenderedType ==
  ASSUME TypeOK, ListIInv, NEW u, NEW p, NEW q, NEW aged, Renders(u, p, q), Effects(u, p, q, aged),
         account' \subseteq Users, signing' \in [Users -> {"no", "login", "code", "signup"}]
  PROVE  TypeOK'
<1>1. /\ signedIn' = u /\ page' = RenderedPage(u, p)
      /\ secret' \in {secret, None}
      /\ form' \in {form, BlankForm}
  BY DEF Effects
<1>2. /\ u \in Users \cup {None} /\ p \in Pages
      /\ UNCHANGED <<key, told>> /\ leaving' \in [Users -> Nat]
  BY DEF Renders
<1>3. signedIn' \in Users \cup {None} /\ page' \in Pages /\ (page' = "dashboard" => signedIn' # None)
  BY <1>1, <1>2 DEF RenderedPage, Pages
<1>4. me' \in Queries /\ list' \in [Orgs -> KeyQueries]
      /\ NextCard(u, p, q, aged) \in Orgs \cup {None}
  BY RenderedQueries, RenderedList
<1>5. creating' \in Creations \cup {None}
  <2>1. creating \in Creations \cup {None}
    BY Parts
  <2>2. creating # None => [creating EXCEPT !.here = FALSE] \in Creations
    BY <2>1 DEF Creations
  <2>3. creating' \in {creating, [creating EXCEPT !.here = FALSE]} /\ (creating = None => creating' = creating)
    BY DEF Effects
  <2> QED
    BY <2>1, <2>2, <2>3
<1>6. revoking' \in Revocations \cup {None}
  <2>1. CASE revoking = None
    BY <2>1 DEF Effects
  <2>2. CASE revoking # None
    <3>1. revoking \in Revocations
      BY <2>2, Parts
    <3>2. [revoking EXCEPT !.here = FALSE] \in Revocations
      BY <3>1 DEF Revocations
    <3>3. \A o \in Orgs : [revoking EXCEPT !.tells = o] \in Revocations
      BY <3>1 DEF Revocations
    <3>4. Kept(u, p, q, aged) => NextCard(u, p, q, aged) \in Orgs
      BY <1>4 DEF Kept
    <3>5. revoking' = Followed(revoking, Kept(u, p, q, aged), NextCard(u, p, q, aged))
      BY <2>2 DEF Effects
    <3> QED
      BY <3>1, <3>2, <3>3, <3>4, <3>5, Zenon DEF Followed
  <2> QED
    BY <2>1, <2>2
<1>7. odd' \in [shadow : BOOLEAN, swapped : BOOLEAN, current : BOOLEAN, failed : BOOLEAN]
  <2>1. NextShadow(u) \in BOOLEAN
    BY OddType, Zenon DEF NextShadow
  <2>2. NextSwapped(u, p) \in BOOLEAN
    BY Zenon DEF NextSwapped
  <2>3. NextCurrent(u, p, q, aged) \in BOOLEAN
    BY Zenon DEF NextCurrent
  <2>4. NextFailed(u, p, q) \in BOOLEAN
    BY Zenon DEF NextFailed
  <2>5. odd' = [shadow  |-> NextShadow(u),             swapped |-> NextSwapped(u, p),
                current |-> NextCurrent(u, p, q, aged), failed  |-> NextFailed(u, p, q)]
    BY DEF Effects
  <2> HIDE DEF NextShadow, NextSwapped, NextCurrent, NextFailed
  <2> QED
    BY <2>1, <2>2, <2>3, <2>4, <2>5
<1>8. form' \in [waits : Users \cup {None}, code : WithCode \cup {None}]
  BY <1>1 DEF TypeOK, BlankForm
<1>9. /\ secret' \in Keys \cup {None} /\ key' \in [Keys -> KeyRecords] /\ told' \subseteq Changes
  BY <1>1, <1>2, Parts
<1> QED
  BY <1>2, <1>3, <1>4, <1>5, <1>6, <1>7, <1>8, <1>9, TypeFromParts

-----------------------------------------------------------------------------
(* What rendering keeps *)

LEMMA RenderedCard ==
  ASSUME TypeOK, CardIInv, NEW u, NEW p, NEW q, NEW aged, Renders(u, p, q), Effects(u, p, q, aged)
  PROVE  CardIInv'
<1>1. /\ signedIn' = u /\ page' = RenderedPage(u, p) /\ me' = RenderedMe(u, p, q, aged)
      /\ secret' = IF Kept(u, p, q, aged) THEN secret ELSE None
      /\ creating' = IF creating # None /\ ~Kept(u, p, q, aged)
                     THEN [creating EXCEPT !.here = FALSE] ELSE creating
      /\ key' = key
  BY DEF Renders, Effects
<1>2. Kept(u, p, q, aged) => Card # None /\ Card' # None
  BY <1>1 DEF Kept, NextCard, Card
<1>3. Card # None /\ Card' # None => (odd'.swapped <=> odd.swapped \/ u # signedIn)
  <2> SUFFICES ASSUME Card # None, Card' # None PROVE odd'.swapped <=> odd.swapped \/ u # signedIn
    OBVIOUS
  <2>1. page = "dashboard" /\ RenderedPage(u, p) = "dashboard"
    BY <1>1 DEF Card, CardOf
  <2>2. odd'.swapped = NextSwapped(u, p)
    BY RenderedOdd
  <2> QED
    BY <2>1, <2>2, Zenon DEF NextSwapped
<1>4. creating # None => creating \in Creations
  BY Parts
<1>5. creating' # None => /\ creating # None /\ creating'.by = creating.by
                          /\ creating'.key = creating.key /\ creating'.org = creating.org
                          /\ creating'.here => Kept(u, p, q, aged) /\ creating.here
  <2> SUFFICES ASSUME creating' # None
               PROVE  /\ creating # None /\ creating'.by = creating.by
                      /\ creating'.key = creating.key /\ creating'.org = creating.org
                      /\ creating'.here => Kept(u, p, q, aged) /\ creating.here
    OBVIOUS
  <2>1. creating # None
    BY <1>1
  <2>2. CASE Kept(u, p, q, aged)
    BY <1>1, <2>1, <2>2, Zenon
  <2>3. CASE ~Kept(u, p, q, aged)
    <3>1. creating' = [creating EXCEPT !.here = FALSE]
      BY <1>1, <2>1, <2>3
    <3>2. /\ creating'.by = creating.by /\ creating'.key = creating.key
          /\ creating'.org = creating.org /\ creating'.here = FALSE
      BY <3>1, <1>4, <2>1 DEF Creations
    <3> QED
      BY <3>2, <2>1, Zenon
  <2> QED
    BY <2>2, <2>3
<1>6. CreationIsItsMakers'
  BY <1>1, <1>5 DEF CardIInv, CreationIsItsMakers
<1>7. CardIsStillThere'
  <2> SUFFICES ASSUME creating' # None, creating'.here
               PROVE  Card' # None /\ (creating'.by = signedIn' \/ odd'.swapped)
    BY Zenon DEF CardIsStillThere
  <2>1. Kept(u, p, q, aged) /\ creating # None /\ creating.here /\ creating'.by = creating.by
    BY <1>5, Zenon
  <2>2. Card # None /\ Card' # None /\ (creating.by = signedIn \/ odd.swapped)
    BY <2>1, <1>2, Zenon DEF CardIInv, CardIsStillThere
  <2> QED
    BY <2>1, <2>2, <1>1, <1>3, Zenon
<1>8. SecretShownToItsMaker'
  <2> SUFFICES ASSUME secret' # None
               PROVE  /\ Card' # None /\ key'[secret'].state # "absent"
                      /\ key'[secret'].maker = signedIn' \/ odd'.swapped
    BY Zenon DEF SecretShownToItsMaker
  <2>1. Kept(u, p, q, aged) /\ secret' = secret
    BY <1>1
  <2>2. /\ Card # None /\ Card' # None /\ key[secret].state # "absent"
        /\ key[secret].maker = signedIn \/ odd.swapped
    BY <2>1, <1>2, Zenon DEF CardIInv, SecretShownToItsMaker
  <2> QED
    BY <2>1, <2>2, <1>1, <1>3, Zenon
<1> QED
  BY <1>6, <1>7, <1>8 DEF CardIInv

\* Opening the dashboard asks for the account, or finds somebody has; a page that stays
\* open keeps its excuses, and a changed session is one.
LEMMA RenderedAccount ==
  ASSUME TypeOK, AccountIInv, NEW u, NEW p, NEW q, NEW aged, Renders(u, p, q), Effects(u, p, q, aged)
  PROVE  AccountIInv'
<1>1. /\ signedIn' = u /\ page' = RenderedPage(u, p) /\ me' = RenderedMe(u, p, q, aged)
      /\ odd'.swapped = NextSwapped(u, p) /\ odd'.current = NextCurrent(u, p, q, aged)
      /\ odd'.failed = NextFailed(u, p, q)
  BY RenderedOdd DEF Effects
<1>2. me \in Queries /\ q \in Queries /\ q.fresh \in BOOLEAN
  BY RenderedQueries, Parts
<1>3. page' = "dashboard" => u # None
  BY <1>1 DEF RenderedPage
<1>4. CASE page' = "dashboard" /\ Opens(u, p)
  <2>1. me' = Mounted(q, u, aged)
    BY <1>1, <1>4, Zenon DEF RenderedMe
  <2>2. odd'.current = ((q.fresh /\ ~aged) \/ q.by # None)
    BY <1>1, <1>4, Zenon DEF NextCurrent
  <2>3. CASE q.by # None
    BY <2>2, <2>3, Zenon DEF AccountIInv, AccountWasAskedFor, ForeignAccountHasAnExcuse
  <2>4. CASE q.by = None
    <3>1. CASE q.fresh /\ ~aged
      BY <2>2, <3>1, Zenon DEF AccountIInv, AccountWasAskedFor, ForeignAccountHasAnExcuse
    <3>2. CASE ~q.fresh \/ aged
      <4>1. me' = [q EXCEPT !.by = u, !.fresh = FALSE]
        BY <2>1, <2>4, <3>2, Zenon DEF Mounted
      <4>2. me'.by = u
        BY <4>1, <1>2 DEF Queries
      <4> QED
        BY <4>2, <1>1, <1>3, <1>4, Zenon
        DEF AccountIInv, AccountWasAskedFor, ForeignAccountHasAnExcuse
    <3> QED
      BY <3>1, <3>2, Zenon
  <2> QED
    BY <2>3, <2>4
<1>5. CASE page' = "dashboard" /\ ~Opens(u, p)
  <2>1. page = "dashboard" /\ RenderedPage(u, p) = "dashboard" /\ me' = q
    BY <1>1, <1>5, Zenon DEF RenderedMe, Opens
  <2>2. odd'.swapped <=> odd.swapped \/ u # signedIn
    BY <1>1, <2>1, Zenon DEF NextSwapped
  <2>3. odd'.current <=> odd.current
    BY <1>1, <1>5, <2>1, Zenon DEF NextCurrent
  <2>4. odd'.failed <=> odd.failed \/ (me.by # None /\ q = Stopped(me))
    BY <1>1, <1>5, <2>1, Zenon DEF NextFailed
  <2>5. CASE u # signedIn
    BY <2>2, <2>5, Zenon DEF AccountIInv, AccountWasAskedFor, ForeignAccountHasAnExcuse
  <2>6. CASE u = signedIn
    <3>1. me.by \notin {None, signedIn} => odd.current \/ odd.swapped
      BY <2>1, Zenon DEF AccountIInv, AccountWasAskedFor
    <3>2. me.data \notin {None, signedIn} =>
            odd.current \/ odd.swapped \/ odd.failed \/ me.by # None
      BY <2>1, Zenon DEF AccountIInv, ForeignAccountHasAnExcuse
    <3>3. q = me \/ (me.by # None /\ q \in {Arrived(me, me.by), Stopped(me)})
      BY DEF Renders
    <3>4. CASE q = me
      BY <1>1, <2>1, <2>2, <2>3, <2>4, <2>6, <3>1, <3>2, <3>4, Zenon
      DEF AccountIInv, AccountWasAskedFor, ForeignAccountHasAnExcuse
    <3>5. CASE q = Arrived(me, me.by)
      <4>1. q.by = None /\ q.data = me.by
        BY <3>5 DEF Arrived
      <4> QED
        BY <4>1, <1>1, <2>1, <2>2, <2>3, <2>6, <3>1, Zenon
        DEF AccountIInv, AccountWasAskedFor, ForeignAccountHasAnExcuse
    <3>6. CASE me.by # None /\ q = Stopped(me)
      <4>1. q.by = None
        BY <3>6, <1>2 DEF Stopped, Queries
      <4>2. odd'.failed
        BY <3>6, <2>4, Zenon
      <4> QED
        BY <4>1, <4>2, <2>1, Zenon DEF AccountIInv, AccountWasAskedFor, ForeignAccountHasAnExcuse
    <3> QED
      BY <3>3, <3>4, <3>5, <3>6
  <2> QED
    BY <2>5, <2>6
<1>6. CASE page' # "dashboard"
  BY <1>6, Zenon DEF AccountIInv, AccountWasAskedFor, ForeignAccountHasAnExcuse
<1> QED
  BY <1>4, <1>5, <1>6

LEMMA RenderedSignOuts ==
  ASSUME TypeOK, SignOutIsTheSessions, NEW u, NEW p, NEW q, NEW aged, Renders(u, p, q), Effects(u, p, q, aged)
  PROVE  SignOutIsTheSessions'
<1>1. /\ signedIn' = u /\ odd'.shadow = NextShadow(u)
      /\ \A v \in Users : leaving'[v] > 0 => leaving[v] > 0
  BY RenderedOdd DEF Renders, Effects
<1>2. CASE u = signedIn
  <2>1. odd'.shadow <=> odd.shadow
    BY <1>1, <1>2, Zenon DEF NextShadow
  <2> QED
    BY <1>1, <1>2, <2>1, Zenon DEF SignOutIsTheSessions
<1>3. CASE u # signedIn /\ u # None
  <2>1. odd'.shadow <=> SomebodyLeaves
    BY <1>1, <1>3, Zenon DEF NextShadow
  <2> QED
    BY <1>1, <2>1, Zenon DEF SignOutIsTheSessions, SomebodyLeaves
<1>4. CASE u = None
  BY <1>1, <1>4, Zenon DEF SignOutIsTheSessions
<1> QED
  BY <1>2, <1>3, <1>4

LEMMA RenderKeeps ==
  ASSUME IInv, NEW u, NEW p, NEW q, Renders(u, p, q),
         account' \subseteq Users, signing' \in [Users -> {"no", "login", "code", "signup"}]
  PROVE  IInv'
<1>1. PICK aged \in BOOLEAN : Effects(u, p, q, aged)
  BY RenderEffects DEF Renders
<1>2. TypeOK'
  BY <1>1, RenderedType DEF IInv
<1> QED
  BY <1>1, <1>2, RenderedCard, RenderedAccount, RenderedSignOuts, RenderedList DEF IInv

-----------------------------------------------------------------------------
(* What a step that leaves a part alone keeps of it *)

LEMMA CardStays ==
  CardIInv /\ UNCHANGED <<key, signedIn, page, me, creating, secret, odd>> => CardIInv'
BY Zenon DEF CardIInv, CreationIsItsMakers, CardIsStillThere, SecretShownToItsMaker, Card, CardOf

LEMMA AccountStays == AccountIInv /\ UNCHANGED <<signedIn, page, me, odd>> => AccountIInv'
BY Zenon DEF AccountIInv, AccountWasAskedFor, ForeignAccountHasAnExcuse

LEMMA SignOutsStay ==
  SignOutIsTheSessions /\ UNCHANGED <<signedIn, leaving, odd>> => SignOutIsTheSessions'
BY Zenon DEF SignOutIsTheSessions

LEMMA ListStays == ListIInv /\ UNCHANGED <<key, told, list>> => ListIInv'
BY Zenon DEF ListIInv, ToldIsTrue, ToldOf

\* What is left to show of the lists when the keys stay and one list or none is told of more.
LEMMA ListsGood ==
  ASSUME ListIInv, TypeOK, UNCHANGED key, NEW o \in Orgs, NEW l \in KeyQueries,
         list' = [list EXCEPT ![o] = l], ToldIsTrue',
         told \subseteq told', \A c \in told' : c \in told \/ key[c.key].org = o,
         ListGood(l, ToldOf(o)')
  PROVE  list' \in [Orgs -> KeyQueries] /\ ListIInv'
<1>1. list \in [Orgs -> KeyQueries]
  BY Parts
<1>2. list'[o] = l /\ (\A n \in Orgs : n # o => list'[n] = list[n]) /\ list' \in [Orgs -> KeyQueries]
  BY <1>1
<1>3. \A n \in Orgs : n # o => ToldOf(n)' = ToldOf(n)
  BY DEF ToldOf
<1>4. ASSUME NEW n \in Orgs PROVE ListGood(list'[n], ToldOf(n)')
  <2>1. CASE n = o
    BY <2>1, <1>2, Zenon
  <2>2. CASE n # o
    BY <2>2, <1>2, <1>3, Zenon DEF ListIInv
  <2> QED
    BY <2>1, <2>2
<1> QED
  BY <1>2, <1>4, Zenon DEF ListIInv

LEMMA CardLeavesSession == CardStep => signedIn' = signedIn
BY Zenon DEF CardStep, ReadList, AnswerList, FailList, SubmitKey, KeyCreated, CreateFails,
             ServerCreates, SubmitRevoke, ServerRevokes, KeyRevoked, RevokeFails, Reconnect

-----------------------------------------------------------------------------
(* Steps of the session *)

\* A form's step, which touches nothing but the form, the requests and the accounts.
LEMMA FormKeeps ==
  ASSUME IInv,
         UNCHANGED <<key, signedIn, page, leaving, me, list, creating, revoking, secret, told, odd>>,
         account' \subseteq Users,
         form' \in [waits : Users \cup {None}, code : WithCode \cup {None}],
         signing' \in [Users -> {"no", "login", "code", "signup"}]
  PROVE  IInv'
<1>1. TypeOK'
  BY DEF IInv, TypeOK
<1> QED
  BY <1>1, CardStays, AccountStays, SignOutsStay, ListStays, Zenon DEF IInv

LEMMA SigningType ==
  ASSUME TypeOK, NEW u \in Users, NEW what \in {"no", "login", "code", "signup"}
  PROVE  [signing EXCEPT ![u] = what] \in [Users -> {"no", "login", "code", "signup"}]
BY DEF TypeOK

LEMMA FormType ==
  ASSUME TypeOK
  PROVE  /\ form \in [waits : Users \cup {None}, code : WithCode \cup {None}]
         /\ \A u \in Users \cup {None} :
              [form EXCEPT !.waits = u] \in [waits : Users \cup {None}, code : WithCode \cup {None}]
         /\ \A u \in WithCode :
              [waits |-> None, code |-> u] \in [waits : Users \cup {None}, code : WithCode \cup {None}]
BY DEF TypeOK

LEMMA FormSteps ==
  ASSUME IInv, NEW u \in Users,
         SubmitLogin(u) \/ SubmitSignup(u) \/ CodeAsked(u) \/ SignInFails(u)
  PROVE  IInv'
<1>1. TypeOK
  BY DEF IInv
<1>2. account' \subseteq Users
  BY <1>1 DEF TypeOK, SubmitLogin, SubmitSignup, CodeAsked, SignInFails
<1>3. signing' \in [Users -> {"no", "login", "code", "signup"}]
  BY <1>1, SigningType DEF SubmitLogin, SubmitSignup, CodeAsked, SignInFails
<1>4. form' \in [waits : Users \cup {None}, code : WithCode \cup {None}]
  <2>1. CASE SubmitLogin(u) \/ SubmitSignup(u)
    BY <1>1, <2>1, FormType DEF SubmitLogin, SubmitSignup
  <2>2. CASE CodeAsked(u)
    <3>1. u \in WithCode
      BY <2>2 DEF CodeAsked
    <3> QED
      BY <1>1, <2>2, <3>1, FormType DEF CodeAsked
  <2>3. CASE SignInFails(u)
    BY <1>1, <2>3, FormType DEF SignInFails
  <2> QED
    BY <2>1, <2>2, <2>3
<1>5. UNCHANGED <<key, signedIn, page, leaving, me, list, creating, revoking, secret, told, odd>>
  BY Zenon DEF SubmitLogin, SubmitSignup, CodeAsked, SignInFails
<1> QED
  BY <1>2, <1>3, <1>4, <1>5, FormKeeps

LEMMA RenderingSteps ==
  ASSUME IInv,
         \/ \E p \in Pages : FollowLink(p) \/ GoBack(p)
         \/ \E u \in Users : LoginSucceeds(u) \/ SignupSucceeds(u) \/ ClearSession(u)
         \/ AnswerMe \/ FailMe
  PROVE  IInv'
<1>1. /\ account \subseteq Users /\ leaving \in [Users -> Nat]
      /\ signing \in [Users -> {"no", "login", "code", "signup"}]
      /\ signedIn \in Users \cup {None} /\ page \in Pages
  BY Parts DEF IInv
<1>2. \A p \in Pages : FollowLink(p) \/ GoBack(p) => Renders(signedIn, p, me)
  BY <1>1 DEF FollowLink, GoBack, Renders
<1>3. \A u \in Users : LoginSucceeds(u) \/ SignupSucceeds(u) => Renders(u, "dashboard", me)
  BY <1>1 DEF LoginSucceeds, SignupSucceeds, SetSession, Renders, Pages
<1>4. \A u \in Users : ClearSession(u) => Renders(None, "login", me)
  BY <1>1 DEF ClearSession, Renders, Pages
<1>5. AnswerMe => Renders(signedIn, page, Arrived(me, me.by))
  BY <1>1 DEF AnswerMe, Renders
<1>6. FailMe => Renders(signedIn, page, Stopped(me))
  BY <1>1 DEF FailMe, Renders
<1>7. account' \subseteq Users
  BY <1>1, Zenon DEF FollowLink, GoBack, LoginSucceeds, SignupSucceeds, ClearSession, AnswerMe, FailMe
<1>8. signing' \in [Users -> {"no", "login", "code", "signup"}]
  BY <1>1 DEF FollowLink, GoBack, LoginSucceeds, SignupSucceeds, SetSession, ClearSession, AnswerMe,
              FailMe
<1>9. \E u, p, q : Renders(u, p, q)
  BY <1>2, <1>3, <1>4, <1>5, <1>6, Zenon
<1> QED
  BY <1>7, <1>8, <1>9, RenderKeeps, Zenon

\* Nothing survives but the session and its page, which asks for its account again.
LEMMA ReloadKeeps == IInv /\ Reload => IInv'
<1> SUFFICES ASSUME IInv, Reload PROVE IInv'
  OBVIOUS
<1> DEFINE asked == [NoQuery EXCEPT !.by = signedIn, !.fresh = FALSE]
<1>1. /\ account \subseteq Users /\ told \subseteq Changes /\ key \in [Keys -> KeyRecords]
      /\ signedIn \in Users \cup {None} /\ page \in Pages /\ (page = "dashboard" => signedIn # None)
  BY Parts DEF IInv
<1>2. /\ me' \in {NoQuery, asked} /\ (page = "dashboard" => me' = asked)
      /\ list' = [o \in Orgs |-> NoQuery] /\ page' \in {page, "login"}
  <2>1. NoQuery.by = None /\ NoQuery.data = None
    BY DEF NoQuery
  <2> QED
    BY <2>1, Zenon DEF Reload, Mounted
<1>3. NoQuery \in Queries /\ NoQuery \in KeyQueries /\ asked \in Queries
      /\ asked.by = signedIn /\ asked.data = None
  BY <1>1 DEF NoQuery, Queries, KeyQueries
<1>4. TypeOK'
  <2>1. /\ UNCHANGED <<account, told, key, signedIn>>
        /\ creating' = None /\ revoking' = None /\ secret' = None
    BY DEF Reload
  <2>2. page' \in Pages /\ (page' = "dashboard" => signedIn' # None)
    BY <1>1, <1>2, <2>1 DEF Pages
  <2>3. /\ form' \in [waits : Users \cup {None}, code : WithCode \cup {None}]
        /\ leaving' \in [Users -> Nat]
    BY DEF Reload, BlankForm
  <2>4. signing' \in [Users -> {"no", "login", "code", "signup"}]
    BY DEF Reload
  <2>5. me' \in Queries /\ list' \in [Orgs -> KeyQueries]
    BY <1>2, <1>3
  <2>6. odd' \in [shadow : BOOLEAN, swapped : BOOLEAN, current : BOOLEAN, failed : BOOLEAN]
    BY DEF Reload, Plain
  <2> QED
    BY <1>1, <2>1, <2>2, <2>3, <2>4, <2>5, <2>6, TypeFromParts
<1>5. CardIInv'
  BY Zenon DEF Reload, CardIInv, CreationIsItsMakers, CardIsStillThere, SecretShownToItsMaker
<1>6. AccountIInv'
  <2>1. page' = "dashboard" => page = "dashboard"
    BY <1>2
  <2>2. page' = "dashboard" => me'.by = signedIn' /\ me'.data = None
    BY <1>2, <1>3, <2>1 DEF Reload
  <2> QED
    BY <2>2, Zenon DEF AccountIInv, AccountWasAskedFor, ForeignAccountHasAnExcuse
<1>7. SignOutIsTheSessions'
  BY DEF Reload, SignOutIsTheSessions
<1>8. ListIInv'
  <2>1. UNCHANGED <<key, told>>
    BY DEF Reload
  <2>2. ToldIsTrue'
    BY <2>1, Zenon DEF IInv, ListIInv, ToldIsTrue
  <2>3. \A o \in Orgs : list'[o].seen = None /\ list'[o].fresh = FALSE
    BY <1>2 DEF NoQuery
  <2>4. \A o \in Orgs : ListGood(list'[o], ToldOf(o)')
    BY <2>3, Zenon DEF ListGood
  <2> QED
    BY <2>2, <2>4, Zenon DEF ListIInv
<1> QED
  BY <1>4, <1>5, <1>6, <1>7, <1>8 DEF IInv

LEMMA SignOutKeeps == IInv /\ SignOut => IInv'
<1> SUFFICES ASSUME IInv, SignOut PROVE IInv'
  OBVIOUS
<1>1. UNCHANGED <<account, key, signedIn, page, form, signing, me, list, creating, revoking,
                  secret, told, odd>>
  BY DEF SignOut
<1>2. /\ leaving \in [Users -> Nat] /\ signedIn \in Users
      /\ leaving' = [leaving EXCEPT ![signedIn] = @ + 1]
  BY Parts DEF SignOut, IInv
<1>3. leaving' \in [Users -> Nat] /\ \A v \in Users : v # signedIn => leaving'[v] = leaving[v]
  BY <1>2
<1>4. TypeOK'
  BY <1>1, <1>3 DEF IInv, TypeOK
<1>5. SignOutIsTheSessions'
  BY <1>1, <1>3, Zenon DEF IInv, SignOutIsTheSessions
<1> QED
  BY <1>1, <1>4, <1>5, CardStays, AccountStays, ListStays, Zenon DEF IInv

-----------------------------------------------------------------------------
(* Steps of the card *)

\* What is left to show of one.
LEMMA CardStepKeeps ==
  ASSUME IInv, UNCHANGED <<account, signedIn, page, form, signing, leaving, me, odd>>,
         key' \in [Keys -> KeyRecords], list' \in [Orgs -> KeyQueries],
         creating' \in Creations \cup {None}, revoking' \in Revocations \cup {None},
         secret' \in Keys \cup {None}, told' \subseteq Changes,
         CardIInv', ListIInv'
  PROVE  IInv'
<1>1. /\ form' \in [waits : Users \cup {None}, code : WithCode \cup {None}]
      /\ odd' \in [shadow : BOOLEAN, swapped : BOOLEAN, current : BOOLEAN, failed : BOOLEAN]
  BY DEF IInv, TypeOK
<1>2. TypeOK'
  BY <1>1, Parts, TypeFromParts DEF IInv
<1> QED
  BY <1>2, AccountStays, SignOutsStay, Zenon DEF IInv

LEMMA MembersAreUsers == \A o \in Orgs : None \notin MembersOf[o]
BY DashboardAssumption

LEMMA ServerShows ==
  ASSUME TypeOK, ToldIsTrue, NEW o \in Orgs
  PROVE  ServerList(o) \in Lists /\ \A c \in ToldOf(o) : Shows(ServerList(o)[c.key], c.to)
<1>1. key \in [Keys -> KeyRecords] /\ told \subseteq Changes
  BY Parts
<1>2. ServerList(o) \in Lists
  BY <1>1 DEF ServerList, Lists, KeyRecords, KeyStates
<1>3. \A c \in ToldOf(o) : c.key \in Keys /\ key[c.key].org = o /\ Shows(key[c.key].state, c.to)
  BY <1>1 DEF ToldOf, ToldIsTrue, Changes
<1>4. \A c \in ToldOf(o) : ServerList(o)[c.key] = key[c.key].state
  BY <1>3 DEF ServerList
<1> QED
  BY <1>2, <1>3, <1>4, Zenon

LEMMA ListSteps ==
  ASSUME IInv, NEW o \in Orgs, ReadList(o) \/ AnswerList(o) \/ FailList(o)
  PROVE  IInv'
<1>1. UNCHANGED <<account, key, signedIn, page, form, signing, leaving, me, creating, revoking,
                  secret, told, odd>>
  BY Zenon DEF ReadList, AnswerList, FailList
<1>2. TypeOK /\ ListIInv /\ ToldIsTrue /\ list[o] \in KeyQueries /\ ListGood(list[o], ToldOf(o))
  BY Parts DEF IInv, ListIInv
<1>3. ToldIsTrue' /\ ToldOf(o)' = ToldOf(o)
  BY <1>1, <1>2, Zenon DEF ToldIsTrue, ToldOf
<1>4. \E l \in KeyQueries : list' = [list EXCEPT ![o] = l] /\ ListGood(l, ToldOf(o))
  <2>1. CASE ReadList(o)
    <3>1. list[o].by # None
      BY <2>1, MembersAreUsers DEF ReadList
    <3>2. list' = [list EXCEPT ![o] = [list[o] EXCEPT !.seen = ServerList(o)]]
      BY <2>1 DEF ReadList
    <3> QED
      BY <3>1, <3>2, <1>2, ServerShows, ReadListGood
  <2>2. CASE AnswerList(o)
    <3>1. list[o].seen # None /\ list' = [list EXCEPT ![o] = Arrived(list[o], list[o].seen)]
      BY <2>2 DEF AnswerList
    <3> QED
      BY <3>1, <1>2, ArrivedListGood
  <2>3. CASE FailList(o)
    <3>1. list[o].by # None /\ list' = [list EXCEPT ![o] = Stopped(list[o])]
      BY <2>3 DEF FailList
    <3> QED
      BY <3>1, <1>2, StoppedListGood
  <2> QED
    BY <2>1, <2>2, <2>3
<1>5. list' \in [Orgs -> KeyQueries] /\ ListIInv'
  BY <1>1, <1>2, <1>3, <1>4, ListsGood
<1>6. CardIInv'
  BY <1>1, CardStays, Zenon DEF IInv
<1>7. /\ key' \in [Keys -> KeyRecords] /\ creating' \in Creations \cup {None}
      /\ revoking' \in Revocations \cup {None}
      /\ secret' \in Keys \cup {None} /\ told' \subseteq Changes
  BY <1>1, <1>2, Parts
<1> QED
  BY <1>1, <1>5, <1>6, <1>7, CardStepKeeps

\* Online again, what is on the page may be asked for.
LEMMA ReconnectKeeps ==
  ASSUME IInv, Reconnect
  PROVE  IInv'
<1>1. UNCHANGED <<account, key, signedIn, page, form, signing, leaving, creating, revoking,
                  secret, told, odd>>
  BY DEF Reconnect
<1>2. TypeOK /\ CardIInv /\ ListIInv /\ AccountIInv /\ SignOutIsTheSessions
  BY DEF IInv
<1>3. /\ me \in Queries /\ list \in [Orgs -> KeyQueries] /\ key \in [Keys -> KeyRecords]
      /\ signedIn \in Users /\ signedIn # None
      /\ told \subseteq Changes /\ account \subseteq Users
  BY <1>2, Parts DEF Reconnect
<1>4. PICK aged \in BOOLEAN : me' = Mounted(me, signedIn, aged)
  BY DEF Reconnect
<1>5. /\ me' \in Queries /\ me'.data = me.data
      /\ me'.by = me.by \/ me'.by = signedIn
  BY <1>3, <1>4 DEF Mounted, Queries
<1>6. ToldIsTrue' /\ \A o \in Orgs : ToldOf(o)' = ToldOf(o)
  BY <1>1, <1>2 DEF ListIInv, ToldIsTrue, ToldOf
<1>7. list' \in [Orgs -> KeyQueries] /\ ListIInv'
  <2>1. CASE list' = list
    BY <1>1, <1>2, <1>3, <2>1, ListStays, Zenon
  <2>2. CASE list' # list
    <3>1. PICK old \in BOOLEAN : Card # None /\ list' = [list EXCEPT ![Card] = Mounted(@, signedIn, old)]
      BY <2>2 DEF Reconnect
    <3>2. Card \in Orgs
      <4>1. me.data \in Users \cup {None}
        BY <1>3 DEF Queries
      <4> QED
        BY <4>1, <3>1, DashboardAssumption DEF Card, CardOf
    <3>3. list[Card] \in KeyQueries /\ ListGood(list[Card], ToldOf(Card))
      BY <1>2, <1>3, <3>2 DEF ListIInv
    <3>4. /\ Mounted(list[Card], signedIn, old) \in KeyQueries
          /\ ListGood(Mounted(list[Card], signedIn, old), ToldOf(Card))
      BY <1>3, <3>3, MountedList
    <3>5. PICK o \in Orgs : o = Card
      BY <3>2
    <3>6. list' = [list EXCEPT ![o] = Mounted(list[o], signedIn, old)]
      BY <3>1, <3>5
    <3>7. /\ Mounted(list[o], signedIn, old) \in KeyQueries
          /\ ListGood(Mounted(list[o], signedIn, old), ToldOf(o)')
      BY <3>4, <3>5, <1>6, Zenon
    <3>8. \A c \in told' : c \in told \/ key[c.key].org = o
      BY <1>1
    <3> QED
      BY <1>1, <1>2, <1>6, <3>6, <3>7, <3>8, ListsGood
  <2> QED
    BY <2>1, <2>2
<1>8. Card' = Card
  BY <1>1, <1>5 DEF Card, CardOf
<1>9. CardIInv'
  BY <1>1, <1>2, <1>8, Zenon DEF CardIInv, CreationIsItsMakers, CardIsStillThere, SecretShownToItsMaker
<1>10. AccountIInv'
  <2>1. CASE me'.by = me.by
    BY <1>1, <1>2, <1>5, <2>1, Zenon DEF AccountIInv, AccountWasAskedFor, ForeignAccountHasAnExcuse
  <2>2. CASE me'.by = signedIn
    BY <1>1, <1>3, <2>2, Zenon DEF AccountIInv, AccountWasAskedFor, ForeignAccountHasAnExcuse
  <2> QED
    BY <1>5, <2>1, <2>2
<1>11. TypeOK'
  <2>1. /\ form' \in [waits : Users \cup {None}, code : WithCode \cup {None}]
        /\ odd' \in [shadow : BOOLEAN, swapped : BOOLEAN, current : BOOLEAN, failed : BOOLEAN]
    BY <1>1, <1>2 DEF TypeOK
  <2> QED
    BY <1>1, <1>2, <1>5, <1>7, <2>1, Parts, TypeFromParts
<1> QED
  BY <1>1, <1>2, <1>7, <1>9, <1>10, <1>11, SignOutsStay, Zenon DEF IInv

LEMMA CardIsAnOrganization ==
  TypeOK => Card \in Orgs \cup {None} /\ (Card # None => signedIn \in Users /\ signedIn # None)
<1> SUFFICES ASSUME TypeOK
             PROVE  Card \in Orgs \cup {None} /\ (Card # None => signedIn \in Users /\ signedIn # None)
  OBVIOUS
<1>1. me \in Queries /\ signedIn \in Users \cup {None} /\ (page = "dashboard" => signedIn # None)
  BY Parts
<1>2. me.data \in Users \cup {None}
  BY <1>1 DEF Queries
<1> QED
  BY <1>1, <1>2, DashboardAssumption DEF Card, CardOf

\* Steps that leave the keys, the lists and what was told of them alone.
LEMMA FormOfCardSteps ==
  ASSUME IInv, SubmitKey \/ CreateFails \/ (\E k \in Keys : SubmitRevoke(k)) \/ RevokeFails
  PROVE  IInv'
<1>1. UNCHANGED <<account, key, signedIn, page, form, signing, leaving, me, list, secret, told, odd>>
  BY Zenon DEF SubmitKey, CreateFails, SubmitRevoke, RevokeFails
<1>2. TypeOK /\ CardIInv /\ ListIInv
  BY Zenon DEF IInv
<1>3. Card # None => signedIn \in Users /\ Card \in Orgs
  BY <1>2, CardIsAnOrganization
<1>4. creating' \in Creations \cup {None}
  <2>1. CASE SubmitKey
    BY <2>1, <1>3 DEF SubmitKey, Creations
  <2>2. CASE CreateFails
    BY <2>2 DEF CreateFails
  <2>3. CASE creating' = creating
    BY <2>3, <1>2, Parts
  <2> QED
    BY <2>1, <2>2, <2>3 DEF SubmitRevoke, RevokeFails
<1>5. revoking' \in Revocations \cup {None}
  <2>1. CASE \E k \in Keys : SubmitRevoke(k)
    BY <2>1, <1>3 DEF SubmitRevoke, Revocations
  <2>2. CASE RevokeFails
    BY <2>2 DEF RevokeFails
  <2>3. CASE revoking' = revoking
    BY <2>3, <1>2, Parts
  <2> QED
    BY <2>1, <2>2, <2>3 DEF SubmitKey, CreateFails
<1>6. Card' = Card
  BY <1>1 DEF Card, CardOf
<1>7. SecretShownToItsMaker'
  BY <1>1, <1>2, <1>6, Zenon DEF CardIInv, SecretShownToItsMaker
<1>8. CreationIsItsMakers' /\ CardIsStillThere'
  <2>1. CASE SubmitKey
    <3>1. Card # None /\ creating'.by = signedIn /\ creating'.key = None
      BY <2>1 DEF SubmitKey
    <3> QED
      BY <1>1, <1>6, <3>1, Zenon DEF CreationIsItsMakers, CardIsStillThere
  <2>2. CASE CreateFails
    BY <2>2, Zenon DEF CreateFails, CreationIsItsMakers, CardIsStillThere
  <2>3. CASE creating' = creating
    BY <1>1, <1>2, <1>6, <2>3, Zenon DEF CardIInv, CreationIsItsMakers, CardIsStillThere
  <2> QED
    BY <2>1, <2>2, <2>3 DEF SubmitRevoke, RevokeFails
<1>9. ListIInv'
  BY <1>1, <1>2, ListStays, Zenon
<1>10. /\ key' \in [Keys -> KeyRecords] /\ list' \in [Orgs -> KeyQueries]
       /\ secret' \in Keys \cup {None} /\ told' \subseteq Changes
  BY <1>1, <1>2, Parts
<1>11. CardIInv'
  BY <1>7, <1>8 DEF CardIInv
<1> QED
  BY <1>1, <1>4, <1>5, <1>9, <1>10, <1>11, CardStepKeeps

\* A key changes under lists that stay: no change the tab was told of is undone, and no
\* key it was told of changes hands.
LEMMA ListsOutliveKeys ==
  ASSUME TypeOK, ListIInv, UNCHANGED <<list, told>>,
         \A c \in told : key'[c.key].org = key[c.key].org /\ Shows(key'[c.key].state, c.to)
  PROVE  ListIInv'
<1>1. ToldIsTrue'
  BY Zenon DEF ListIInv, ToldIsTrue
<1>2. \A o \in Orgs : ToldOf(o)' = ToldOf(o)
  BY DEF ToldOf
<1> QED
  BY <1>1, <1>2, Zenon DEF ListIInv

LEMMA ToldKeys ==
  ASSUME TypeOK, ListIInv, NEW c \in told
  PROVE  c.key \in Keys /\ Shows(key[c.key].state, c.to)
BY DEF TypeOK, Changes, ListIInv, ToldIsTrue

LEMMA ServerCreatesKeeps ==
  ASSUME IInv, NEW k \in Keys, ServerCreates(k)
  PROVE  IInv'
<1> DEFINE r == [state |-> "live", maker |-> creating.by, org |-> creating.org]
<1>1. /\ UNCHANGED <<account, signedIn, page, form, signing, leaving, me, list, revoking, secret,
                     told, odd>>
      /\ creating # None /\ key[k].state = "absent" /\ key' = [key EXCEPT ![k] = r]
      /\ creating' = [creating EXCEPT !.key = k]
  BY DEF ServerCreates
<1>2. TypeOK /\ CardIInv /\ ListIInv
  BY Zenon DEF IInv
<1>3. creating \in Creations /\ key \in [Keys -> KeyRecords]
  BY <1>1, <1>2, Parts
<1>4. /\ r \in KeyRecords
      /\ r.state = "live" /\ r.maker = creating.by /\ r.org = creating.org
  BY <1>3 DEF Creations, KeyRecords, KeyStates
<1> HIDE DEF r
<1>5. key' \in [Keys -> KeyRecords] /\ key'[k] = r /\ (\A j \in Keys : j # k => key'[j] = key[j])
  BY <1>1, <1>3, <1>4
<1>6. /\ creating' \in Creations /\ creating'.by = creating.by /\ creating'.org = creating.org
      /\ creating'.key = k /\ creating'.here = creating.here
  BY <1>1, <1>3 DEF Creations
<1>7. CreationIsItsMakers'
  <2>1. key'[k].state = "live" /\ key'[k].maker = creating.by /\ key'[k].org = creating.org
    BY <1>4, <1>5
  <2> QED
    BY <2>1, <1>6 DEF CreationIsItsMakers
<1>8. Card' = Card
  BY <1>1 DEF Card, CardOf
<1>9. CardIsStillThere'
  BY <1>1, <1>2, <1>6, <1>8, Zenon DEF CardIInv, CardIsStillThere
<1>10. SecretShownToItsMaker'
  <2> SUFFICES ASSUME secret # None
               PROVE  key'[secret] = key[secret]
    BY <1>1, <1>2, <1>8, Zenon DEF CardIInv, SecretShownToItsMaker
  <2>1. secret \in Keys /\ secret # k
    BY <1>1, <1>2, Zenon DEF TypeOK, CardIInv, SecretShownToItsMaker
  <2> QED
    BY <2>1, <1>5
<1>11. ListIInv'
  <2>1. ASSUME NEW c \in told
        PROVE  key'[c.key].org = key[c.key].org /\ Shows(key'[c.key].state, c.to)
    <3>1. c.key \in Keys /\ Shows(key[c.key].state, c.to)
      BY <1>2, ToldKeys
    <3>2. c.key # k
      BY <3>1, <1>1 DEF Shows
    <3> QED
      BY <3>1, <3>2, <1>5
  <2> QED
    BY <1>1, <1>2, <2>1, ListsOutliveKeys
<1>12. CardIInv'
  BY <1>7, <1>9, <1>10 DEF CardIInv
<1>13. /\ list' \in [Orgs -> KeyQueries] /\ revoking' \in Revocations \cup {None}
       /\ secret' \in Keys \cup {None} /\ told' \subseteq Changes
  BY <1>1, <1>2, Parts
<1> QED
  BY <1>1, <1>5, <1>6, <1>11, <1>12, <1>13, CardStepKeeps

LEMMA ServerRevokesKeeps ==
  ASSUME IInv, ServerRevokes
  PROVE  IInv'
<1> DEFINE k == revoking.key
           r == [key[k] EXCEPT !.state = "revoked"]
<1>1. /\ UNCHANGED <<account, signedIn, page, form, signing, leaving, me, list, creating, revoking,
                     secret, told, odd>>
      /\ revoking # None /\ key' = [key EXCEPT ![k] = r]
  BY DEF ServerRevokes
<1>2. TypeOK /\ CardIInv /\ ListIInv
  BY Zenon DEF IInv
<1>3. k \in Keys /\ key \in [Keys -> KeyRecords]
  BY <1>1, <1>2, Parts DEF Revocations
<1>4. /\ r \in KeyRecords
      /\ r.state = "revoked" /\ r.maker = key[k].maker /\ r.org = key[k].org
  <2>1. key[k] \in KeyRecords
    BY <1>3
  <2> QED
    BY <2>1 DEF KeyRecords, KeyStates
<1> HIDE DEF k, r
<1>5. key' \in [Keys -> KeyRecords] /\ key'[k] = r /\ (\A j \in Keys : j # k => key'[j] = key[j])
  BY <1>1, <1>3, <1>4
<1>6. \A j \in Keys : /\ key'[j].maker = key[j].maker /\ key'[j].org = key[j].org
                      /\ key[j].state # "absent" => key'[j].state # "absent"
                      /\ key'[j].state \in {key[j].state, "revoked"}
  BY <1>4, <1>5
<1>7. Card' = Card
  BY <1>1 DEF Card, CardOf
<1>8. CreationIsItsMakers'
  <2> SUFFICES ASSUME creating # None, creating.key # None
               PROVE  /\ key'[creating.key].state # "absent"
                      /\ key'[creating.key].maker = creating.by /\ key'[creating.key].org = creating.org
    BY <1>1, Zenon DEF CreationIsItsMakers
  <2>1. creating.key \in Keys
    BY <1>2, Parts DEF Creations
  <2> QED
    BY <2>1, <1>2, <1>6, Zenon DEF CardIInv, CreationIsItsMakers
<1>9. CardIsStillThere'
  BY <1>1, <1>2, <1>7, Zenon DEF CardIInv, CardIsStillThere
<1>10. SecretShownToItsMaker'
  <2>1. secret # None => secret \in Keys
    BY <1>2 DEF TypeOK
  <2> QED
    BY <2>1, <1>1, <1>2, <1>6, <1>7, Zenon DEF CardIInv, SecretShownToItsMaker
<1>11. ListIInv'
  <2>1. ASSUME NEW c \in told
        PROVE  key'[c.key].org = key[c.key].org /\ Shows(key'[c.key].state, c.to)
    <3>1. c.key \in Keys /\ Shows(key[c.key].state, c.to)
      BY <1>2, ToldKeys
    <3> QED
      BY <3>1, <1>6 DEF Shows
  <2> QED
    BY <1>1, <1>2, <2>1, ListsOutliveKeys
<1>12. CardIInv'
  BY <1>8, <1>9, <1>10 DEF CardIInv
<1>13. /\ list' \in [Orgs -> KeyQueries] /\ revoking' \in Revocations \cup {None}
       /\ creating' \in Creations \cup {None}
       /\ secret' \in Keys \cup {None} /\ told' \subseteq Changes
  BY <1>1, <1>2, Parts
<1> QED
  BY <1>1, <1>5, <1>11, <1>12, <1>13, CardStepKeeps

\* Asking again discards what the fetch under way has read; a fetch that cannot be
\* replaced is not told of the change, and neither counts as fresh.  A list that is only
\* marked, for a key of another organization, is told of nothing.
LEMMA Invalidated ==
  ASSUME TypeOK, ListIInv, UNCHANGED key, NEW o \in Orgs, list' = InvalidateList(o),
         told' = told \/
           \E k \in Keys, to \in {"live", "revoked"} :
             key[k].org = o /\ Shows(key[k].state, to) /\ told' = Told(o, k, to)
  PROVE  list' \in [Orgs -> KeyQueries] /\ told' \subseteq Changes /\ ListIInv'
<1>1. told \subseteq Changes /\ list[o] \in KeyQueries /\ ListGood(list[o], ToldOf(o))
  BY Parts DEF ListIInv
<1>2. /\ told \subseteq told' /\ (CannotAskAgain(o) => told' = told)
      /\ told' \subseteq Changes
      /\ \A c \in told' : c \in told \/ (key[c.key].org = o /\ Shows(key[c.key].state, c.to))
  <2>1. CASE told' = told
    BY <2>1, <1>1
  <2>2. CASE told' # told
    <3>1. PICK k \in Keys, to \in {"live", "revoked"} :
            key[k].org = o /\ Shows(key[k].state, to) /\ told' = Told(o, k, to)
      BY <2>2
    <3>2. ~CannotAskAgain(o) /\ told' = told \cup {[key |-> k, to |-> to]}
      BY <2>2, <3>1, Zenon DEF Told
    <3>3. [key |-> k, to |-> to] \in Changes
      BY DEF Changes
    <3> QED
      BY <1>1, <3>1, <3>2, <3>3
  <2> QED
    BY <2>1, <2>2
<1>3. ToldIsTrue'
  BY <1>2, Zenon DEF ListIInv, ToldIsTrue
<1>4. CASE Card = o /\ ~CannotAskAgain(o)
  <2> DEFINE l == [list[o] EXCEPT !.fresh = FALSE, !.by = signedIn, !.seen = None]
  <2>1. list' = [list EXCEPT ![o] = l]
    BY <1>4 DEF InvalidateList
  <2>2. signedIn \in Users /\ signedIn # None
    BY <1>4, CardIsAnOrganization, DashboardAssumption
  <2>3. l \in KeyQueries /\ ListGood(l, ToldOf(o)')
    BY <1>1, <2>2, AskedAgainListGood
  <2> HIDE DEF l
  <2> QED
    BY <1>2, <1>3, <2>1, <2>3, ListsGood, Zenon
<1>5. CASE ~(Card = o /\ ~CannotAskAgain(o))
  <2> DEFINE l == [list[o] EXCEPT !.fresh = FALSE]
  <2>1. list' = [list EXCEPT ![o] = l]
    BY <1>5 DEF InvalidateList
  <2>2. ToldOf(o)' = ToldOf(o) \/ list[o].by = None
    <3>1. CASE CannotAskAgain(o)
      BY <3>1, <1>2, Zenon DEF ToldOf
    <3>2. CASE ~CannotAskAgain(o)
      BY <1>5, <3>2, Zenon DEF CannotAskAgain
    <3> QED
      BY <3>1, <3>2
  <2>3. l \in KeyQueries /\ ListGood(l, ToldOf(o)')
    BY <1>1, <2>2, MarkedListGood
  <2> HIDE DEF l
  <2> QED
    BY <1>2, <1>3, <2>1, <2>3, ListsGood, Zenon
<1> QED
  BY <1>4, <1>5

LEMMA KeyCreatedKeeps ==
  ASSUME IInv, KeyCreated
  PROVE  IInv'
<1>1. /\ creating # None /\ creating.key # None
      /\ secret' = IF creating.here THEN creating.key ELSE secret
      /\ list' = InvalidateList(creating.org)
      /\ told' = Told(creating.org, creating.key, "live") /\ creating' = None
      /\ UNCHANGED <<account, key, signedIn, page, form, signing, leaving, me, revoking, odd>>
  BY DEF KeyCreated
<1>2. TypeOK /\ CardIInv /\ ListIInv
  BY Zenon DEF IInv
<1>3. creating \in Creations /\ key \in [Keys -> KeyRecords]
  BY <1>1, <1>2, Parts
<1>4. creating.key \in Keys /\ creating.org \in Orgs
  BY <1>1, <1>3 DEF Creations
<1>5. /\ key[creating.key].state # "absent" /\ key[creating.key].maker = creating.by
      /\ key[creating.key].org = creating.org
  BY <1>1, <1>2, Zenon DEF CardIInv, CreationIsItsMakers
<1>6. Shows(key[creating.key].state, "live")
  <2>1. key[creating.key].state \in KeyStates
    BY <1>3, <1>4 DEF KeyRecords
  <2> QED
    BY <1>5, <2>1 DEF Shows, KeyStates
<1>7. list' \in [Orgs -> KeyQueries] /\ told' \subseteq Changes /\ ListIInv'
  BY <1>1, <1>2, <1>4, <1>5, <1>6, Invalidated
<1>8. Card' = Card
  BY <1>1 DEF Card, CardOf
<1>9. SecretShownToItsMaker'
  <2>1. CASE creating.here
    <3>1. Card # None /\ (creating.by = signedIn \/ odd.swapped)
      BY <2>1, <1>1, <1>2, Zenon DEF CardIInv, CardIsStillThere
    <3>2. secret' = creating.key
      BY <2>1, <1>1
    <3> QED
      BY <3>1, <3>2, <1>1, <1>5, <1>8, Zenon DEF SecretShownToItsMaker
  <2>2. CASE ~creating.here
    <3>1. secret' = secret
      BY <2>2, <1>1
    <3> QED
      BY <3>1, <1>1, <1>2, <1>8, Zenon DEF CardIInv, SecretShownToItsMaker
  <2> QED
    BY <2>1, <2>2
<1>10. CardIInv'
  BY <1>1, <1>9, Zenon DEF CardIInv, CreationIsItsMakers, CardIsStillThere
<1>11. secret' \in Keys \cup {None}
  BY <1>1, <1>2, <1>4, Parts
<1>12. /\ key' \in [Keys -> KeyRecords] /\ creating' \in Creations \cup {None}
       /\ revoking' \in Revocations \cup {None}
  BY <1>1, <1>2, Parts
<1> QED
  BY <1>1, <1>7, <1>10, <1>11, <1>12, CardStepKeeps

LEMMA KeyRevokedKeeps ==
  ASSUME IInv, KeyRevoked
  PROVE  IInv'
<1>1. /\ revoking # None /\ key[revoking.key].state = "revoked"
      /\ list' = InvalidateList(revoking.tells)
      /\ told' = IF revoking.tells = key[revoking.key].org
                 THEN Told(revoking.tells, revoking.key, "revoked") ELSE told
      /\ revoking' = None
      /\ UNCHANGED <<account, key, signedIn, page, form, signing, leaving, me, creating, secret, odd>>
  BY DEF KeyRevoked
<1>2. TypeOK /\ CardIInv /\ ListIInv
  BY Zenon DEF IInv
<1>3. revoking.key \in Keys /\ revoking.tells \in Orgs
  BY <1>1, <1>2, Parts DEF Revocations
<1>4. Shows(key[revoking.key].state, "revoked")
  BY <1>1 DEF Shows
<1>5. list' \in [Orgs -> KeyQueries] /\ told' \subseteq Changes /\ ListIInv'
  BY <1>1, <1>2, <1>3, <1>4, Invalidated
<1>6. CardIInv'
  BY <1>1, <1>2, CardStays, Zenon
<1>7. /\ key' \in [Keys -> KeyRecords] /\ creating' \in Creations \cup {None}
      /\ revoking' \in Revocations \cup {None} /\ secret' \in Keys \cup {None}
  BY <1>1, <1>2, Parts
<1> QED
  BY <1>1, <1>5, <1>6, <1>7, CardStepKeeps

-----------------------------------------------------------------------------
(* The invariant, and what follows from it *)

LEMMA InitIInv == Init => IInv
<1> SUFFICES ASSUME Init PROVE IInv
  OBVIOUS
<1>1. NoQuery \in Queries /\ NoQuery \in KeyQueries
      /\ NoQuery.by = None /\ NoQuery.seen = None /\ NoQuery.fresh = FALSE
  BY DEF NoQuery, Queries, KeyQueries
<1>2. TypeOK
  <2>1. /\ account \subseteq Users /\ told \subseteq Changes
        /\ signedIn \in Users \cup {None} /\ page \in Pages /\ page # "dashboard"
        /\ creating = None /\ revoking = None /\ secret = None
    BY DashboardAssumption DEF Init, Pages
  <2>2. /\ key \in [Keys -> KeyRecords]
        /\ signing \in [Users -> {"no", "login", "code", "signup"}]
        /\ leaving \in [Users -> Nat]
    BY DEF Init, KeyStates, KeyRecords
  <2>3. form \in [waits : Users \cup {None}, code : WithCode \cup {None}]
    BY DEF Init, BlankForm
  <2>4. me \in Queries /\ list \in [Orgs -> KeyQueries]
    BY <1>1 DEF Init
  <2>5. odd \in [shadow : BOOLEAN, swapped : BOOLEAN, current : BOOLEAN, failed : BOOLEAN]
    BY DEF Init, Plain
  <2> QED
    BY <2>1, <2>2, <2>3, <2>4, <2>5, Zenon DEF TypeOK, KeyRecords, Queries, KeyQueries
<1>3. CardIInv
  BY DEF Init, CardIInv, CreationIsItsMakers, CardIsStillThere, SecretShownToItsMaker
<1>4. AccountIInv /\ SignOutIsTheSessions
  BY DEF Init, AccountIInv, AccountWasAskedFor, ForeignAccountHasAnExcuse, SignOutIsTheSessions
<1>5. ListIInv
  <2>1. told = {} /\ \A o \in Orgs : list[o] = NoQuery
    BY DEF Init
  <2>2. ToldIsTrue
    BY <2>1 DEF ToldIsTrue
  <2>3. \A o \in Orgs : ListGood(list[o], ToldOf(o))
    BY <1>1, <2>1, Zenon DEF ListGood
  <2> QED
    BY <2>2, <2>3 DEF ListIInv
<1> QED
  BY <1>2, <1>3, <1>4, <1>5 DEF IInv

LEMMA NextIInv == IInv /\ [Next]_vars => IInv'
<1> SUFFICES ASSUME IInv, [Next]_vars PROVE IInv'
  OBVIOUS
<1>1. CASE \E u \in Users : SubmitLogin(u) \/ SubmitSignup(u) \/ CodeAsked(u) \/ SignInFails(u)
  BY <1>1, FormSteps, Zenon
<1>2. CASE \/ \E p \in Pages : FollowLink(p) \/ GoBack(p)
           \/ \E u \in Users : LoginSucceeds(u) \/ SignupSucceeds(u) \/ ClearSession(u)
           \/ AnswerMe \/ FailMe
  BY <1>2, RenderingSteps, Zenon
<1>3. CASE Reload
  BY <1>3, ReloadKeeps
<1>4. CASE SignOut
  BY <1>4, SignOutKeeps
<1>5. CASE Reconnect
  BY <1>5, ReconnectKeeps
<1>6. CASE \E o \in Orgs : ReadList(o) \/ AnswerList(o) \/ FailList(o)
  BY <1>6, ListSteps
<1>7. CASE SubmitKey \/ CreateFails \/ (\E k \in Keys : SubmitRevoke(k)) \/ RevokeFails
  BY <1>7, FormOfCardSteps
<1>8. CASE \E k \in Keys : ServerCreates(k)
  BY <1>8, ServerCreatesKeeps
<1>9. CASE ServerRevokes
  BY <1>9, ServerRevokesKeeps
<1>10. CASE KeyCreated
  BY <1>10, KeyCreatedKeeps
<1>11. CASE KeyRevoked
  BY <1>11, KeyRevokedKeeps
<1>12. CASE UNCHANGED vars
  <2>1. UNCHANGED <<key, signedIn, page, leaving, me, list, creating, revoking, secret, told, odd>>
        /\ UNCHANGED <<account, form, signing>>
    BY <1>12 DEF vars
  <2>2. /\ account' \subseteq Users
        /\ form' \in [waits : Users \cup {None}, code : WithCode \cup {None}]
        /\ signing' \in [Users -> {"no", "login", "code", "signup"}]
    BY <2>1 DEF IInv, TypeOK
  <2> QED
    BY <2>1, <2>2, FormKeeps
<1> QED
  BY <1>1, <1>2, <1>3, <1>4, <1>5, <1>6, <1>7, <1>8, <1>9, <1>10, <1>11, <1>12, Zenon
  DEF Next, SessionStep, CardStep

LEMMA AlwaysIInv == Spec => []IInv
<1>1. Init => IInv
  BY InitIInv
<1>2. IInv /\ [Next]_vars => IInv'
  BY NextIInv
<1> QED
  BY <1>1, <1>2, PTL DEF Spec

\* Whatever the tab is doing, its state is of the store's, the queries' and the forms' types.
THEOREM DashboardTypeCorrect == Spec => []TypeOK
<1>1. IInv => TypeOK
  BY DEF IInv
<1> QED
  BY <1>1, AlwaysIInv, PTL

\* The card shows the secret of a key only in the session of the user who made the key,
\* whatever organization it has come to show, unless another sign-in was answered under
\* the open dashboard.
THEOREM SecretsStayWithTheirMakers == Spec => []SecretShownToItsMaker
<1>1. IInv => SecretShownToItsMaker
  BY DEF IInv, CardIInv
<1> QED
  BY <1>1, AlwaysIInv, PTL

\* An account that is not the session's is on the dashboard only if it was cached or on
\* its way when the dashboard was opened, if the session changed under it, or while its
\* replacement is on its way or after that failed.
THEOREM ForeignAccountsAreExcused == Spec => []ForeignAccountHasAnExcuse
<1>1. IInv => ForeignAccountHasAnExcuse
  BY DEF IInv, AccountIInv
<1> QED
  BY <1>1, AlwaysIInv, PTL

\* A list of keys that counts as fresh has the creations and revocations the tab was told
\* of and could ask again for, however its fetches and those answers overtook each other.
THEOREM FreshListsAreComplete == Spec => []ListShowsOwnChanges
<1>1. IInv => ListShowsOwnChanges
  <2> SUFFICES ASSUME IInv, NEW c \in told,
                      LET l == list[key[c.key].org] IN l.data # None /\ l.fresh /\ l.by = None
               PROVE  Shows(list[key[c.key].org].data[c.key], c.to)
    BY Zenon DEF ListShowsOwnChanges, Shows
  <2> DEFINE o == key[c.key].org
  <2>1. o \in Orgs /\ c \in ToldOf(o)
    BY DEF IInv, ListIInv, ToldIsTrue, ToldOf
  <2> HIDE DEF o
  <2>2. ListGood(list[o], ToldOf(o)) /\ list[o].fresh
    BY <2>1 DEF IInv, ListIInv, o
  <2> QED
    BY <2>1, <2>2, Zenon DEF ListGood, o
<1> QED
  BY <1>1, AlwaysIInv, PTL

\* A session is cleared only by a sign-out of its own user, or by one that was under way
\* when the session began.
THEOREM SessionsOutliveOtherSignOuts == Spec => SessionOutlivesOtherSignOuts
<1>1. IInv /\ [Next]_vars =>
        [signedIn # None /\ signedIn' = None => leaving[signedIn] > 0 \/ odd.shadow]_signedIn
  <2> SUFFICES ASSUME IInv, [Next]_vars, signedIn # None, signedIn' = None
               PROVE  leaving[signedIn] > 0 \/ odd.shadow
    BY Zenon
  <2>1. \E u \in Users : ClearSession(u)
    <3>1. None \notin Users
      BY DashboardAssumption
    <3>2. \A u, p, q : Render(u, p, q) => signedIn' = u
      BY RenderEffects, Zenon DEF Effects
    <3>3. CardStep => signedIn' = signedIn
      BY CardLeavesSession
    <3>4. CASE UNCHANGED vars
      BY <3>4 DEF vars
    <3>5. CASE SessionStep
      <4>1. signedIn' = signedIn => FALSE
        OBVIOUS
      <4>2. \A p \in Pages : ~FollowLink(p) /\ ~GoBack(p)
        BY <3>2, <4>1, Zenon DEF FollowLink, GoBack
      <4>3. \A u \in Users : ~LoginSucceeds(u) /\ ~SignupSucceeds(u)
        <5>1. \A u \in Users : ~SetSession(u)
          BY <3>1, <3>2 DEF SetSession
        <5> QED
          BY <5>1 DEF LoginSucceeds, SignupSucceeds
      <4>4. ~AnswerMe /\ ~FailMe
        BY <3>2, <4>1, Zenon DEF AnswerMe, FailMe
      <4>5. \A u \in Users : ~SubmitLogin(u) /\ ~SubmitSignup(u) /\ ~CodeAsked(u) /\ ~SignInFails(u)
        BY <4>1, Zenon DEF SubmitLogin, SubmitSignup, CodeAsked, SignInFails
      <4>6. ~Reload /\ ~SignOut
        BY <4>1, Zenon DEF Reload, SignOut
      <4> QED
        BY <3>5, <4>2, <4>3, <4>4, <4>5, <4>6, Zenon DEF SessionStep
    <3> QED
      BY <3>3, <3>4, <3>5 DEF Next
  <2>2. PICK u \in Users : leaving[u] > 0
    BY <2>1 DEF ClearSession
  <2>3. odd.shadow \/ u = signedIn
    BY <2>2, Zenon DEF IInv, SignOutIsTheSessions
  <2> QED
    BY <2>2, <2>3, Zenon
<1> QED
  BY <1>1, AlwaysIInv, PTL DEF Spec, SessionOutlivesOtherSignOuts
=============================================================================
