---------------------------- MODULE SessionsProofs ----------------------------
(***************************************************************************)
(* Theorems about Sessions, for any number of sessions, links, codes and   *)
(* concurrent requests, and at the end about FirstSignIn.                  *)
(***************************************************************************)
EXTENDS Sessions, TLAPS

\* k has opened a session, or is about to.
Served(k) ==
  \/ \E r \in Requests : req[r].pc = "open" /\ req[r].from = k
  \/ \E s \in SessionRows : Opened(s) /\ origin[s] = k

ServedWereSpent == \A k \in Credentials : Served(k) => cred[k] \in {"spent", "deleted"}

\* A check that nobody has overtaken is still right, but for the clock and a new set of codes.
UnracedChecksHold ==
  \A r \in Requests, k \in Credentials :
    req[r].pc = "spend" /\ req[r].from = k =>
      /\ cred[k] \notin {"none", "placeholder"}
      /\ req[r].raced = FALSE => ~Served(k) /\ cred[k] # "spent"

\* The hash is stored by the request that opened the session, and by no other.
SignersOwnTheirRow ==
  \A r \in Requests :
    req[r].pc = "sign" =>
      /\ cred[req[r].session] = "placeholder"
      /\ \A q \in Requests \ {r} : req[q].pc = "sign" => req[q].session # req[r].session

\* A request that will open an unraced session with k.
Serves(r, k) == req[r].pc = "open" /\ req[r].from = k /\ req[r].raced = FALSE

ServedByOne ==
  \A k \in Credentials :
    /\ \A r, q \in Requests : Serves(r, k) /\ Serves(q, k) => r = q
    /\ \A s, t \in SessionRows \ raced :
         Opened(s) /\ Opened(t) /\ origin[s] = k /\ origin[t] = k => s = t
    /\ \A r \in Requests, s \in SessionRows \ raced :
         Serves(r, k) => ~(Opened(s) /\ origin[s] = k)

LinesExist ==
  /\ \A s \in SessionRows : Opened(s) => Opened(line[s])
  /\ \A s \in loggedOut : Opened(s)

\* Between its two statements a rotation carries the line on, without a live session.
Carries(r, x) == req[r].pc = "open" /\ req[r].from \in SessionRows
                   /\ line[req[r].from] = x /\ req[r].raced = FALSE

OneHeirPerLine ==
  \A x \in SessionRows :
    InLine(x) \cap raced = {} =>
      /\ \A s, t \in InLine(x) : Live(s) /\ Live(t) => s = t
      /\ \A r, q \in Requests : Carries(r, x) /\ Carries(q, x) => r = q
      /\ \A r \in Requests : Carries(r, x) => \A s \in InLine(x) : ~Live(s)
      /\ InLine(x) \cap loggedOut # {} =>
           /\ \A s \in InLine(x) : ~Live(s)
           /\ \A r \in Requests : ~Carries(r, x)

IInv ==
  /\ TypeOK
  /\ ServedWereSpent
  /\ UnracedChecksHold
  /\ SignersOwnTheirRow
  /\ ServedByOne
  /\ LinesExist
  /\ OneHeirPerLine

-----------------------------------------------------------------------------
(* Lemmas *)

\* Where a request stands says which record it is.
LEMMA RequestRecords ==
  ASSUME TypeOK, NEW r \in Requests
  PROVE  /\ req[r] \in Request
         /\ req[r].pc = "spend" =>
              /\ req[r] \in [pc : {"spend"}, from : Credentials, raced : BOOLEAN]
              /\ req[r].from \in Credentials /\ req[r].raced \in BOOLEAN
         /\ req[r].pc = "open" =>
              /\ req[r] \in [pc : {"open"}, from : Credentials \cup {SignIn}, raced : BOOLEAN]
              /\ req[r].from \in Credentials \cup {SignIn} /\ req[r].raced \in BOOLEAN
         /\ req[r].pc = "sign" => req[r].session \in SessionRows
         /\ req[r].pc = "findCode" => req[r].code \in Codes
  <1>1. req[r] \in Request
    BY DEF TypeOK
  <1>2. CASE req[r] \in [pc : {"spend"}, from : Credentials, raced : BOOLEAN]
    BY <1>1, <1>2
  <1>3. CASE req[r] \in [pc : {"open"}, from : Credentials \cup {SignIn}, raced : BOOLEAN]
    BY <1>1, <1>3
  <1>4. CASE req[r] \in [pc : {"sign"}, session : SessionRows]
    BY <1>1, <1>4
  <1>5. CASE req[r] \in [pc : {"findCode"}, code : Codes]
    BY <1>1, <1>5
  <1>6. CASE req[r] = Idle
    BY <1>1, <1>6 DEF Idle
  <1> QED BY <1>1, <1>2, <1>3, <1>4, <1>5, <1>6 DEF Request

LEMMA InitIInv == Init => IInv
  <1> SUFFICES ASSUME Init PROVE IInv
    OBVIOUS
  <1>1. \A r \in Requests : req[r] = Idle /\ req[r].pc = "idle"
    BY DEF Init, Idle
  <1>2. \A s \in SessionRows : cred[s] = "none"
    BY DEF Init, Credentials
  <1>3. TypeOK
    BY DEF Init, TypeOK, Request, Credentials
  <1>4. \A s \in SessionRows : ~Opened(s)
    BY <1>2 DEF Opened
  <1>5. \A x : InLine(x) = {} /\ loggedOut = {}
    BY <1>4 DEF Init, InLine
  <1> QED BY <1>1, <1>3, <1>4, <1>5
    DEF IInv, ServedWereSpent, UnracedChecksHold, SignersOwnTheirRow, ServedByOne, LinesExist,
        OneHeirPerLine, Served, Serves, Carries

\* A step that only sends a request on keeps the invariant if the request is not about
\* to open a session with a credential, and has found the one it is going to spend.
LEMMA RequestStep ==
  ASSUME IInv, UNCHANGED <<rows, history>>, NEW r \in Requests, NEW q \in Request, Goto(r, q),
         q.pc # "sign",
         q.pc = "open" => q.from = SignIn,
         q.pc = "spend" => q.from \in Credentials /\ cred[q.from] = "fresh"
  PROVE  IInv'
  <1>1. /\ req'[r] = q
        /\ \A p \in Requests \ {r} : req'[p] = req[p]
        /\ req' \in [Requests -> Request]
    BY DEF IInv, TypeOK, Goto
  <1>2. TypeOK'
    BY <1>1 DEF IInv, TypeOK, rows, history, Credentials
  <1>3. SignIn \notin Credentials /\ SessionRows \subseteq Credentials
    BY KindAssumption DEF Credentials
  <1>4. \A k \in Credentials : Served(k)' => Served(k)
    BY <1>1, <1>3 DEF Served, Opened, rows, history
  <1>5. ServedWereSpent'
    BY <1>4 DEF IInv, ServedWereSpent, rows
  <1>6. UnracedChecksHold'
    <2> SUFFICES ASSUME NEW p \in Requests, NEW k \in Credentials,
                        req'[p].pc = "spend", req'[p].from = k
                 PROVE  /\ cred[k] \notin {"none", "placeholder"}
                        /\ req'[p].raced = FALSE => ~Served(k)' /\ cred[k] # "spent"
      BY DEF UnracedChecksHold, rows
    <2>1. CASE p = r
      BY <1>1, <1>4, <2>1 DEF IInv, ServedWereSpent
    <2>2. CASE p # r
      BY <1>1, <1>4, <2>2 DEF IInv, UnracedChecksHold
    <2> QED BY <2>1, <2>2
  <1>7. SignersOwnTheirRow'
    BY <1>1 DEF IInv, SignersOwnTheirRow, rows
  <1>8. ServedByOne'
    <2>1. \A p \in Requests, k \in Credentials : Serves(p, k)' => Serves(p, k)
      BY <1>1, <1>3 DEF Serves
    <2> QED BY <2>1 DEF IInv, ServedByOne, Opened, rows, history
  <1>9. LinesExist'
    BY DEF IInv, LinesExist, Opened, rows, history
  <1>10. OneHeirPerLine'
    <2>1. \A p \in Requests, x \in SessionRows : Carries(p, x)' => Carries(p, x)
      BY <1>1, <1>3 DEF Carries, history
    <2>2. \A x \in SessionRows : InLine(x)' = InLine(x)
      BY DEF InLine, Opened, rows, history
    <2>3. \A s \in SessionRows : Live(s)' = Live(s)
      BY DEF Live, rows
    <2>4. \A x \in SessionRows : InLine(x) \subseteq SessionRows
      BY DEF InLine
    <2> QED BY <2>1, <2>2, <2>3, <2>4 DEF IInv, OneHeirPerLine, history
  <1> QED BY <1>2, <1>5, <1>6, <1>7, <1>8, <1>9, <1>10 DEF IInv

\* A step that only ages, issues or deletes credentials.
LEMMA RowStep ==
  ASSUME IInv, UNCHANGED <<req, history>>, TypeOK',
         \A k \in Credentials :
           \/ cred'[k] = cred[k]
           \/ cred[k] = "fresh" /\ cred'[k] = "expired"
           \/ cred[k] = "none" /\ cred'[k] = "fresh" /\ k \notin SessionRows
           \/ cred[k] # "none" /\ cred'[k] = "deleted" /\ k \notin SessionRows
  PROVE  IInv'
  <1>1. SessionRows \subseteq Credentials
    BY DEF Credentials
  <1>2. \A s \in SessionRows : /\ Opened(s)' <=> Opened(s)
                               /\ Live(s)' <=> Live(s)
    BY <1>1 DEF Opened, Live
  <1>3. \A k \in Credentials : Served(k)' <=> Served(k)
    BY <1>2 DEF Served, history
  <1>4. ServedWereSpent'
    BY <1>3 DEF IInv, ServedWereSpent
  <1>5. UnracedChecksHold'
    BY <1>3 DEF IInv, UnracedChecksHold
  <1>6. SignersOwnTheirRow'
    <2> SUFFICES ASSUME NEW p \in Requests, req[p].pc = "sign"
                 PROVE  cred'[req[p].session] = "placeholder"
      BY DEF IInv, SignersOwnTheirRow
    <2>1. req[p].session \in SessionRows /\ cred[req[p].session] = "placeholder"
      BY RequestRecords DEF IInv, SignersOwnTheirRow
    <2> QED BY <1>1, <2>1
  <1>7. ServedByOne'
    BY <1>2 DEF IInv, ServedByOne, Serves, history
  <1>8. LinesExist'
    BY <1>2 DEF IInv, TypeOK, LinesExist, history
  <1>9. OneHeirPerLine'
    <2>1. \A p \in Requests, x \in SessionRows : Carries(p, x)' <=> Carries(p, x)
      BY DEF Carries, history
    <2>2. \A x \in SessionRows : InLine(x)' = InLine(x) /\ InLine(x) \subseteq SessionRows
      BY <1>2 DEF InLine, history
    <2> QED BY <1>2, <2>1, <2>2 DEF IInv, OneHeirPerLine, history
  <1> QED BY <1>4, <1>5, <1>6, <1>7, <1>8, <1>9 DEF IInv

LEMMA StoreHashKeepsIInv ==
  ASSUME IInv, NEW r \in Requests, StoreHash(r)
  PROVE  IInv'
  <1> DEFINE s == req[r].session
  <1>1. s \in SessionRows /\ cred[s] = "placeholder"
    BY RequestRecords DEF IInv, SignersOwnTheirRow, StoreHash
  <1>2. s \in Credentials /\ SessionRows \subseteq Credentials
    BY <1>1 DEF Credentials
  <1>3. cred' = [cred EXCEPT ![s] = "fresh"] /\ UNCHANGED history
    BY DEF StoreHash
  <1> HIDE DEF s
  <1>4. /\ req'[r] = Idle /\ Idle.pc = "idle"
        /\ \A p \in Requests \ {r} : req'[p] = req[p]
        /\ req' \in [Requests -> Request]
    BY DEF IInv, TypeOK, StoreHash, Goto, Idle, Request
  <1>5. /\ cred'[s] = "fresh"
        /\ \A k \in Credentials \ {s} : cred'[k] = cred[k]
    BY <1>2, <1>3 DEF IInv, TypeOK
  <1>6. TypeOK'
    BY <1>1, <1>2, <1>3, <1>4, KindAssumption DEF IInv, TypeOK, history, StoreHash
  <1>7. \A t \in SessionRows : /\ Opened(t)' <=> Opened(t)
                               /\ Live(t)' <=> Live(t)
    BY <1>1, <1>2, <1>5 DEF Opened, Live
  <1>8. \A k \in Credentials : Served(k)' => Served(k)
    BY <1>3, <1>4, <1>7 DEF Served, history
  <1>9. ServedWereSpent'
    BY <1>1, <1>2, <1>5, <1>8 DEF IInv, ServedWereSpent
  <1>10. UnracedChecksHold'
    BY <1>1, <1>2, <1>4, <1>5, <1>8 DEF IInv, UnracedChecksHold
  <1>11. SignersOwnTheirRow'
    <2> SUFFICES ASSUME NEW p \in Requests, req'[p].pc = "sign"
                 PROVE  /\ cred'[req'[p].session] = "placeholder"
                        /\ \A q \in Requests \ {p} :
                             req'[q].pc = "sign" => req'[q].session # req'[p].session
      BY DEF SignersOwnTheirRow
    <2>1. p # r /\ req'[p] = req[p]
      BY <1>4
    <2>2. req[p].session \in SessionRows /\ req[p].session # s
      BY <2>1, RequestRecords DEF IInv, SignersOwnTheirRow, StoreHash, s
    <2> QED BY <1>2, <1>4, <1>5, <2>1, <2>2 DEF IInv, SignersOwnTheirRow
  <1>12. ServedByOne'
    <2>1. \A p \in Requests, k \in Credentials : Serves(p, k)' => Serves(p, k)
      BY <1>4 DEF Serves
    <2> QED BY <1>3, <1>7, <2>1 DEF IInv, ServedByOne, history
  <1>13. LinesExist'
    BY <1>3, <1>7 DEF IInv, TypeOK, LinesExist, history
  <1>14. OneHeirPerLine'
    <2>1. \A p \in Requests, x \in SessionRows : Carries(p, x)' => Carries(p, x)
      BY <1>3, <1>4 DEF Carries, history
    <2>2. \A x \in SessionRows : InLine(x)' = InLine(x) /\ InLine(x) \subseteq SessionRows
      BY <1>3, <1>7 DEF InLine, history
    <2> QED BY <1>3, <1>7, <2>1, <2>2 DEF IInv, OneHeirPerLine, history
  <1> QED BY <1>6, <1>9, <1>10, <1>11, <1>12, <1>13, <1>14 DEF IInv

\* A session is opened under an id that nothing knows yet.
LEMMA OpenSessionKeepsIInv ==
  ASSUME IInv, NEW r \in Requests, NEW s \in SessionRows, OpenSession(r, s)
  PROVE  IInv'
  <1> DEFINE k == req[r].from
  <1>1. /\ k \in Credentials \cup {SignIn} /\ req[r].raced \in BOOLEAN
        /\ SessionRows \subseteq Credentials /\ SignIn \notin Credentials
        /\ req[r].pc = "open"
    BY RequestRecords, KindAssumption DEF IInv, OpenSession, Credentials
  <1>2. /\ req'[r] = [pc |-> "sign", session |-> s]
        /\ \A p \in Requests \ {r} : req'[p] = req[p]
        /\ req' \in [Requests -> Request]
    BY DEF IInv, TypeOK, OpenSession, Goto, Request
  <1>3. /\ cred[s] = "none" /\ cred'[s] = "placeholder"
        /\ \A c \in Credentials \ {s} : cred'[c] = cred[c]
    BY <1>1 DEF IInv, TypeOK, OpenSession
  <1>4. /\ origin'[s] = k
        /\ \A t \in SessionRows \ {s} : origin'[t] = origin[t]
    BY DEF IInv, TypeOK, OpenSession
  <1>5. /\ line'[s] = IF k \in SessionRows THEN line[k] ELSE s
        /\ \A t \in SessionRows \ {s} : line'[t] = line[t]
    BY DEF IInv, TypeOK, OpenSession
  <1>6. /\ raced \subseteq raced' /\ raced' \subseteq raced \cup {s}
        /\ req[r].raced # FALSE => s \in raced'
        /\ loggedOut' = loggedOut /\ s \notin loggedOut
    BY <1>1, <1>3 DEF OpenSession, IInv, LinesExist, Opened
  <1>7. TypeOK'
    <2>1. line'[s] \in SessionRows
      BY <1>5 DEF IInv, TypeOK
    <2>2. line' \in [SessionRows -> SessionRows]
      BY <2>1, <1>5 DEF IInv, TypeOK, OpenSession
    <2>3. origin' \in [SessionRows -> Credentials \cup {SignIn}]
      BY <1>1 DEF IInv, TypeOK, OpenSession
    <2>4. s \notin Links /\ s \notin Codes
      BY KindAssumption
    <2>5. /\ cred' \in [Credentials -> {"none", "placeholder", "fresh", "spent", "expired", "deleted"}]
          /\ \A t \in SessionRows : cred'[t] # "deleted"
          /\ \A l \in Links : cred'[l] \notin {"placeholder", "deleted"}
          /\ \A c \in Codes : cred'[c] \notin {"placeholder", "expired"}
      BY <1>1, <1>3, <2>4 DEF IInv, TypeOK, OpenSession, Credentials
    <2> QED BY <1>2, <1>6, <2>2, <2>3, <2>5 DEF IInv, TypeOK, OpenSession
  <1>8. \A t \in SessionRows : Opened(t)' <=> Opened(t) \/ t = s
    BY <1>1, <1>3 DEF Opened
  <1>9. /\ k \in Credentials => cred[k] \in {"spent", "deleted"} /\ k # s
        /\ Served(k)
    BY <1>1, <1>3 DEF IInv, ServedWereSpent, Served
  <1> HIDE DEF k
  <1>10. \A c \in Credentials : Served(c)' => Served(c)
    <2> SUFFICES ASSUME NEW c \in Credentials, Served(c)' PROVE Served(c)
      OBVIOUS
    <2>1. CASE c = k
      BY <1>9, <2>1
    <2>2. CASE c # k
      <3>1. ASSUME NEW p \in Requests, req'[p].pc = "open", req'[p].from = c PROVE Served(c)
        BY <1>2, <3>1 DEF Served
      <3>2. ASSUME NEW t \in SessionRows, Opened(t)', origin'[t] = c PROVE Served(c)
        BY <1>4, <1>8, <2>2, <3>2 DEF Served
      <3> QED BY <3>1, <3>2 DEF Served
    <2> QED BY <2>1, <2>2
  <1>11. ServedWereSpent'
    BY <1>3, <1>10 DEF IInv, ServedWereSpent
  <1>12. UnracedChecksHold'
    BY <1>2, <1>3, <1>10 DEF IInv, UnracedChecksHold
  <1>13. SignersOwnTheirRow'
    <2>1. ASSUME NEW p \in Requests, p # r, req[p].pc = "sign"
          PROVE  req[p].session \in SessionRows /\ req[p].session # s
      BY <1>3, <2>1, RequestRecords DEF IInv, SignersOwnTheirRow
    <2> SUFFICES ASSUME NEW p \in Requests, req'[p].pc = "sign"
                 PROVE  /\ cred'[req'[p].session] = "placeholder"
                        /\ \A q \in Requests \ {p} :
                             req'[q].pc = "sign" => req'[q].session # req'[p].session
      BY DEF SignersOwnTheirRow
    <2>2. CASE p = r
      BY <1>2, <1>3, <2>1, <2>2
    <2>3. CASE p # r
      BY <1>1, <1>2, <1>3, <2>1, <2>3 DEF IInv, SignersOwnTheirRow
    <2> QED BY <2>2, <2>3
  <1>14. \A p \in Requests : req'[p].pc = "open" => p # r /\ req'[p] = req[p]
    BY <1>2
  <1>15. ServedByOne'
    <2> SUFFICES ASSUME NEW c \in Credentials
                 PROVE  (/\ \A p, q \in Requests : Serves(p, c) /\ Serves(q, c) => p = q
                         /\ \A t, u \in SessionRows \ raced :
                              Opened(t) /\ Opened(u) /\ origin[t] = c /\ origin[u] = c => t = u
                         /\ \A p \in Requests, t \in SessionRows \ raced :
                              Serves(p, c) => ~(Opened(t) /\ origin[t] = c))'
      BY DEF ServedByOne
    <2>1. \A p \in Requests : Serves(p, c)' => Serves(p, c) /\ p # r
      BY <1>14 DEF Serves
    <2>2. s \notin raced' /\ c = k => Serves(r, c)
      BY <1>1, <1>6 DEF Serves, k
    <2>3. \A t \in SessionRows \ raced' : t # s /\ Opened(t)' /\ origin'[t] = c =>
            t \in SessionRows \ raced /\ Opened(t) /\ origin[t] = c
      BY <1>4, <1>6, <1>8
    <2>4. s \notin raced' /\ origin'[s] = c => Serves(r, c)
      BY <1>4, <2>2
    <2> QED BY <2>1, <2>3, <2>4 DEF IInv, ServedByOne
  <1>16. LinesExist'
    <2>1. ASSUME NEW t \in SessionRows, Opened(t)', NEW x \in SessionRows, x = line'[t]
          PROVE  Opened(x)'
      <3>1. CASE t = s
        BY <1>1, <1>5, <1>8, <1>9, <2>1, <3>1 DEF IInv, LinesExist, Opened
      <3>2. CASE t # s
        BY <1>5, <1>8, <2>1, <3>2 DEF IInv, LinesExist
      <3> QED BY <3>1, <3>2
    <2> QED BY <1>6, <1>7, <1>8, <2>1 DEF IInv, TypeOK, LinesExist
  <1>17. OneHeirPerLine'
    <2> SUFFICES ASSUME NEW x \in SessionRows, InLine(x)' \cap raced' = {}
                 PROVE  (/\ \A t, u \in InLine(x) : Live(t) /\ Live(u) => t = u
                         /\ \A p, q \in Requests : Carries(p, x) /\ Carries(q, x) => p = q
                         /\ \A p \in Requests : Carries(p, x) => \A t \in InLine(x) : ~Live(t)
                         /\ InLine(x) \cap loggedOut # {} =>
                              /\ \A t \in InLine(x) : ~Live(t)
                              /\ \A p \in Requests : ~Carries(p, x))'
      BY DEF OneHeirPerLine
    <2>1. \A t \in SessionRows \ {s} : /\ t \in InLine(x)' <=> t \in InLine(x)
                                       /\ Live(t)' <=> Live(t)
      BY <1>1, <1>3, <1>5, <1>8 DEF InLine, Live
    <2>2. /\ s \notin InLine(x) /\ ~Live(s) /\ s \notin loggedOut
          /\ InLine(x) \subseteq SessionRows /\ InLine(x)' \subseteq SessionRows
      BY <1>3, <1>6 DEF InLine, Opened, Live
    <2>3. InLine(x) \cap raced = {}
      BY <1>6, <2>1, <2>2
    <2>4. \A p \in Requests : Carries(p, x)' => Carries(p, x) /\ p # r
      <3> SUFFICES ASSUME NEW p \in Requests, Carries(p, x)'
                   PROVE  Carries(p, x) /\ p # r
        OBVIOUS
      <3>1. p # r /\ req'[p] = req[p] /\ req[p].pc = "open" /\ req[p].from \in SessionRows
        BY <1>14 DEF Carries
      <3>2. req[p].from # s
        BY <1>1, <1>3, <3>1 DEF IInv, ServedWereSpent, Served
      <3> QED BY <1>5, <3>1, <3>2 DEF Carries
    <2>5. CASE s \notin InLine(x)'
      BY <1>6, <2>1, <2>2, <2>3, <2>4, <2>5 DEF IInv, OneHeirPerLine
    <2>6. CASE s \in InLine(x)' /\ k \in SessionRows
      <3>1. line[k] = x /\ s \notin raced'
        BY <1>5, <2>6 DEF InLine
      <3>2. Carries(r, x)
        BY <1>1, <1>6, <2>6, <3>1 DEF Carries, k
      <3>3. /\ \A t \in InLine(x) : ~Live(t)
            /\ \A p \in Requests : ~Carries(p, x)'
            /\ InLine(x) \cap loggedOut = {}
        BY <2>3, <2>4, <3>2 DEF IInv, OneHeirPerLine
      <3> QED BY <1>6, <2>1, <2>2, <3>3
    <2>7. CASE s \in InLine(x)' /\ k \notin SessionRows
      <3>1. x = s
        BY <1>5, <2>7 DEF InLine
      <3>2. InLine(s) = {}
        BY <1>3 DEF IInv, LinesExist, InLine, Opened
      <3>3. \A p \in Requests : ~Carries(p, s)
        BY <1>1, <1>3 DEF Carries, IInv, ServedWereSpent, Served, LinesExist, Opened
      <3> QED BY <1>6, <2>1, <2>2, <2>4, <3>1, <3>2, <3>3
    <2> QED BY <2>5, <2>6, <2>7
  <1> QED BY <1>7, <1>11, <1>12, <1>13, <1>15, <1>16, <1>17 DEF IInv

\* What becomes of requests when somebody marks k.
LEMMA OvertakenRequests ==
  ASSUME TypeOK, NEW k \in Credentials, NEW P \in SUBSET Requests,
         \A p \in P : req'[p] = Overtaken(k, req[p])
  PROVE  /\ \A p \in P : req'[p] \in Request
         /\ \A p \in P : req'[p].pc # "spend" => req'[p] = req[p]
         /\ \A p \in P : req'[p].pc = "spend" /\ req'[p].from # k => req'[p] = req[p]
         /\ \A p \in P : req'[p].pc = "spend" /\ req'[p].from = k => req'[p].raced = TRUE
  <1> SUFFICES ASSUME NEW p \in P
               PROVE  /\ req'[p] \in Request
                      /\ req'[p].pc # "spend" => req'[p] = req[p]
                      /\ req'[p].pc = "spend" /\ req'[p].from # k => req'[p] = req[p]
                      /\ req'[p].pc = "spend" /\ req'[p].from = k => req'[p].raced = TRUE
    OBVIOUS
  <1>1. p \in Requests /\ req'[p] = Overtaken(k, req[p])
    OBVIOUS
  <1>2. CASE req[p].pc = "spend" /\ req[p].from = k
    <2>1. req[p] \in [pc : {"spend"}, from : Credentials, raced : BOOLEAN]
      BY <1>1, <1>2, RequestRecords
    <2>2. req'[p] = [req[p] EXCEPT !.raced = TRUE]
      BY <1>1, <1>2 DEF Overtaken
    <2> QED BY <1>2, <2>1, <2>2 DEF Request
  <1>3. CASE ~(req[p].pc = "spend" /\ req[p].from = k)
    <2>1. req'[p] = req[p]
      BY <1>1, <1>3 DEF Overtaken
    <2> QED BY <1>1, <1>3, <2>1, RequestRecords
  <1> QED BY <1>2, <1>3

LEMMA SpendKeepsIInv ==
  ASSUME IInv, NEW r \in Requests, Spend(r)
  PROVE  IInv'
  <1> DEFINE k == req[r].from
  <1>1. /\ k \in Credentials /\ req[r].raced \in BOOLEAN
        /\ SessionRows \subseteq Credentials /\ SignIn \notin Credentials
        /\ req[r].pc = "spend" /\ cred[k] \notin {"none", "placeholder", "deleted"}
    BY RequestRecords, KindAssumption DEF IInv, UnracedChecksHold, Spend, Credentials
  <1>2. /\ cred'[k] = "spent"
        /\ \A c \in Credentials \ {k} : cred'[c] = cred[c]
        /\ UNCHANGED history
    BY <1>1 DEF IInv, TypeOK, Spend, Mark
  <1>3. /\ req'[r] = [pc |-> "open", from |-> k, raced |-> req[r].raced]
        /\ \A p \in Requests \ {r} : req'[p] = Overtaken(k, req[p])
    BY DEF Spend
  <1>4. req'[r] \in Request
    BY <1>1, <1>3 DEF Request
  <1> HIDE DEF k
  <1>5. /\ \A p \in Requests \ {r} : req'[p] \in Request
        /\ \A p \in Requests \ {r} : req'[p].pc # "spend" => req'[p] = req[p]
        /\ \A p \in Requests \ {r} :
             req'[p].pc = "spend" /\ req'[p].from # k => req'[p] = req[p]
        /\ \A p \in Requests \ {r} :
             req'[p].pc = "spend" /\ req'[p].from = k => req'[p].raced = TRUE
    <2>1. Requests \ {r} \in SUBSET Requests
      OBVIOUS
    <2> QED BY ONLY <1>1, <1>3, <2>1, IInv, OvertakenRequests DEF IInv
  <1>6. req' \in [Requests -> Request]
    BY <1>4, <1>5 DEF Spend
  <1>7. TypeOK'
    BY <1>1, <1>2, <1>6, KindAssumption DEF IInv, TypeOK, Spend, Mark, history, Credentials, k
  <1>8. \A t \in SessionRows : /\ Opened(t)' <=> Opened(t)
                               /\ Live(t)' <=> Live(t) /\ t # k
    BY <1>1, <1>2 DEF Opened, Live
  <1>9. \A c \in Credentials : c # k => (Served(c)' => Served(c))
    BY <1>2, <1>3, <1>5, <1>8 DEF Served, history
  <1>10. ServedWereSpent'
    BY <1>2, <1>9 DEF IInv, ServedWereSpent
  <1>11. UnracedChecksHold'
    <2> SUFFICES ASSUME NEW p \in Requests, NEW c \in Credentials,
                        req'[p].pc = "spend", req'[p].from = c
                 PROVE  /\ cred'[c] \notin {"none", "placeholder"}
                        /\ req'[p].raced = FALSE => ~Served(c)' /\ cred'[c] # "spent"
      BY DEF UnracedChecksHold
    <2>1. p \in Requests \ {r}
      BY <1>3
    <2>2. CASE c = k
      BY <1>2, <1>5, <2>1, <2>2
    <2>3. CASE c # k
      BY <1>2, <1>5, <1>9, <2>1, <2>3 DEF IInv, UnracedChecksHold
    <2> QED BY <2>2, <2>3
  <1>12. SignersOwnTheirRow'
    <2>1. \A p \in Requests : req'[p].pc = "sign" => p # r /\ req'[p] = req[p]
      BY <1>3, <1>5
    <2>2. \A p \in Requests : req[p].pc = "sign" => req[p].session \in Credentials
      BY <1>1, RequestRecords DEF IInv
    <2> QED BY <1>1, <1>2, <2>1, <2>2 DEF IInv, SignersOwnTheirRow
  <1>13. ~req[r].raced => ~Served(k)
    BY <1>1 DEF IInv, UnracedChecksHold, k
  <1>14. ServedByOne'
    <2> SUFFICES ASSUME NEW c \in Credentials
                 PROVE  (/\ \A p, q \in Requests : Serves(p, c) /\ Serves(q, c) => p = q
                         /\ \A t, u \in SessionRows \ raced :
                              Opened(t) /\ Opened(u) /\ origin[t] = c /\ origin[u] = c => t = u
                         /\ \A p \in Requests, t \in SessionRows \ raced :
                              Serves(p, c) => ~(Opened(t) /\ origin[t] = c))'
      BY DEF ServedByOne
    <2>1. \A p \in Requests \ {r} : Serves(p, c)' => Serves(p, c)
      BY <1>5 DEF Serves
    <2>2. Serves(r, c)' => c = k /\ ~Served(c)
      BY <1>3, <1>13 DEF Serves
    <2>3. CASE Served(c)
      BY <1>2, <1>8, <2>1, <2>2, <2>3 DEF IInv, ServedByOne, history
    <2>4. CASE ~Served(c)
      <3>1. /\ \A p \in Requests : ~Serves(p, c)
            /\ \A t \in SessionRows : ~(Opened(t) /\ origin[t] = c)
        BY <2>4 DEF Served, Serves
      <3> QED BY <1>2, <1>8, <2>1, <3>1 DEF history
    <2> QED BY <2>3, <2>4
  <1>15. LinesExist'
    BY <1>2, <1>8 DEF IInv, TypeOK, LinesExist, history
  <1>16. OneHeirPerLine'
    <2> SUFFICES ASSUME NEW x \in SessionRows, InLine(x)' \cap raced' = {}
                 PROVE  (/\ \A t, u \in InLine(x) : Live(t) /\ Live(u) => t = u
                         /\ \A p, q \in Requests : Carries(p, x) /\ Carries(q, x) => p = q
                         /\ \A p \in Requests : Carries(p, x) => \A t \in InLine(x) : ~Live(t)
                         /\ InLine(x) \cap loggedOut # {} =>
                              /\ \A t \in InLine(x) : ~Live(t)
                              /\ \A p \in Requests : ~Carries(p, x))'
      BY DEF OneHeirPerLine
    <2>1. InLine(x)' = InLine(x) /\ InLine(x) \subseteq SessionRows /\ InLine(x) \cap raced = {}
      BY <1>2, <1>8 DEF InLine, history
    <2>2. \A p \in Requests \ {r} : Carries(p, x)' => Carries(p, x)
      BY <1>2, <1>5 DEF Carries, history
    <2>3. \A t \in InLine(x) : Live(t)' => Live(t)
      BY <1>8, <2>1
    <2>4. CASE ~Carries(r, x)'
      BY <1>2, <2>1, <2>2, <2>3, <2>4 DEF IInv, OneHeirPerLine, history
    <2>5. CASE Carries(r, x)'
      <3>1. k \in SessionRows /\ line[k] = x /\ req[r].raced = FALSE
        BY <1>2, <1>3, <2>5 DEF Carries, history
      <3>2. Live(k) /\ k \in InLine(x)
        BY <1>1, <3>1 DEF IInv, TypeOK, UnracedChecksHold, Live, InLine, Opened, k
      <3>3. /\ \A t \in InLine(x) : Live(t) => t = k
            /\ \A p \in Requests : ~Carries(p, x)
            /\ InLine(x) \cap loggedOut = {}
        BY <2>1, <3>2 DEF IInv, OneHeirPerLine
      <3> QED BY <1>2, <1>8, <2>1, <2>2, <3>3 DEF history
    <2> QED BY <2>4, <2>5
  <1> QED BY <1>7, <1>10, <1>11, <1>12, <1>14, <1>15, <1>16 DEF IInv

LEMMA LogoutKeepsIInv ==
  ASSUME IInv, NEW s \in SessionRows, Logout(s)
  PROVE  IInv'
  <1>1. s \in Credentials /\ SessionRows \subseteq Credentials /\ SignIn \notin Credentials
    BY KindAssumption DEF Credentials
  <1>2. /\ cred[s] \in {"fresh", "expired"} /\ cred'[s] = "spent"
        /\ \A c \in Credentials \ {s} : cred'[c] = cred[c]
        /\ origin' = origin /\ line' = line /\ raced' = raced
        /\ loggedOut' = loggedOut \cup {s}
    BY <1>1 DEF IInv, TypeOK, Logout, Mark
  <1>3. \A p \in Requests : req'[p] = Overtaken(s, req[p])
    BY DEF Logout
  <1>4. /\ \A p \in Requests : req'[p] \in Request
        /\ \A p \in Requests : req'[p].pc # "spend" => req'[p] = req[p]
        /\ \A p \in Requests : req'[p].pc = "spend" /\ req'[p].from # s => req'[p] = req[p]
        /\ \A p \in Requests : req'[p].pc = "spend" /\ req'[p].from = s => req'[p].raced = TRUE
    <2>1. Requests \in SUBSET Requests
      OBVIOUS
    <2> QED BY ONLY <1>1, <1>3, <2>1, IInv, OvertakenRequests DEF IInv
  <1>5. req' \in [Requests -> Request]
    BY <1>4 DEF Logout
  <1>6. TypeOK'
    BY <1>1, <1>2, <1>5, KindAssumption DEF IInv, TypeOK, Logout, Mark, Credentials
  <1>7. \A t \in SessionRows : /\ Opened(t)' <=> Opened(t)
                               /\ Live(t)' <=> Live(t) /\ t # s
    BY <1>1, <1>2 DEF Opened, Live
  <1>8. \A c \in Credentials : Served(c)' => Served(c)
    BY <1>2, <1>4, <1>7 DEF Served
  <1>9. ServedWereSpent'
    BY <1>2, <1>8 DEF IInv, ServedWereSpent
  <1>10. UnracedChecksHold'
    <2> SUFFICES ASSUME NEW p \in Requests, NEW c \in Credentials,
                        req'[p].pc = "spend", req'[p].from = c
                 PROVE  /\ cred'[c] \notin {"none", "placeholder"}
                        /\ req'[p].raced = FALSE => ~Served(c)' /\ cred'[c] # "spent"
      BY DEF UnracedChecksHold
    <2>1. CASE c = s
      BY <1>2, <1>4, <2>1
    <2>2. CASE c # s
      BY <1>2, <1>4, <1>8, <2>2 DEF IInv, UnracedChecksHold
    <2> QED BY <2>1, <2>2
  <1>11. SignersOwnTheirRow'
    <2>1. \A p \in Requests : req'[p].pc = "sign" => req'[p] = req[p]
      BY <1>4
    <2>2. \A p \in Requests : req[p].pc = "sign" => req[p].session \in Credentials
      BY <1>1, RequestRecords DEF IInv
    <2> QED BY <1>2, <2>1, <2>2 DEF IInv, SignersOwnTheirRow
  <1>12. ServedByOne'
    <2>1. \A p \in Requests, c \in Credentials : Serves(p, c)' => Serves(p, c)
      BY <1>4 DEF Serves
    <2> QED BY <1>2, <1>7, <2>1 DEF IInv, ServedByOne
  <1>13. LinesExist'
    BY <1>2, <1>7 DEF IInv, TypeOK, LinesExist, Opened
  <1>14. OneHeirPerLine'
    <2> SUFFICES ASSUME NEW x \in SessionRows, InLine(x)' \cap raced' = {}
                 PROVE  (/\ \A t, u \in InLine(x) : Live(t) /\ Live(u) => t = u
                         /\ \A p, q \in Requests : Carries(p, x) /\ Carries(q, x) => p = q
                         /\ \A p \in Requests : Carries(p, x) => \A t \in InLine(x) : ~Live(t)
                         /\ InLine(x) \cap loggedOut # {} =>
                              /\ \A t \in InLine(x) : ~Live(t)
                              /\ \A p \in Requests : ~Carries(p, x))'
      BY DEF OneHeirPerLine
    <2>1. InLine(x)' = InLine(x) /\ InLine(x) \subseteq SessionRows /\ InLine(x) \cap raced = {}
      BY <1>2, <1>7 DEF InLine
    <2>2. \A p \in Requests : Carries(p, x)' => Carries(p, x)
      BY <1>2, <1>4 DEF Carries
    <2>3. \A t \in InLine(x) : Live(t)' => Live(t) /\ t # s
      BY <1>7, <2>1
    <2>4. CASE s \notin InLine(x)
      BY <1>2, <2>1, <2>2, <2>3, <2>4 DEF IInv, OneHeirPerLine
    <2>5. CASE s \in InLine(x)
      <3>1. Live(s)
        BY <1>2 DEF Live
      <3>2. /\ \A t \in InLine(x) : Live(t) => t = s
            /\ \A p \in Requests : ~Carries(p, x)
        BY <2>1, <2>5, <3>1 DEF IInv, OneHeirPerLine
      <3> QED BY <2>1, <2>2, <2>3, <3>2
    <2> QED BY <2>4, <2>5
  <1> QED BY <1>6, <1>9, <1>10, <1>11, <1>12, <1>13, <1>14 DEF IInv

\* Sending a request on: the checks and the requests that fail.
LEMMA RequestActionsKeepIInv ==
  ASSUME IInv, NEW r \in Requests, Begin(r) \/ FindCode(r) \/ Abort(r)
  PROVE  IInv'
  <1>1. Idle \in Request /\ Idle.pc = "idle"
    BY DEF Idle, Request
  <1>2. \A k \in Credentials :
          /\ [pc |-> "spend", from |-> k, raced |-> FALSE] \in Request
          /\ [pc |-> "open", from |-> SignIn, raced |-> FALSE] \in Request
    BY DEF Request
  <1>3. ASSUME NEW k \in Credentials, BeginSpend(r, k) PROVE IInv'
    BY <1>2, <1>3, RequestStep DEF BeginSpend, Start, Unspent
  <1>4. ASSUME BeginSignIn(r) PROVE IInv'
    <2>1. [pc |-> "open", from |-> SignIn, raced |-> FALSE] \in Request
      BY DEF Request
    <2> QED BY <1>4, <2>1, RequestStep DEF BeginSignIn, Admit
  <1>5. ASSUME NEW c \in Codes, BeginLoginWithCode(r, c) PROVE IInv'
    <2>1. [pc |-> "findCode", code |-> c] \in Request
      BY DEF Request
    <2> QED BY <1>5, <2>1, RequestStep DEF BeginLoginWithCode, Start
  <1>6. ASSUME FindCode(r) PROVE IInv'
    <2>1. req[r].code \in Credentials
      BY <1>6, RequestRecords DEF IInv, FindCode, Credentials
    <2>2. CASE Unspent(req[r].code)
      BY <1>2, <1>6, <2>1, <2>2, RequestStep DEF FindCode, Unspent
    <2>3. CASE ~Unspent(req[r].code)
      BY <1>1, <1>6, <2>3, RequestStep DEF FindCode
    <2> QED BY <2>2, <2>3
  <1>7. ASSUME Abort(r) PROVE IInv'
    BY <1>1, <1>7, RequestStep DEF Abort
  <1> QED BY <1>3, <1>4, <1>5, <1>6, <1>7 DEF Begin

\* Time, the mail and the settings page.
LEMMA RowActionsKeepIInv ==
  ASSUME IInv,
         \/ \E k \in Credentials : Expire(k)
         \/ \E l \in Links : RequestLink(l)
         \/ \E new \in SUBSET Codes : EnableTwoFactor(new)
         \/ DisableTwoFactor
  PROVE  IInv'
  <1>1. Links \subseteq Credentials /\ Codes \subseteq Credentials
    BY DEF Credentials
  <1>2. ASSUME NEW k \in Credentials, Expire(k) PROVE IInv'
    <2>1. TypeOK'
      BY <1>2, KindAssumption DEF IInv, TypeOK, Expire, history, Credentials
    <2> QED BY <1>2, <2>1, RowStep DEF IInv, TypeOK, Expire
  <1>3. ASSUME NEW l \in Links, RequestLink(l) PROVE IInv'
    <2>1. TypeOK'
      BY <1>3, KindAssumption DEF IInv, TypeOK, RequestLink, history, Credentials
    <2> QED BY <1>1, <1>3, <2>1, KindAssumption, RowStep DEF IInv, TypeOK, RequestLink
  <1>4. \A k \in Credentials :
          WithoutCodes[k] = IF k \in Codes /\ cred[k] # "none" THEN "deleted" ELSE cred[k]
    BY DEF WithoutCodes
  <1>5. ASSUME NEW new \in SUBSET Codes, EnableTwoFactor(new) PROVE IInv'
    <2>1. TypeOK'
      BY <1>4, <1>5, KindAssumption DEF IInv, TypeOK, EnableTwoFactor, history, Credentials
    <2> QED BY <1>1, <1>4, <1>5, <2>1, KindAssumption, RowStep DEF IInv, TypeOK, EnableTwoFactor
  <1>6. ASSUME DisableTwoFactor PROVE IInv'
    <2>1. TypeOK'
      BY <1>4, <1>6, KindAssumption
      DEF IInv, TypeOK, DisableTwoFactor, WithoutCodes, history, Credentials
    <2> QED BY <1>1, <1>4, <1>6, <2>1, KindAssumption, RowStep DEF IInv, TypeOK, DisableTwoFactor
  <1> QED BY <1>2, <1>3, <1>5, <1>6

LEMMA NextKeepsIInv == IInv /\ [Next]_vars => IInv'
  <1> SUFFICES ASSUME IInv, [Next]_vars PROVE IInv'
    OBVIOUS
  <1>1. CASE UNCHANGED vars
    <2>1. TypeOK'
      BY <1>1 DEF IInv, TypeOK, vars, rows, history
    <2> QED BY <1>1, <2>1, RowStep DEF vars, rows, history
  <1>2. ASSUME NEW r \in Requests, NEW s \in SessionRows, OpenSession(r, s) PROVE IInv'
    BY <1>2, OpenSessionKeepsIInv
  <1>3. ASSUME NEW r \in Requests, StoreHash(r) PROVE IInv'
    BY <1>3, StoreHashKeepsIInv
  <1>4. ASSUME NEW r \in Requests, Spend(r) PROVE IInv'
    BY <1>4, SpendKeepsIInv
  <1>5. ASSUME NEW s \in SessionRows, Logout(s) PROVE IInv'
    BY <1>5, LogoutKeepsIInv
  <1> QED BY <1>1, <1>2, <1>3, <1>4, <1>5, RequestActionsKeepIInv, RowActionsKeepIInv
    DEF Next, Elsewhere, Step

LEMMA AlwaysIInv == Spec => []IInv
  BY InitIInv, NextKeepsIInv, PTL DEF Spec

-----------------------------------------------------------------------------

\* Backend/src/auth: rows, requests and history have their types in every reachable
\* state; a session row is never deleted, a recovery code never expires.
THEOREM SessionsTypeCorrect == Spec => []TypeOK
  BY AlwaysIInv, PTL DEF IInv

\* rotateSession, verifyMagicLink, consumeRecoveryCode: no credential opens two
\* sessions unless one of the two requests was overtaken before its update.
THEOREM NoCredentialServesTwice == Spec => []CredentialsServeOnce
  <1>1. IInv => CredentialsServeOnce
    BY DEF IInv, TypeOK, ServedByOne, CredentialsServeOnce
  <1> QED BY <1>1, AlwaysIInv, PTL

\* rotateSession and revokeByRefreshToken: a line of rotations none of which was
\* overtaken has one unrevoked session at most, and none after a logout.
THEOREM RotationKeepsOneSession == Spec => []OneLiveSessionPerSignIn
  <1>1. IInv => OneLiveSessionPerSignIn
    BY DEF IInv, OneHeirPerLine, OneLiveSessionPerSignIn
  <1> QED BY <1>1, AlwaysIInv, PTL

-----------------------------------------------------------------------------
(* The other half of the component: where users come from *)

VARIABLES account, links, step   \* FirstSignIn's, its requests' places being step

FirstSignIn == INSTANCE FirstSignIn WITH req <- step

\* register() and loginWithOAuth(): however many registrations and first sign-ins
\* overlap and fail between their statements, rows and requests keep to their types;
\* in particular the provider's account is never linked twice.
THEOREM FirstSignInTypeCorrect == FirstSignIn!Spec => []FirstSignIn!TypeOK
  <1>1. FirstSignIn!Init => FirstSignIn!TypeOK
    BY DEF FirstSignIn!Init, FirstSignIn!TypeOK
  <1>2. FirstSignIn!TypeOK /\ [FirstSignIn!Next]_(FirstSignIn!vars) => FirstSignIn!TypeOK'
    <2> SUFFICES ASSUME FirstSignIn!TypeOK, [FirstSignIn!Next]_(FirstSignIn!vars)
                 PROVE  FirstSignIn!TypeOK'
      OBVIOUS
    <2> USE DEF FirstSignIn!TypeOK, FirstSignIn!At, FirstSignIn!rows
    <2>1. ASSUME NEW r \in Requests,
                 FirstSignIn!BeginRegister(r) \/ FirstSignIn!BeginOAuth(r) \/ FirstSignIn!Abort(r)
          PROVE  FirstSignIn!TypeOK'
      BY <2>1 DEF FirstSignIn!BeginRegister, FirstSignIn!BeginOAuth, FirstSignIn!Abort
    <2>2. ASSUME NEW r \in Requests,
                 FirstSignIn!CreateUser(r) \/ FirstSignIn!CreateUserFromOAuth(r)
          PROVE  FirstSignIn!TypeOK'
      BY <2>2 DEF FirstSignIn!CreateUser, FirstSignIn!CreateUserFromOAuth
    <2>3. ASSUME NEW r \in Requests, FirstSignIn!FindUser(r) PROVE FirstSignIn!TypeOK'
      BY <2>3 DEF FirstSignIn!FindUser, FirstSignIn!AfterLookup
    <2>4. ASSUME NEW r \in Requests, FirstSignIn!LinkAccount(r) PROVE FirstSignIn!TypeOK'
      BY <2>4 DEF FirstSignIn!LinkAccount
    <2>5. CASE UNCHANGED FirstSignIn!vars
      BY <2>5 DEF FirstSignIn!vars
    <2> QED BY <2>1, <2>2, <2>3, <2>4, <2>5 DEF FirstSignIn!Next
  <1> QED BY <1>1, <1>2, PTL DEF FirstSignIn!Spec
=============================================================================
