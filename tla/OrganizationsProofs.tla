-------------------------- MODULE OrganizationsProofs --------------------------
(***************************************************************************)
(* Theorems about Organizations, for any number of users, rows and         *)
(* concurrent requests.                                                    *)
(***************************************************************************)
EXTENDS Organizations, FiniteSetTheorems, TLAPS

\* A change nobody overlapped, about to take an owner away, leaves another one.
UnracedChangesSpareAnOwner ==
  \A r \in Requests :
    req[r].pc = "write" /\ req[r].raced = FALSE /\ req[r].to # "OWNER" /\ IsOwner(req[r].id)
      => \E m \in MemberIds \ {req[r].id} : IsOwner(m)

InvitationsWereOffered ==
  \A i \in InvitationIds :
    invitation[i].status = "PENDING" => <<invitation[i].email, invitation[i].role>> \in offered

\* An acceptance in flight keeps the role it read, and that one was offered too.
AcceptancesWereOffered ==
  \A r \in Requests :
    req[r].pc = "enlist" =>
      /\ invitation[req[r].inv] # NoInvitation
      /\ <<req[r].user, req[r].role>> \in offered

\* A change past its lookup works on a row that exists or existed, never on one
\* that acceptInvitation could still create.
ChangesFoundTheirRow ==
  \A r \in Requests : req[r].pc \in {"count", "write"} => member[req[r].id] # NoMember

IInv ==
  /\ TypeOK
  /\ ChangesFoundTheirRow
  /\ UnracedChangesSpareAnOwner
  /\ InvitationsWereOffered
  /\ AcceptancesWereOffered

-----------------------------------------------------------------------------
(* Lemmas *)

\* What updateMemberRole and removeMember count on: among more than one owner there
\* is one besides the member in question.
LEMMA AnotherOwner ==
  ASSUME NEW id \in MemberIds, EnoughOwners
  PROVE  \E m \in MemberIds \ {id} : IsOwner(m)
  <1> SUFFICES ASSUME \A m \in MemberIds \ {id} : ~IsOwner(m) PROVE FALSE
    OBVIOUS
  <1>1. Owners \subseteq {id}
    BY DEF Owners
  <1>2. IsFiniteSet({id}) /\ Cardinality({id}) = 1
    BY FS_Singleton
  <1>3. IsFiniteSet(Owners) /\ Cardinality(Owners) <= 1
    BY <1>1, <1>2, FS_Subset
  <1>4. Cardinality(Owners) \in Nat
    BY <1>3, FS_CardinalityType
  <1> QED BY <1>3, <1>4 DEF EnoughOwners

\* Where a request stands says which record it is.
LEMMA RequestRecords ==
  ASSUME TypeOK, NEW r \in Requests
  PROVE  /\ req[r].pc \in {"checkInvitee", "upsert"} =>
              /\ req[r] \in [pc : {"checkInvitee", "upsert"}, email : Users, role : Roles]
              /\ req[r].email \in Users /\ req[r].role \in Roles
         /\ req[r].pc = "enlist" =>
              /\ req[r] \in [pc : {"enlist"}, inv : InvitationIds, user : Users, role : Roles]
              /\ req[r].inv \in InvitationIds /\ req[r].user \in Users /\ req[r].role \in Roles
         /\ req[r].pc \in {"find", "count", "write"} =>
              /\ req[r] \in Change
              /\ req[r].id \in MemberIds /\ req[r].to \in Roles \cup {"REMOVED"}
              /\ req[r].raced \in BOOLEAN
  <1>1. req[r] \in Request
    BY DEF TypeOK
  <1>2. CASE req[r] \in [pc : {"checkInvitee", "upsert"}, email : Users, role : Roles]
    BY <1>2
  <1>3. CASE req[r] \in [pc : {"enlist"}, inv : InvitationIds, user : Users, role : Roles]
    BY <1>3
  <1>4. CASE req[r] \in Change
    BY <1>4 DEF Change
  <1>5. CASE req[r] = Idle
    BY <1>5 DEF Idle
  <1> QED BY <1>1, <1>2, <1>3, <1>4, <1>5 DEF Request

LEMMA InitIInv == Init => IInv
  <1> SUFFICES ASSUME Init PROVE IInv
    OBVIOUS
  <1>1. member \in [MemberIds -> Member \cup {NoMember, Deleted}]
    BY FounderAssumption, RoleAssumption DEF Init, Member, NoMember, Deleted
  <1>2. \A r \in Requests : req[r] = Idle /\ req[r].pc = "idle"
    BY DEF Init, Idle
  <1>3. \A i \in InvitationIds : invitation[i].status = "UNUSED"
    BY DEF Init, NoInvitation
  <1>4. TypeOK
    BY <1>1 DEF Init, TypeOK, Request
  <1> QED BY <1>2, <1>3, <1>4
    DEF IInv, UnracedChangesSpareAnOwner, ChangesFoundTheirRow, InvitationsWereOffered,
        AcceptancesWereOffered

\* A step that only sends a request on keeps the invariant if the request's new
\* place carries the facts the invariant asks for there.
LEMMA RequestStep ==
  ASSUME IInv, UNCHANGED <<member, invitation, offered>>, NEW r \in Requests, NEW q \in Request,
         Goto(r, q),
         q.pc = "write" /\ q.to # "OWNER" /\ IsOwner(q.id)
           => \E m \in MemberIds \ {q.id} : IsOwner(m),
         q.pc \in {"count", "write"} => member[q.id] # NoMember,
         q.pc = "enlist" => invitation[q.inv] # NoInvitation /\ <<q.user, q.role>> \in offered
  PROVE  IInv'
  <1>1. /\ req'[r] = q
        /\ \A s \in Requests \ {r} : req'[s] = req[s]
        /\ req' \in [Requests -> Request]
    BY DEF IInv, TypeOK, Goto
  <1>2. TypeOK'
    BY <1>1 DEF IInv, TypeOK
  <1>3. \A m : IsOwner(m)' <=> IsOwner(m)
    BY DEF IsOwner, Present
  <1>4. UnracedChangesSpareAnOwner'
    BY <1>1, <1>3 DEF IInv, UnracedChangesSpareAnOwner
  <1>5. InvitationsWereOffered'
    BY DEF IInv, InvitationsWereOffered
  <1>6. AcceptancesWereOffered'
    BY <1>1 DEF IInv, AcceptancesWereOffered
  <1>7. ChangesFoundTheirRow'
    BY <1>1 DEF IInv, ChangesFoundTheirRow
  <1> QED BY <1>2, <1>4, <1>5, <1>6, <1>7 DEF IInv

\* A role written or a row deleted: every other change that is past its lookup is
\* marked, so the invariant has nothing left to ask of it.
LEMMA MemberWrite ==
  ASSUME IInv, NEW r \in Requests, NEW id \in MemberIds, NEW new \in Member \cup {Deleted},
         member' = [member EXCEPT ![id] = new],
         DoneAndOthersRaced(r), UNCHANGED <<invitation, offered>>
  PROVE  IInv'
  <1>1. req' \in [Requests -> Request]
    <2> SUFFICES ASSUME NEW s \in Requests, req[s].pc \in {"count", "write"}
                 PROVE  [req[s] EXCEPT !.raced = TRUE] \in Request
      BY DEF IInv, TypeOK, DoneAndOthersRaced, Request
    <2> QED BY RequestRecords DEF IInv, Change, Request
  <1>2. \A s \in Requests :
          \/ req'[s] = Idle
          \/ req[s].pc \in {"count", "write"} /\ req'[s] = [req[s] EXCEPT !.raced = TRUE]
          \/ req[s].pc \notin {"count", "write"} /\ req'[s] = req[s]
    BY DEF DoneAndOthersRaced
  <1>3. \A s \in Requests :
          /\ req'[s].pc \in {"count", "write"} =>
               /\ req'[s].raced = TRUE /\ req[s].pc \in {"count", "write"}
               /\ req'[s].id = req[s].id
          /\ req'[s].pc = "enlist" => req'[s] = req[s]
    <2> SUFFICES ASSUME NEW s \in Requests
                 PROVE  /\ req'[s].pc \in {"count", "write"} =>
                             /\ req'[s].raced = TRUE /\ req[s].pc \in {"count", "write"}
                             /\ req'[s].id = req[s].id
                        /\ req'[s].pc = "enlist" => req'[s] = req[s]
      OBVIOUS
    <2>1. CASE req'[s] = Idle
      BY <2>1 DEF Idle
    <2>2. CASE req[s].pc \in {"count", "write"} /\ req'[s] = [req[s] EXCEPT !.raced = TRUE]
      BY <2>2, RequestRecords DEF IInv, Change
    <2>3. CASE req[s].pc \notin {"count", "write"} /\ req'[s] = req[s]
      BY <2>3
    <2> QED BY <1>2, <2>1, <2>2, <2>3
  <1>4. TypeOK'
    BY <1>1 DEF IInv, TypeOK
  <1>5. UnracedChangesSpareAnOwner'
    BY <1>3 DEF UnracedChangesSpareAnOwner
  <1>6. ChangesFoundTheirRow'
    <2> SUFFICES ASSUME NEW s \in Requests, req'[s].pc \in {"count", "write"}
                 PROVE  member'[req'[s].id] # NoMember
      BY DEF ChangesFoundTheirRow
    <2>1. req'[s].id = req[s].id /\ req[s].id \in MemberIds /\ member[req[s].id] # NoMember
      BY <1>3, RequestRecords DEF IInv, ChangesFoundTheirRow
    <2>2. new # NoMember
      BY DEF Member, Deleted, NoMember
    <2> QED BY <2>1, <2>2 DEF IInv, TypeOK
  <1>7. InvitationsWereOffered'
    BY DEF IInv, InvitationsWereOffered
  <1>8. AcceptancesWereOffered'
    BY <1>3 DEF IInv, AcceptancesWereOffered
  <1> QED BY <1>4, <1>5, <1>6, <1>7, <1>8 DEF IInv

LEMMA NextIInv == IInv /\ [Next]_vars => IInv'
  <1> SUFFICES ASSUME IInv, [Next]_vars PROVE IInv'
    OBVIOUS
  <1>0. TypeOK
    BY DEF IInv
  <1>1. ASSUME NEW r \in Requests, NEW email \in Users, NEW role \in Roles,
               BeginInvite(r, email, role)
        PROVE  IInv'
    <2> DEFINE q == [pc |-> "checkInvitee", email |-> email, role |-> role]
    <2>1. q \in Request /\ q.pc = "checkInvitee"
      BY DEF Request
    <2> QED BY <1>1, <2>1, RequestStep DEF BeginInvite
  <1>2. ASSUME NEW r \in Requests, CheckInvitee(r) PROVE IInv'
    <2> DEFINE q == IF IsMember(req[r].email) THEN Idle ELSE [req[r] EXCEPT !.pc = "upsert"]
    <2>1. q \in Request /\ q.pc \in {"idle", "upsert"}
      BY <1>0, <1>2, RequestRecords DEF CheckInvitee, Request, Idle
    <2> HIDE DEF q
    <2> QED BY <1>2, <2>1, RequestStep DEF CheckInvitee, q
  <1>3. ASSUME NEW r \in Requests, NEW i \in InvitationIds, Upsert(r, i) PROVE IInv'
    <2> DEFINE new == [status |-> "PENDING", email |-> req[r].email, role |-> req[r].role,
                       expired |-> FALSE]
    <2>1. req[r].email \in Users /\ req[r].role \in Roles
      BY <1>0, <1>3, RequestRecords DEF Upsert
    <2>2. new \in Invitation /\ new # NoInvitation
      BY <2>1 DEF Invitation, NoInvitation
    <2>3. /\ invitation' = [invitation EXCEPT ![i] = new] /\ member' = member
          /\ offered' = offered \cup {<<new.email, new.role>>}
          /\ req' = [req EXCEPT ![r] = Idle]
      BY <1>3 DEF Upsert, Goto
    <2>4. \A s \in Requests : req'[s] = req[s] \/ req'[s] = Idle
      BY <1>0, <2>3 DEF TypeOK
    <2> HIDE DEF new
    <2>5. TypeOK'
      BY <1>0, <2>1, <2>2, <2>3 DEF TypeOK, Request, new
    <2>6. UnracedChangesSpareAnOwner' /\ ChangesFoundTheirRow'
      BY <2>3, <2>4
      DEF IInv, UnracedChangesSpareAnOwner, ChangesFoundTheirRow, IsOwner, Present, Idle
    <2>7. InvitationsWereOffered'
      BY <1>0, <2>3 DEF IInv, TypeOK, InvitationsWereOffered
    <2>8. AcceptancesWereOffered'
      BY <1>0, <2>2, <2>3, <2>4 DEF IInv, TypeOK, AcceptancesWereOffered, Idle
    <2> QED BY <2>5, <2>6, <2>7, <2>8 DEF IInv
  <1>4. ASSUME NEW r \in Requests, NEW i \in InvitationIds, NEW user \in Users,
               BeginAccept(r, i, user)
        PROVE  IInv'
    <2> DEFINE q == [pc |-> "enlist", inv |-> i, user |-> user, role |-> invitation[i].role]
    <2>1. /\ invitation[i].status = "PENDING" /\ invitation[i].email = user
          /\ Goto(r, q) /\ UNCHANGED <<member, invitation, offered>>
      BY <1>4 DEF BeginAccept, ValidFor
    <2>2. invitation[i] \in Invitation /\ invitation[i] # NoInvitation
      BY <1>0, <2>1 DEF TypeOK, NoInvitation
    <2>3. q \in Request /\ q.pc = "enlist"
      BY <2>2 DEF Request, Invitation
    <2>4. <<q.user, q.role>> \in offered
      BY <2>1 DEF IInv, InvitationsWereOffered
    <2> QED BY <2>1, <2>2, <2>3, <2>4, RequestStep
  <1>5. ASSUME NEW r \in Requests, NEW m \in MemberIds, Enlist(r, m) PROVE IInv'
    <2> DEFINE i == req[r].inv
               new == [state |-> "present", user |-> req[r].user, role |-> req[r].role]
    <2>1. /\ i \in InvitationIds /\ req[r].user \in Users /\ req[r].role \in Roles
          /\ invitation[i] \in Invitation
      BY <1>0, <1>5, RequestRecords DEF IInv, Enlist, TypeOK, AcceptancesWereOffered
    <2>2. /\ member[m] = NoMember /\ member' = [member EXCEPT ![m] = new]
          /\ invitation' = [invitation EXCEPT ![i] = [invitation[i] EXCEPT !.status = "ACCEPTED"]]
          /\ req' = [req EXCEPT ![r] = Idle] /\ offered' = offered
      BY <1>0, <1>5, <2>1 DEF Enlist, Goto, TypeOK
    <2>3. \A s \in Requests : req'[s] = req[s] \/ req'[s] = Idle
      BY <1>0, <2>2 DEF TypeOK
    <2>4. new \in Member /\ new # NoMember
      BY <2>1 DEF Member, NoMember
    <2>5. /\ [invitation[i] EXCEPT !.status = "ACCEPTED"] \in Invitation
          /\ [invitation[i] EXCEPT !.status = "ACCEPTED"] # NoInvitation
          /\ [invitation[i] EXCEPT !.status = "ACCEPTED"].status # "PENDING"
      BY <2>1 DEF Invitation, NoInvitation
    <2> HIDE DEF i, new
    <2>6. TypeOK'
      BY <1>0, <2>1, <2>2, <2>4, <2>5 DEF TypeOK, Request
    <2>7. ~IsOwner(m)
      BY <2>2 DEF IsOwner, Present, NoMember
    <2>8. \A o \in MemberIds \ {m} : member'[o] = member[o] /\ (IsOwner(o)' <=> IsOwner(o))
      BY <1>0, <2>2 DEF TypeOK, IsOwner, Present
    <2>9. ChangesFoundTheirRow'
      BY <1>0, <2>2, <2>3, <2>4 DEF IInv, TypeOK, ChangesFoundTheirRow, Idle
    <2>10. UnracedChangesSpareAnOwner'
      <3> SUFFICES ASSUME NEW s \in Requests, req'[s].pc = "write", req'[s].raced = FALSE,
                          req'[s].to # "OWNER", IsOwner(req[s].id)'
                   PROVE  (\E o \in MemberIds \ {req[s].id} : IsOwner(o))'
        BY DEF UnracedChangesSpareAnOwner
      <3>1. req'[s] = req[s]
        BY <2>3 DEF Idle
      <3>2. req[s].id \in MemberIds /\ req[s].id # m
        BY <1>0, <2>2, <3>1, RequestRecords DEF IInv, ChangesFoundTheirRow
      <3>3. PICK o \in MemberIds \ {req[s].id} : IsOwner(o)
        BY <2>8, <3>1, <3>2 DEF IInv, UnracedChangesSpareAnOwner
      <3> QED BY <2>7, <2>8, <3>1, <3>3
    <2>11. InvitationsWereOffered'
      BY <1>0, <2>1, <2>2, <2>5 DEF IInv, TypeOK, InvitationsWereOffered
    <2>12. AcceptancesWereOffered'
      BY <1>0, <2>1, <2>2, <2>3, <2>5 DEF IInv, TypeOK, AcceptancesWereOffered, Idle
    <2> QED BY <2>6, <2>9, <2>10, <2>11, <2>12 DEF IInv
  <1>6. ASSUME NEW r \in Requests, NEW m \in MemberIds, NEW to \in Roles \cup {"REMOVED"},
               BeginChange(r, m, to)
        PROVE  IInv'
    <2> DEFINE q == [pc |-> "find", id |-> m, to |-> to, raced |-> FALSE]
    <2>1. q \in Request /\ q.pc = "find"
      BY DEF Request, Change
    <2> QED BY <1>6, <2>1, RequestStep DEF BeginChange
  <1>7. ASSUME NEW r \in Requests, FindMember(r) PROVE IInv'
    <2>1. req[r] \in Change /\ req[r].id \in MemberIds
      BY <1>0, <1>7, RequestRecords DEF FindMember
    <2>2. CASE ~Present(req[r].id)
      BY <1>7, <2>2, RequestStep DEF FindMember, Request, Idle
    <2>3. CASE Present(req[r].id) /\ IsOwner(req[r].id) /\ req[r].to # "OWNER"
      <3> DEFINE q == [req[r] EXCEPT !.pc = "count"]
      <3>1. q \in Request /\ q.pc = "count" /\ q.id = req[r].id
        BY <2>1 DEF Request, Change
      <3>2. Goto(r, q) /\ UNCHANGED <<member, invitation, offered>> /\ member[q.id] # NoMember
        BY <1>7, <2>3, <3>1 DEF FindMember, Present, NoMember
      <3> HIDE DEF q
      <3> QED BY <3>1, <3>2, RequestStep
    <2>4. CASE Present(req[r].id) /\ ~(IsOwner(req[r].id) /\ req[r].to # "OWNER")
      <3> DEFINE q == [req[r] EXCEPT !.pc = "write"]
      <3>1. q \in Request /\ q.pc = "write" /\ q.id = req[r].id /\ q.to = req[r].to
        BY <2>1 DEF Request, Change
      <3>2. Goto(r, q) /\ UNCHANGED <<member, invitation, offered>> /\ member[q.id] # NoMember
        BY <1>7, <2>4, <3>1 DEF FindMember, Present, NoMember
      <3> HIDE DEF q
      <3> QED BY <2>4, <3>1, <3>2, RequestStep
    <2> QED BY <2>2, <2>3, <2>4
  <1>8. ASSUME NEW r \in Requests, CountOwners(r) PROVE IInv'
    <2>1. req[r] \in Change /\ req[r].id \in MemberIds
      BY <1>0, <1>8, RequestRecords DEF CountOwners
    <2>2. CASE EnoughOwners
      <3> DEFINE q == [req[r] EXCEPT !.pc = "write"]
      <3>1. q \in Request /\ q.pc = "write" /\ q.id = req[r].id
        BY <2>1 DEF Request, Change
      <3>2. \E m \in MemberIds \ {q.id} : IsOwner(m)
        BY <2>1, <2>2, <3>1, AnotherOwner
      <3>3. Goto(r, q) /\ UNCHANGED <<member, invitation, offered>> /\ member[q.id] # NoMember
        BY <1>8, <2>2, <3>1 DEF IInv, CountOwners, ChangesFoundTheirRow
      <3> HIDE DEF q
      <3> QED BY <3>1, <3>2, <3>3, RequestStep
    <2>3. CASE ~EnoughOwners
      BY <1>8, <2>3, RequestStep DEF CountOwners, Request, Idle
    <2> QED BY <2>2, <2>3
  <1>9. ASSUME NEW r \in Requests, WriteRole(r) PROVE IInv'
    <2> DEFINE new == [member[req[r].id] EXCEPT !.role = req[r].to]
    <2>1. req[r].id \in MemberIds /\ req[r].to \in Roles
      BY <1>0, <1>9, RequestRecords DEF WriteRole
    <2>2. member[req[r].id] \in Member
      BY <1>0, <1>9, <2>1 DEF WriteRole, Present, TypeOK, NoMember, Deleted
    <2>3. new \in Member
      BY <2>1, <2>2 DEF Member
    <2>4. member' = [member EXCEPT ![req[r].id] = new]
      BY <1>0, <1>9, <2>1 DEF WriteRole, TypeOK
    <2> HIDE DEF new
    <2> QED BY <1>9, <2>1, <2>3, <2>4, MemberWrite DEF WriteRole
  <1>10. ASSUME NEW r \in Requests, DeleteMember(r) PROVE IInv'
    <2>1. req[r].id \in MemberIds
      BY <1>0, <1>10, RequestRecords DEF DeleteMember
    <2> QED BY <1>10, <2>1, MemberWrite DEF DeleteMember
  <1>11. ASSUME NEW r \in Requests, Abort(r) PROVE IInv'
    BY <1>11, RequestStep DEF Abort, Request, Idle
  <1>12. ASSUME NEW i \in InvitationIds, Expire(i) PROVE IInv'
    <2> DEFINE new == [invitation[i] EXCEPT !.expired = TRUE]
    <2>1. invitation[i] \in Invitation
      BY <1>0, <1>12 DEF Expire, TypeOK, NoInvitation
    <2>2. /\ new \in Invitation /\ new # NoInvitation /\ new.status = invitation[i].status
          /\ new.email = invitation[i].email /\ new.role = invitation[i].role
      BY <2>1 DEF Invitation, NoInvitation
    <2>3. invitation' = [invitation EXCEPT ![i] = new] /\ UNCHANGED <<member, req, offered>>
      BY <1>0, <1>12 DEF Expire, TypeOK
    <2> HIDE DEF new
    <2>4. TypeOK'
      BY <1>0, <2>2, <2>3 DEF TypeOK
    <2>5. UnracedChangesSpareAnOwner' /\ ChangesFoundTheirRow'
      BY <2>3 DEF IInv, UnracedChangesSpareAnOwner, ChangesFoundTheirRow, IsOwner, Present
    <2>6. InvitationsWereOffered'
      BY <1>0, <2>2, <2>3 DEF IInv, TypeOK, InvitationsWereOffered
    <2>7. AcceptancesWereOffered'
      BY <1>0, <2>2, <2>3 DEF IInv, TypeOK, AcceptancesWereOffered
    <2> QED BY <2>4, <2>5, <2>6, <2>7 DEF IInv
  <1>13. CASE UNCHANGED vars
    BY <1>13 DEF vars, IInv, TypeOK, UnracedChangesSpareAnOwner, ChangesFoundTheirRow,
      InvitationsWereOffered, AcceptancesWereOffered, IsOwner, Present
  <1> QED BY <1>1, <1>2, <1>3, <1>4, <1>5, <1>6, <1>7, <1>8, <1>9, <1>10, <1>11, <1>12, <1>13
    DEF Next, Step

LEMMA AlwaysIInv == Spec => []IInv
  BY InitIInv, NextIInv, PTL DEF Spec

-----------------------------------------------------------------------------
(* The theorems *)

\* Members, invitations and requests keep to their types in invite,
\* acceptInvitation, updateMemberRole, removeMember and their failures.
THEOREM MembersTypeCorrect == Spec => []TypeOK
  <1>1. IInv => TypeOK
    BY DEF IInv
  <1> QED BY <1>1, AlwaysIInv, PTL

\* updateMemberRole and removeMember: without an overlapping change the check on the
\* number of owners is enough, whatever else happens to members and invitations.
THEOREM LastOwnerIsSafeWithoutARace == Spec => LastOwnerLeavesOnlyInARace
  <1>1. ASSUME IInv, [Next]_vars, Owners # {}, Owners' = {}
        PROVE  \E r \in Requests : req[r].pc = "write" /\ req[r].raced /\ req'[r] = Idle
    <2>1. PICK o \in MemberIds : IsOwner(o)
      BY <1>1 DEF Owners
    <2>2. \A m \in MemberIds : ~IsOwner(m)'
      BY <1>1 DEF Owners
    <2>3. ASSUME NEW r \in Requests, WriteRole(r) \/ DeleteMember(r)
          PROVE  req[r].pc = "write" /\ req[r].raced /\ req'[r] = Idle
      <3>1. req[r].id \in MemberIds /\ req[r].to \in Roles \cup {"REMOVED"} /\ req[r].pc = "write"
        BY <1>1, <2>3, RequestRecords DEF IInv, WriteRole, DeleteMember
      <3>2. \A m \in MemberIds \ {req[r].id} : IsOwner(m)' <=> IsOwner(m)
        BY <1>1, <2>3 DEF IInv, TypeOK, WriteRole, DeleteMember, IsOwner, Present
      <3>3. IsOwner(req[r].id) /\ \A m \in MemberIds \ {req[r].id} : ~IsOwner(m)
        BY <2>1, <2>2, <3>2
      <3>4. req[r].to # "OWNER"
        BY <1>1, <2>2, <2>3, <3>1
        DEF IInv, TypeOK, WriteRole, DeleteMember, IsOwner, Present, Member, NoMember, Deleted
      <3>5. req[r].raced # FALSE
        BY <1>1, <3>1, <3>3, <3>4 DEF IInv, UnracedChangesSpareAnOwner
      <3>6. req[r].raced \in BOOLEAN
        BY <1>1, <3>1, RequestRecords DEF IInv
      <3>7. req'[r] = Idle
        BY <2>3 DEF WriteRole, DeleteMember, DoneAndOthersRaced
      <3> QED BY <3>1, <3>5, <3>6, <3>7
    <2>4. ASSUME NEW r \in Requests, NEW m \in MemberIds, Enlist(r, m) PROVE FALSE
      <3>1. o # m
        BY <2>1, <2>4 DEF Enlist, IsOwner, Present, NoMember
      <3>2. member'[o] = member[o]
        BY <1>1, <2>4, <3>1 DEF IInv, TypeOK, Enlist
      <3> QED BY <2>1, <2>2, <3>2 DEF IsOwner, Present
    <2>5. ASSUME member' = member PROVE FALSE
      BY <2>1, <2>2, <2>5 DEF IsOwner, Present
    <2> QED BY <1>1, <2>3, <2>4, <2>5
      DEF Next, Step, vars, BeginInvite, CheckInvitee, Upsert, BeginAccept, BeginChange, FindMember,
          CountOwners, Abort, Expire
  <1>2. IInv /\ [Next]_vars =>
          [Owners # {} /\ Owners' = {} =>
             \E r \in Requests : req[r].pc = "write" /\ req[r].raced /\ req'[r] = Idle]_vars
    BY <1>1
  <1> QED BY <1>2, AlwaysIInv, PTL DEF Spec, LastOwnerLeavesOnlyInARace

\* acceptInvitation: a membership is only ever created in a role that was offered to
\* its user, although the role is read before the transaction that uses it.
THEOREM JoiningNeedsAnOffer == Spec => MembersWereInvited
  <1>1. ASSUME IInv, [Next]_vars, NEW m \in MemberIds, member[m] = NoMember, member'[m] # NoMember
        PROVE  <<member'[m].user, member'[m].role>> \in offered
    <2>1. ASSUME NEW r \in Requests, NEW n \in MemberIds, Enlist(r, n)
          PROVE  <<member'[m].user, member'[m].role>> \in offered
      <3>1. n = m
        BY <1>1, <2>1 DEF IInv, TypeOK, Enlist
      <3>2. member'[m] = [state |-> "present", user |-> req[r].user, role |-> req[r].role]
        BY <1>1, <2>1, <3>1 DEF IInv, TypeOK, Enlist
      <3> QED BY <1>1, <2>1, <3>2 DEF IInv, AcceptancesWereOffered, Enlist
    <2>2. ASSUME NEW r \in Requests, WriteRole(r) \/ DeleteMember(r) PROVE FALSE
      <3>1. req[r].id \in MemberIds /\ req[r].id # m
        BY <1>1, <2>2, RequestRecords DEF IInv, WriteRole, DeleteMember, Present, NoMember
      <3>2. member'[m] = member[m]
        BY <1>1, <2>2, <3>1 DEF IInv, TypeOK, WriteRole, DeleteMember
      <3> QED BY <1>1, <3>2
    <2> QED BY <1>1, <2>1, <2>2
      DEF Next, Step, vars, BeginInvite, CheckInvitee, Upsert, BeginAccept, BeginChange, FindMember,
          CountOwners, Abort, Expire
  <1>2. IInv /\ [Next]_vars =>
          [\A m \in MemberIds :
             member[m] = NoMember /\ member'[m] # NoMember =>
               <<member'[m].user, member'[m].role>> \in offered]_vars
    BY <1>1
  <1> QED BY <1>2, AlwaysIInv, PTL DEF Spec, MembersWereInvited
=============================================================================
