---------------------------- MODULE Organizations ----------------------------
(***************************************************************************)
(* Members and invitations of one organization,                            *)
(* Backend/src/organizations/organizations.service.ts, behind RolesGuard.  *)
(*                                                                         *)
(* As in EscrowsService, requests interleave at every await and updates go *)
(* by id.  A user stands for his e-mail address.  Which manager asks is    *)
(* not recorded: the guard lets the request in and nothing reads it again. *)
(***************************************************************************)
EXTENDS Naturals, FiniteSets

CONSTANTS Users,
          Founder,        \* who called create()
          FoundersRow,    \* the membership create() made
          MemberIds,      \* rows of organization_members: bounds how many are ever made
          InvitationIds,  \* rows of organization_invitations: likewise
          Requests,       \* requests in flight at once
          Roles           \* the MemberRoles in use

ASSUME FounderAssumption == Founder \in Users /\ FoundersRow \in MemberIds

ASSUME RoleAssumption == {"OWNER", "ADMIN"} \subseteq Roles /\ "REMOVED" \notin Roles

VARIABLES member,      \* the membership rows, never reused once deleted
          invitation,  \* the invitation rows, never deleted
          req,         \* the requests in flight
          offered      \* history: what invite() has ever offered to whom

vars == <<member, invitation, req, offered>>

Managers == {"OWNER", "ADMIN"}

NoMember == [state |-> "unused"]
Deleted  == [state |-> "deleted"]
Member   == [state : {"present"}, user : Users, role : Roles]

NoInvitation == [status |-> "UNUSED"]
Invitation   == [status : {"PENDING", "ACCEPTED"}, email : Users, role : Roles, expired : BOOLEAN]

Idle == [pc |-> "idle"]

\* A change of role, or a removal: to says which.  raced is history: somebody
\* else's change landed since this request looked the member up.
Change == [pc : {"find", "count", "write"}, id : MemberIds,
           to : Roles \cup {"REMOVED"}, raced : BOOLEAN]

Request ==
  [pc : {"checkInvitee", "upsert"}, email : Users, role : Roles]
    \cup [pc : {"enlist"}, inv : InvitationIds, user : Users, role : Roles]
    \cup Change \cup {Idle}

TypeOK ==
  /\ member \in [MemberIds -> Member \cup {NoMember, Deleted}]
  /\ invitation \in [InvitationIds -> Invitation \cup {NoInvitation}]
  /\ req \in [Requests -> Request]
  /\ offered \subseteq Users \X Roles

Present(m) == member[m].state = "present"
IsOwner(m) == Present(m) /\ member[m].role = "OWNER"
Owners == {m \in MemberIds : IsOwner(m)}

IsMember(user) == \E m \in MemberIds : Present(m) /\ member[m].user = user

\* RolesGuard with @Roles('OWNER', 'ADMIN'): somebody could make the request.
GuardAdmits == \E m \in MemberIds : Present(m) /\ member[m].role \in Managers

\* create(): the organization with its first owner.
Init ==
  /\ member = [m \in MemberIds |->
                 IF m = FoundersRow
                 THEN [state |-> "present", user |-> Founder, role |-> "OWNER"] ELSE NoMember]
  /\ invitation = [i \in InvitationIds |-> NoInvitation]
  /\ req = [r \in Requests |-> Idle]
  /\ offered = {}

Goto(r, q) == req' = [req EXCEPT ![r] = q]

-----------------------------------------------------------------------------
(* invite() *)

BeginInvite(r, email, role) ==
  /\ req[r] = Idle
  /\ GuardAdmits
  /\ Goto(r, [pc |-> "checkInvitee", email |-> email, role |-> role])
  /\ UNCHANGED <<member, invitation, offered>>

CheckInvitee(r) ==
  /\ req[r].pc = "checkInvitee"
  /\ Goto(r, IF IsMember(req[r].email) THEN Idle ELSE [req[r] EXCEPT !.pc = "upsert"])
  /\ UNCHANGED <<member, invitation, offered>>

\* The row the upsert finds by (organization, email, PENDING); a new one otherwise.
UpsertsInto(email, i) ==
  \/ invitation[i].status = "PENDING" /\ invitation[i].email = email
  \/ /\ invitation[i] = NoInvitation
     /\ \A j \in InvitationIds : invitation[j].status = "PENDING" => invitation[j].email # email

\* The link already sent dies with the token hash; the row keeps its identity.
Upsert(r, i) ==
  /\ req[r].pc = "upsert"
  /\ UpsertsInto(req[r].email, i)
  /\ invitation' = [invitation EXCEPT ![i] =
       [status |-> "PENDING", email |-> req[r].email, role |-> req[r].role, expired |-> FALSE]]
  /\ offered' = offered \cup {<<req[r].email, req[r].role>>}
  /\ Goto(r, Idle)
  /\ UNCHANGED member

Expire(i) ==
  /\ invitation[i].status = "PENDING" /\ ~invitation[i].expired
  /\ invitation' = [invitation EXCEPT ![i].expired = TRUE]
  /\ UNCHANGED <<member, req, offered>>

-----------------------------------------------------------------------------
(* acceptInvitation() *)

\* Variant: whoever has the link.
ValidForAnyone(i, user) == invitation[i].status = "PENDING" /\ ~invitation[i].expired

ValidFor(i, user) ==
  /\ invitation[i].status = "PENDING" /\ ~invitation[i].expired
  /\ invitation[i].email = user

BeginAccept(r, i, user) ==
  /\ req[r] = Idle
  /\ ValidFor(i, user)
  /\ Goto(r, [pc |-> "enlist", inv |-> i, user |-> user, role |-> invitation[i].role])
  /\ UNCHANGED <<member, invitation, offered>>

\* @@unique([organizationId, email, status]): a second ACCEPTED row is refused.
SpentBefore(i) ==
  \E j \in InvitationIds \ {i} :
    invitation[j].status = "ACCEPTED" /\ invitation[j].email = invitation[i].email

\* The transaction creates the membership and marks the row by its id; either
\* unique constraint undoes both, and the request fails.
Enlist(r, m) ==
  /\ req[r].pc = "enlist"
  /\ ~IsMember(req[r].user)
  /\ ~SpentBefore(req[r].inv)
  /\ member[m] = NoMember
  /\ member' = [member EXCEPT ![m] =
       [state |-> "present", user |-> req[r].user, role |-> req[r].role]]
  /\ invitation' = [invitation EXCEPT ![req[r].inv].status = "ACCEPTED"]
  /\ Goto(r, Idle)
  /\ UNCHANGED offered

-----------------------------------------------------------------------------
(* updateMemberRole() and removeMember() *)

BeginChange(r, m, to) ==
  /\ req[r] = Idle
  /\ GuardAdmits
  /\ Goto(r, [pc |-> "find", id |-> m, to |-> to, raced |-> FALSE])
  /\ UNCHANGED <<member, invitation, offered>>

\* Only an owner who stops being one is counted.
FindMember(r) ==
  /\ req[r].pc = "find"
  /\ Goto(r, IF ~Present(req[r].id) THEN Idle
             ELSE IF IsOwner(req[r].id) /\ req[r].to # "OWNER" THEN [req[r] EXCEPT !.pc = "count"]
             ELSE [req[r] EXCEPT !.pc = "write"])
  /\ UNCHANGED <<member, invitation, offered>>

\* Variant: the last owner counts as enough.
SomeOwner == Cardinality(Owners) >= 1

EnoughOwners == Cardinality(Owners) > 1

CountOwners(r) ==
  /\ req[r].pc = "count"
  /\ Goto(r, IF EnoughOwners THEN [req[r] EXCEPT !.pc = "write"] ELSE Idle)
  /\ UNCHANGED <<member, invitation, offered>>

DoneAndOthersRaced(r) ==
  req' = [s \in Requests |->
            IF s = r THEN Idle
            ELSE IF req[s].pc \in {"count", "write"} THEN [req[s] EXCEPT !.raced = TRUE]
            ELSE req[s]]

\* By id, on whatever the row has become; a row that is gone fails the request.
WriteRole(r) ==
  /\ req[r].pc = "write" /\ req[r].to # "REMOVED"
  /\ Present(req[r].id)
  /\ member' = [member EXCEPT ![req[r].id].role = req[r].to]
  /\ DoneAndOthersRaced(r)
  /\ UNCHANGED <<invitation, offered>>

\* Variant: the row stays, with a role that says the member is gone.
RetireMember(r) ==
  /\ req[r].pc = "write" /\ req[r].to = "REMOVED"
  /\ Present(req[r].id)
  /\ member' = [member EXCEPT ![req[r].id].role = "REMOVED"]
  /\ DoneAndOthersRaced(r)
  /\ UNCHANGED <<invitation, offered>>

DeleteMember(r) ==
  /\ req[r].pc = "write" /\ req[r].to = "REMOVED"
  /\ Present(req[r].id)
  /\ member' = [member EXCEPT ![req[r].id] = Deleted]
  /\ DoneAndOthersRaced(r)
  /\ UNCHANGED <<invitation, offered>>

-----------------------------------------------------------------------------

\* A constraint, a row that is gone, the database or the process: the request ends.
Abort(r) ==
  /\ req[r] # Idle
  /\ Goto(r, Idle)
  /\ UNCHANGED <<member, invitation, offered>>

Step(r) ==
  \/ \E email \in Users, role \in Roles : BeginInvite(r, email, role)
  \/ CheckInvitee(r)
  \/ \E i \in InvitationIds : Upsert(r, i)
  \/ \E i \in InvitationIds, user \in Users : BeginAccept(r, i, user)
  \/ \E m \in MemberIds : Enlist(r, m)
  \/ \E m \in MemberIds, to \in Roles \cup {"REMOVED"} : BeginChange(r, m, to)
  \/ FindMember(r)
  \/ CountOwners(r)
  \/ WriteRole(r)
  \/ DeleteMember(r)
  \/ Abort(r)

Next == (\E r \in Requests : Step(r)) \/ (\E i \in InvitationIds : Expire(i))

Spec == Init /\ [][Next]_vars

-----------------------------------------------------------------------------
(* Safety *)

\* updateMemberRole and removeMember: the organization loses its last owner only
\* when the change that takes it overlapped another one, which landed between its
\* lookup and its write.  Requests that do not overlap keep an owner, however long
\* the sequence of invitations, promotions, demotions and removals.
LastOwnerLeavesOnlyInARace ==
  [][Owners # {} /\ Owners' = {} =>
       \E r \in Requests : req[r].pc = "write" /\ req[r].raced /\ req'[r] = Idle]_vars

\* acceptInvitation: whoever becomes a member does so in a role that a manager
\* offered to him, even when the invitation changed while he was accepting it.
MembersWereInvited ==
  [][\A m \in MemberIds :
       member[m] = NoMember /\ member'[m] # NoMember =>
         <<member'[m].user, member'[m].role>> \in offered]_vars

-----------------------------------------------------------------------------
(* What the comments, the checks and the tests say and the code does not do *)

\* organizations.service.ts:131, 152: an organization must have at least one owner.
KeepsAnOwner == Owners # {}

\* organizations.service.spec.ts:167: a valid link creates a membership; only
\* somebody who is a member already is in its way.
ValidInvitationJoins ==
  \A r \in Requests :
    req[r].pc = "enlist" /\ invitation[req[r].inv].status = "PENDING" /\ ~IsMember(req[r].user)
      => ~SpentBefore(req[r].inv)
=============================================================================
