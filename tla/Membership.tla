----------------------------- MODULE Membership -----------------------------
(***************************************************************************)
(* Who belongs to an org and in which role: core/services/orgs.py,         *)
(* invitations.py and entitlements.py, and the settings views that call    *)
(* them.                                                                   *)
(*                                                                         *)
(* These handlers run in autocommit: they load a row, check the caller,    *)
(* count owners or seats and write, one statement at a time, and lock      *)
(* nothing.  A Worker is such a handler and each of its statements is a    *)
(* step.  Accepting an invitation and creating an org are transactions     *)
(* under a row lock or on rows of their own, so each is one step that may  *)
(* come between any two of a worker's.                                     *)
(*                                                                         *)
(* A user stands for an email address and the account that has it.         *)
(***************************************************************************)
EXTENDS Naturals, FiniteSets

CONSTANTS
    Officer,     \* handlers of member_role, member_remove, org_leave, org_delete
    Inviter,     \* handlers of invite_create
    User,
    Org,         \* primary keys of core_org
    Invitation,  \* primary keys of core_invitation
    SeatLimit,   \* what the entitlements hook allows; self-hosting has no limit
    None

ASSUME SeatLimitAssumption == SeatLimit \in Nat \ {0}
ASSUME NoneAssumption == None \notin User \cup Org \cup Invitation
ASSUME FiniteAssumption == IsFiniteSet(User) /\ IsFiniteSet(Invitation)

Worker == Officer \cup Inviter

Role == {"owner", "admin", "member"}
\* What a form may post: "unknown" stands for every string that is no role.
PostedRole == Role \cup {"unknown"}

\* A row of core_orgmember; via, the invitation that made it or None for the
\* founder's, tells a row from the one a user gets on coming back.  Its role is
\* the invitation's, and that is what the form posted: no view, no service and no
\* constraint of the database compares it with the choices.
MemberRow == [role : PostedRole \cup {"none"}, via : Invitation \cup {None}]
NoMember == [role |-> "none", via |-> None]

NoInvitation == [state |-> "absent", org |-> None, user |-> None, role |-> "member"]
DeletedInvitation == [NoInvitation EXCEPT !.state = "deleted"]
InvitationRow == {NoInvitation, DeletedInvitation} \cup
                 [state : {"pending", "accepted"}, org : Org, user : User, role : PostedRole]

Request == [op : {"none", "role", "remove", "leave", "delete_org", "invite"},
            step : {"idle", "loaded", "authorized", "counted", "cleared"},
            org : Org \cup {None}, actor : User \cup {None},
            target : User \cup {None}, row : MemberRow, role : PostedRole, pending : Nat]
Idle == [op |-> "none", step |-> "idle", org |-> None, actor |-> None,
         target |-> None, row |-> NoMember, role |-> "member", pending |-> 0]

VARIABLES
    orgs,         \* the state of each org's row
    members,      \* members[o][u]: u's row in o (unique_together user, org)
    invitations,  \* the rows of core_invitation
    request       \* request[w]: what handler w has read so far

data == <<orgs, members, invitations>>
vars == <<orgs, members, invitations, request>>

TypeOK ==
    /\ orgs \in [Org -> {"absent", "live", "deleted"}]
    /\ members \in [Org -> [User -> MemberRow]]
    /\ invitations \in [Invitation -> InvitationRow]
    /\ request \in [Worker -> Request]

IsMember(o, u) == members[o][u].role # "none"
Owners(o) == {u \in User : members[o][u].role = "owner"}
Seats(o) == {u \in User : IsMember(o, u)}
Pending(o) == {i \in Invitation : invitations[i].state = "pending" /\ invitations[i].org = o}

IsOrgOwner(u, o) == members[o][u].role = "owner"
IsOrgAdmin(u, o) == members[o][u].role \in {"owner", "admin"}

-----------------------------------------------------------------------------
(* A handler's progress *)

At(w, op, step) == request[w].op = op /\ request[w].step = step

GoTo(w, step) == request' = [request EXCEPT ![w].step = step] /\ UNCHANGED data
Respond(w) == request' = [request EXCEPT ![w] = Idle]

\* The handler answers 400, 402, 403 or 500 and has written nothing.
Refuse(w) == Respond(w) /\ UNCHANGED data

\* An allowed request goes on to the next statement.
Check(w, allowed, step) ==
    \/ allowed /\ GoTo(w, step)
    \/ ~allowed /\ Refuse(w)

\* TenantMiddleware lets a member in, and the views that change a membership
\* load its row.  The role is whatever was posted, whatever the form offers.
Begin(w) ==
    /\ request[w].step = "idle"
    /\ \E op \in {"role", "remove", "leave", "delete_org", "invite"},
          o \in Org, actor, target \in User, role \in PostedRole :
        /\ w \in (IF op = "invite" THEN Inviter ELSE Officer)
        /\ IsMember(o, actor)
        /\ op \in {"role", "remove"} => IsMember(o, target)
        /\ op \in {"leave", "delete_org"} => target = actor
        /\ op \notin {"role", "invite"} => role = "member"
        /\ request' = [request EXCEPT ![w] =
                        [Idle EXCEPT !.op = op, !.step = "loaded", !.org = o,
                                     !.actor = actor, !.target = target, !.role = role,
                                     !.row = IF op \in {"role", "remove", "leave"}
                                             THEN members[o][target] ELSE NoMember]]
    /\ UNCHANGED data

\* is_org_owner() or is_org_admin(), as the view asks for.  Leaving needs no
\* permission.
Authorize(w) ==
    LET r == request[w] IN
    /\ r.step = "loaded" /\ r.op # "leave"
    /\ Check(w, IF r.op \in {"role", "delete_org"} THEN IsOrgOwner(r.actor, r.org)
                ELSE IsOrgAdmin(r.actor, r.org), "authorized")

\* The row loaded before is still in the table.
RowThere(r) == members[r.org][r.target].via = r.row.via /\ IsMember(r.org, r.target)

\* An UPDATE or DELETE by primary key: without the row it changes nothing.
SetRow(r, row) ==
    members' = IF RowThere(r) THEN [members EXCEPT ![r.org][r.target] = row] ELSE members

-----------------------------------------------------------------------------
(* Roles *)

\* Mutant: the owners are not counted.
OwnerToSpareUnchecked(row, o) == TRUE
\* _owner_count() is asked when an owner is about to stop being one.
OwnerToSpare(row, o) == row.role = "owner" => Cardinality(Owners(o)) > 1

ValidRole(role) == role \in Role

\* change_member_role(): a known role, and the last owner keeps theirs...
CountForRole(w) ==
    LET r == request[w] IN
    /\ At(w, "role", "authorized")
    /\ Check(w, ValidRole(r.role) /\ (r.role # "owner" => OwnerToSpare(r.row, r.org)), "cleared")

\* ... and save(update_fields=["role"]).
SaveRole(w) ==
    LET r == request[w] IN
    /\ At(w, "role", "cleared")
    /\ SetRow(r, [r.row EXCEPT !.role = r.role])
    /\ Respond(w)
    /\ UNCHANGED <<orgs, invitations>>

\* Mutant: an owner can be removed like anyone else.
Anyone(row) == TRUE
\* remove_member() refuses an owner, by the row in memory.
Removable(row) == row.role # "owner"

RemoveMember(w) ==
    LET r == request[w] IN
    /\ At(w, "remove", "authorized")
    /\ \/ Removable(r.row) /\ SetRow(r, NoMember)
       \/ ~Removable(r.row) /\ UNCHANGED members
    /\ Respond(w)
    /\ UNCHANGED <<orgs, invitations>>

\* leave_org(): not the sole owner...
CountOwnersToLeave(w) ==
    /\ At(w, "leave", "loaded")
    /\ Check(w, OwnerToSpare(request[w].row, request[w].org), "counted")

\* Mutant: >= for >.
AnotherOrgOffByOne(u) == Cardinality({o \in Org : IsMember(o, u)}) >= 1
AnotherOrg(u) == Cardinality({o \in Org : IsMember(o, u)}) > 1

\* ... and not the user's last org...
CountOrgsToLeave(w) ==
    /\ At(w, "leave", "counted")
    /\ Check(w, AnotherOrg(request[w].actor), "cleared")

\* ... and the row goes.
Leave(w) ==
    /\ At(w, "leave", "cleared")
    /\ SetRow(request[w], NoMember)
    /\ Respond(w)
    /\ UNCHANGED <<orgs, invitations>>

-----------------------------------------------------------------------------
(* Orgs *)

\* create_org(): the creator is its owner.
CreateOrg ==
    /\ \E o \in Org, u \in User :
        /\ orgs[o] = "absent"
        /\ orgs' = [orgs EXCEPT ![o] = "live"]
        /\ members' = [members EXCEPT ![o][u] = [role |-> "owner", via |-> None]]
    /\ UNCHANGED <<invitations, request>>

\* Mutant: the foreign key of an invitation is set to null and does not cascade.
InvitationOrphaned(row, o) == IF row.org = o THEN [row EXCEPT !.org = None] ELSE row
InvitationWithout(row, o) == IF row.org = o THEN DeletedInvitation ELSE row

\* org_delete(): members and invitations go with the org.
DeleteOrg(w) ==
    LET o == request[w].org IN
    /\ At(w, "delete_org", "authorized")
    /\ orgs' = [orgs EXCEPT ![o] = "deleted"]
    /\ members' = [members EXCEPT ![o] = [u \in User |-> NoMember]]
    /\ invitations' = [i \in Invitation |-> InvitationWithout(invitations[i], o)]
    /\ Respond(w)

-----------------------------------------------------------------------------
(* Invitations *)

\* create_invitation(): not for a member, and assert_can_add_seat() counts the
\* pending invitations first...
CountPending(w) ==
    LET r == request[w] IN
    /\ At(w, "invite", "authorized")
    /\ \/ /\ ~IsMember(r.org, r.target)
          /\ request' = [request EXCEPT ![w].step = "counted",
                                        ![w].pending = Cardinality(Pending(r.org))]
       \/ IsMember(r.org, r.target) /\ Respond(w)
    /\ UNCHANGED data

\* Mutant: one seat too many.
FreeSeatOffByOne(taken) == taken <= SeatLimit
FreeSeat(taken) == taken < SeatLimit

\* ... then the members, seat_count()...
CountSeats(w) ==
    /\ At(w, "invite", "counted")
    /\ Check(w, FreeSeat(Cardinality(Seats(request[w].org)) + request[w].pending), "cleared")

\* ... and the INSERT needs the org to be there still.
InsertInvitation(w) ==
    LET r == request[w] IN
    /\ At(w, "invite", "cleared")
    /\ \/ /\ orgs[r.org] = "live"
          /\ \E i \in Invitation :
              /\ invitations[i].state = "absent"
              /\ invitations' = [invitations EXCEPT ![i] =
                    [state |-> "pending", org |-> r.org, user |-> r.target, role |-> r.role]]
       \/ orgs[r.org] # "live" /\ UNCHANGED invitations
    /\ Respond(w)
    /\ UNCHANGED <<orgs, members>>

\* Mutant: the invitation is not marked as used.
AcceptWithoutSpending ==
    /\ \E i \in Invitation :
        LET inv == invitations[i] IN
        /\ inv.state = "pending"
        /\ ~IsMember(inv.org, inv.user)
        /\ members' = [members EXCEPT ![inv.org][inv.user] = [role |-> inv.role, via |-> i]]
    /\ UNCHANGED <<orgs, invitations, request>>

\* accept_invitation(), by the invited user: under the invitation's row lock.
AcceptInvitation ==
    /\ \E i \in Invitation :
        LET inv == invitations[i] IN
        /\ inv.state = "pending"
        /\ ~IsMember(inv.org, inv.user)
        /\ members' = [members EXCEPT ![inv.org][inv.user] = [role |-> inv.role, via |-> i]]
        /\ invitations' = [invitations EXCEPT ![i].state = "accepted"]
    /\ UNCHANGED <<orgs, request>>

\* cancel_invitation(): only while it is pending.
CancelInvitation ==
    /\ \E i \in Invitation :
        /\ invitations[i].state = "pending"
        /\ invitations' = [invitations EXCEPT ![i] = DeletedInvitation]
    /\ UNCHANGED <<orgs, members, request>>

-----------------------------------------------------------------------------
Init ==
    /\ orgs = [o \in Org |-> "absent"]
    /\ members = [o \in Org |-> [u \in User |-> NoMember]]
    /\ invitations = [i \in Invitation |-> NoInvitation]
    /\ request = [w \in Worker |-> Idle]

Handle(w) ==
    \/ Begin(w) \/ Authorize(w)
    \/ CountForRole(w) \/ SaveRole(w)
    \/ RemoveMember(w)
    \/ CountOwnersToLeave(w) \/ CountOrgsToLeave(w) \/ Leave(w)
    \/ DeleteOrg(w)
    \/ CountPending(w) \/ CountSeats(w) \/ InsertInvitation(w)

Next ==
    \/ \E w \in Worker : Handle(w)
    \/ CreateOrg
    \/ AcceptInvitation
    \/ CancelInvitation

Spec == Init /\ [][Next]_vars

-----------------------------------------------------------------------------
\* Every org has an owner: "Can't change the last owner's role", "The sole
\* owner can't leave" and "The owner can't be removed" (orgs.py), as long as the
\* handlers that take ownership away run one at a time.
OwnerRemains == \A o \in Org : orgs[o] = "live" => Owners(o) # {}

\* "You can't leave your last organization" (orgs.py): whoever leaves is still in
\* an org afterwards, whatever happened since the orgs were counted, as long as
\* the handlers that take memberships away run one at a time.
LeavingKeepsAnOrg ==
    [][\A w \in Officer :
        At(w, "leave", "cleared") /\ request'[w].step = "idle"
            => \E o \in Org : members'[o][request[w].actor].role # "none"]_vars

\* Members and pending invitations never exceed the seats, although invitations
\* are accepted and cancelled between the two counts of assert_can_add_seat(), as
\* long as the handlers that invite run one at a time.
SeatsWithinLimit ==
    \A o \in Org : orgs[o] = "live" =>
        Cardinality(Seats(o)) + Cardinality(Pending(o)) <= SeatLimit

\* An invitation brings in one member once: as long as it can be accepted, no
\* row was made from it, and the rows made from it are its user's in its org.
InvitationSpent ==
    \A o \in Org, u \in User, i \in Invitation :
        members[o][u].via = i =>
            /\ invitations[i].state = "accepted"
            /\ invitations[i].org = o
            /\ invitations[i].user = u
=============================================================================
