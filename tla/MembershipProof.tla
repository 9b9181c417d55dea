--------------------------- MODULE MembershipProof ---------------------------
(***************************************************************************)
(* Theorems about Membership, for every number of users, orgs, invitations *)
(* and seats.  Some hold for any handlers.  The others say how few of them *)
(* have to keep apart: those of one org or one user, never those of two    *)
(* orgs, and how far the seats are exceeded when they do not.              *)
(***************************************************************************)
EXTENDS Membership, FiniteSetTheorems, TLAPS

\* Members and open invitations are those of live orgs, and an invitation brings
\* in one member.
RowsSound ==
    /\ \A o \in Org, u \in User : IsMember(o, u) => orgs[o] = "live"
    /\ \A i \in Invitation : invitations[i].state = "pending" =>
          invitations[i].org \in Org /\ invitations[i].user \in User
          /\ orgs[invitations[i].org] = "live"
    /\ InvitationSpent

\* What handler w has read so far fits its operation; the invitation behind a
\* row in memory can never be accepted again.
ReadSound(w, r) ==
    /\ r.step = "idle" => r.op = "none"
    /\ r.step # "idle" =>
        /\ r.op # "none"
        /\ w \in (IF r.op = "invite" THEN Inviter ELSE Officer)
        /\ r.org \in Org /\ r.actor \in User /\ r.target \in User
        /\ orgs[r.org] # "absent"
        /\ r.op \in {"role", "remove", "leave"} =>
              /\ r.row.role \in PostedRole
              /\ r.row.via \in Invitation =>
                    invitations[r.row.via].state \notin {"absent", "pending"}
        /\ r.op = "leave" => r.target = r.actor
        /\ r.op = "role" /\ r.step = "cleared" => r.role \in Role

RequestsSound == \A w \in Worker : ReadSound(w, request[w])

IInv == TypeOK /\ RowsSound /\ RequestsSound

-----------------------------------------------------------------------------
(* Counting *)

LEMMA SeatsFinite ==
  ASSUME NEW o \in Org
  PROVE  /\ IsFiniteSet(Seats(o)) /\ Cardinality(Seats(o)) \in Nat
         /\ IsFiniteSet(Pending(o)) /\ Cardinality(Pending(o)) \in Nat
<1>1. Seats(o) \in SUBSET User /\ Pending(o) \in SUBSET Invitation
  BY DEF Seats, Pending
<1>2. IsFiniteSet(Seats(o)) /\ IsFiniteSet(Pending(o))
  BY <1>1, FiniteAssumption, FS_Subset
<1>3. QED
  BY <1>2, FS_CardinalityType

LEMMA Another ==
  ASSUME NEW S, NEW x, Cardinality(S) > 1
  PROVE  \E y \in S : y # x
<1>1. SUFFICES ASSUME S \in SUBSET {x} PROVE FALSE
  OBVIOUS
<1>2. IsFiniteSet({x}) /\ Cardinality({x}) = 1
  BY FS_Singleton
<1>3. IsFiniteSet(S) /\ Cardinality(S) <= 1
  BY <1>1, <1>2, FS_Subset
<1>4. Cardinality(S) \in Nat
  BY <1>3, FS_CardinalityType
<1>5. QED
  BY <1>3, <1>4

-----------------------------------------------------------------------------
(* Statements that only read *)

LEMMA RequestFields ==
  ASSUME TypeOK, NEW w \in Worker
  PROVE  /\ request[w] \in Request
         /\ request[w].row \in MemberRow /\ request[w].role \in PostedRole
         /\ request[w].org \in Org \cup {None} /\ request[w].pending \in Nat
         /\ request[w].target \in User \cup {None} /\ request[w].actor \in User \cup {None}
<1>1. request[w] \in Request
  BY DEF TypeOK
<1>2. QED
  BY <1>1 DEF Request

LEMMA IdleSound ==
  /\ Idle \in Request
  /\ \A w \in Worker : ReadSound(w, Idle)
<1>1. Idle \in Request
  BY DEF Idle, Request, NoMember, MemberRow, PostedRole, Role
<1>2. QED
  BY <1>1 DEF Idle, ReadSound

\* A statement that leaves the tables alone keeps the invariant if what the
\* handler has read by then is sound.
LEMMA ReadKeepsIInv ==
  ASSUME IInv, UNCHANGED data, NEW w \in Worker, NEW r \in Request,
         request' = [request EXCEPT ![w] = r],
         ReadSound(w, r)
  PROVE  IInv'
<1>0. UNCHANGED <<orgs, members, invitations>>
  BY DEF data
<1>1. \A v \in Worker : request'[v] = IF v = w THEN r ELSE request[v]
  BY DEF IInv, TypeOK
<1>2. TypeOK'
  <2>1. request' \in [Worker -> Request]
    BY DEF IInv, TypeOK
  <2>2. QED
    BY <1>0, <2>1 DEF IInv, TypeOK
<1>3. RowsSound'
  BY <1>0 DEF IInv, RowsSound, InvitationSpent, IsMember
<1>4. RequestsSound'
  BY <1>0, <1>1 DEF IInv, RequestsSound, ReadSound
<1>5. QED
  BY <1>2, <1>3, <1>4 DEF IInv

LEMMA RefuseKeepsIInv ==
  ASSUME IInv, NEW w \in Worker, Respond(w), UNCHANGED data
  PROVE  IInv'
  BY IdleSound, ReadKeepsIInv DEF Respond

LEMMA NoMemberIsARow == NoMember \in MemberRow
  BY DEF NoMember, MemberRow

LEMMA BeginKeepsIInv ==
  ASSUME IInv, NEW w \in Worker, Begin(w)
  PROVE  IInv'
<1>1. PICK op \in {"role", "remove", "leave", "delete_org", "invite"},
           o \in Org, actor \in User, target \in User, role \in PostedRole :
        /\ w \in (IF op = "invite" THEN Inviter ELSE Officer)
        /\ IsMember(o, actor)
        /\ op \in {"role", "remove"} => IsMember(o, target)
        /\ op \in {"leave", "delete_org"} => target = actor
        /\ op \notin {"role", "invite"} => role = "member"
        /\ request' = [request EXCEPT ![w] =
                        [Idle EXCEPT !.op = op, !.step = "loaded", !.org = o,
                                     !.actor = actor, !.target = target, !.role = role,
                                     !.row = IF op \in {"role", "remove", "leave"}
                                             THEN members[o][target] ELSE NoMember]]
  BY DEF Begin
<1> DEFINE r == [Idle EXCEPT !.op = op, !.step = "loaded", !.org = o,
                             !.actor = actor, !.target = target, !.role = role,
                             !.row = IF op \in {"role", "remove", "leave"}
                                     THEN members[o][target] ELSE NoMember]
<1>2. /\ r.op = op /\ r.step = "loaded" /\ r.org = o /\ r.actor = actor
      /\ r.target = target /\ r.role = role /\ r.pending = 0
      /\ op \in {"role", "remove", "leave"} => r.row = members[o][target]
  BY DEF Idle
<1>3. members[o][target] \in MemberRow /\ NoMember \in MemberRow
  BY NoMemberIsARow DEF IInv, TypeOK
<1>4. r \in Request
  BY <1>3 DEF Idle, Request
<1>5. request' = [request EXCEPT ![w] = r] /\ UNCHANGED data
  BY <1>1 DEF Begin
<1> HIDE DEF r
<1>6. ReadSound(w, r)
  <2>1. orgs[o] = "live"
    BY <1>1 DEF IInv, RowsSound
  <2>2. op \in {"role", "remove", "leave"} => members[o][target].role \in PostedRole
    BY <1>1, <1>3 DEF MemberRow, IsMember
  <2>3. \A i \in Invitation : members[o][target].via = i =>
            invitations[i].state \notin {"absent", "pending"}
    BY DEF IInv, RowsSound, InvitationSpent
  <2>4. QED
    BY <1>1, <1>2, <2>1, <2>2, <2>3 DEF ReadSound
<1>7. QED
  BY <1>4, <1>5, <1>6, ReadKeepsIInv

\* Going on to the next statement.
LEMMA GoToKeepsIInv ==
  ASSUME IInv, NEW w \in Worker, NEW step \in {"authorized", "counted", "cleared"},
         GoTo(w, step), request[w].step # "idle",
         request[w].op = "role" /\ step = "cleared" => request[w].role \in Role
  PROVE  IInv'
<1> DEFINE r == [request[w] EXCEPT !.step = step]
<1>1. r \in Request
  BY RequestFields DEF IInv, Request
<1>2. request' = [request EXCEPT ![w] = r] /\ UNCHANGED data
  BY DEF GoTo
<1>3. /\ r.op = request[w].op /\ r.step = step /\ r.org = request[w].org
      /\ r.actor = request[w].actor /\ r.target = request[w].target
      /\ r.role = request[w].role /\ r.row = request[w].row
  BY RequestFields DEF IInv, Request
<1> HIDE DEF r
<1>4. ReadSound(w, request[w])
  BY DEF IInv, RequestsSound
<1>5. ReadSound(w, r)
  BY <1>3, <1>4 DEF ReadSound
<1>6. QED
  BY <1>1, <1>2, <1>5, ReadKeepsIInv

LEMMA AuthorizeKeepsIInv ==
  ASSUME IInv, NEW w \in Worker, Authorize(w)
  PROVE  IInv'
  BY RefuseKeepsIInv, GoToKeepsIInv DEF Authorize, Check, Refuse

LEMMA CountForRoleKeepsIInv ==
  ASSUME IInv, NEW w \in Worker, CountForRole(w)
  PROVE  IInv'
  BY RefuseKeepsIInv, GoToKeepsIInv DEF CountForRole, Check, Refuse, At, ValidRole

LEMMA CountToLeaveKeepsIInv ==
  ASSUME IInv, NEW w \in Worker, CountOwnersToLeave(w) \/ CountOrgsToLeave(w)
  PROVE  IInv'
  BY RefuseKeepsIInv, GoToKeepsIInv
  DEF CountOwnersToLeave, CountOrgsToLeave, Check, Refuse, At

LEMMA CountPendingKeepsIInv ==
  ASSUME IInv, NEW w \in Worker, CountPending(w)
  PROVE  IInv'
<1>1. CASE Respond(w)
  BY <1>1, RefuseKeepsIInv DEF CountPending
<1>2. CASE ~Respond(w)
  <2> DEFINE r == [request[w] EXCEPT !.step = "counted",
                                     !.pending = Cardinality(Pending(request[w].org))]
  <2>1. /\ request[w].op = "invite" /\ request[w].step = "authorized"
        /\ request' = [request EXCEPT ![w].step = "counted",
                                      ![w].pending = Cardinality(Pending(request[w].org))]
        /\ UNCHANGED data
    BY <1>2 DEF CountPending, At
  <2>2. request' = [request EXCEPT ![w] = r]
    BY <2>1
  <2>3. ReadSound(w, request[w])
    BY DEF IInv, RequestsSound
  <2>4. Cardinality(Pending(request[w].org)) \in Nat
    BY <2>1, <2>3, SeatsFinite DEF ReadSound
  <2>5. r \in Request
    BY <2>4, RequestFields DEF IInv, Request
  <2>6. /\ r.op = "invite" /\ r.step = "counted" /\ r.org = request[w].org
        /\ r.actor = request[w].actor /\ r.target = request[w].target
        /\ r.role = request[w].role
        /\ r.pending = Cardinality(Pending(request[w].org))
    BY <2>1, RequestFields DEF IInv, Request
  <2> HIDE DEF r
  <2>7. ReadSound(w, r)
    BY <2>1, <2>3, <2>6 DEF ReadSound
  <2>8. QED
    BY <2>1, <2>2, <2>5, <2>7, ReadKeepsIInv
<1>3. QED
  BY <1>1, <1>2

LEMMA CountSeatsKeepsIInv ==
  ASSUME IInv, NEW w \in Worker, CountSeats(w)
  PROVE  IInv'
  BY RefuseKeepsIInv, GoToKeepsIInv DEF CountSeats, Check, Refuse, At

-----------------------------------------------------------------------------
(* Statements that write *)

\* Requests that are not answered stay sound, whatever is written: no org comes
\* back and no invitation that was used or withdrawn opens again.
LEMMA WriteKeepsRequests ==
  ASSUME IInv, \A v \in Worker : request'[v] \in {Idle, request[v]},
         \A o \in Org : orgs[o] # "absent" => orgs'[o] # "absent",
         \A i \in Invitation : invitations[i].state \notin {"absent", "pending"} =>
            invitations'[i].state \notin {"absent", "pending"}
  PROVE  RequestsSound'
<1> SUFFICES ASSUME NEW v \in Worker PROVE ReadSound(v, request[v])'
  BY DEF RequestsSound
<1>1. ReadSound(v, request'[v])
  BY IdleSound DEF IInv, RequestsSound
<1>2. QED
  BY <1>1 DEF ReadSound

LEMMA RespondAnswers ==
  ASSUME TypeOK, NEW w \in Worker, Respond(w)
  PROVE  /\ request' \in [Worker -> Request]
         /\ request'[w] = Idle
         /\ \A v \in Worker : v # w => request'[v] = request[v]
<1>1. request' = [request EXCEPT ![w] = Idle]
  BY DEF Respond
<1>2. QED
  BY <1>1, IdleSound DEF TypeOK

LEMMA SetRowEffect ==
  ASSUME TypeOK, NEW r, r.org \in Org, r.target \in User, NEW row, SetRow(r, row)
  PROVE  \A o \in Org, u \in User :
            members'[o][u] = IF o = r.org /\ u = r.target /\ RowThere(r) THEN row
                             ELSE members[o][u]
<1>1. members \in [Org -> [User -> MemberRow]]
  BY DEF TypeOK
<1>2. CASE RowThere(r)
  BY <1>1, <1>2 DEF SetRow
<1>3. CASE ~RowThere(r)
  BY <1>3 DEF SetRow
<1>4. QED
  BY <1>2, <1>3

\* An officer's UPDATE or DELETE of its target's row.  A row that stays is the
\* same row.
RowWrite(w, row) ==
    /\ \/ /\ request[w].op = "role" /\ request[w].step = "cleared"
          /\ row.role = request[w].role /\ row.role \in Role
          /\ row.via = request[w].row.via
       \/ /\ request[w].op = "remove" /\ request[w].step = "authorized"
          /\ Removable(request[w].row) /\ row = NoMember
       \/ /\ request[w].op = "leave" /\ request[w].step = "cleared" /\ row = NoMember
    /\ row \in MemberRow
    /\ SetRow(request[w], row)
    /\ Respond(w)
    /\ UNCHANGED <<orgs, invitations>>

LEMMA OfficersWriteRows ==
  ASSUME IInv, NEW w \in Worker, SaveRole(w) \/ RemoveMember(w) \/ Leave(w)
  PROVE  \/ Respond(w) /\ UNCHANGED data
         \/ \E row \in MemberRow : RowWrite(w, row)
<1>1. CASE SaveRole(w)
  <2> DEFINE row == [request[w].row EXCEPT !.role = request[w].role]
  <2>1. /\ request[w].op = "role" /\ request[w].step = "cleared"
        /\ SetRow(request[w], row) /\ Respond(w) /\ UNCHANGED <<orgs, invitations>>
    BY <1>1 DEF SaveRole, At
  <2>2. request[w].role \in Role
    BY <2>1 DEF IInv, RequestsSound, ReadSound
  <2>3. row \in MemberRow /\ row.role = request[w].role /\ row.via = request[w].row.via
    BY <2>2, RequestFields DEF IInv, MemberRow
  <2> HIDE DEF row
  <2>4. RowWrite(w, row)
    BY <2>1, <2>2, <2>3 DEF RowWrite
  <2> QED
    BY <2>3, <2>4
<1>2. CASE RemoveMember(w)
  BY <1>2, NoMemberIsARow DEF RemoveMember, At, RowWrite, data
<1>3. CASE Leave(w)
  BY <1>3, NoMemberIsARow DEF Leave, At, RowWrite
<1> QED
  BY <1>1, <1>2, <1>3

\* What it does to the table: one row of one org, and nobody joins.
LEMMA RowWriteEffect ==
  ASSUME IInv, NEW w \in Worker, NEW row \in MemberRow, RowWrite(w, row)
  PROVE  LET r == request[w] IN
         /\ r.op \in {"role", "remove", "leave"} /\ r.step # "idle"
         /\ r.org \in Org /\ r.target \in User /\ w \in Officer
         /\ request' \in [Worker -> Request] /\ request'[w] = Idle
         /\ \A v \in Worker : v # w => request'[v] = request[v]
         /\ \A o \in Org, u \in User :
               members'[o][u] = IF o = r.org /\ u = r.target /\ RowThere(r) THEN row
                                ELSE members[o][u]
<1>1. /\ request[w].op \in {"role", "remove", "leave"} /\ request[w].step # "idle"
      /\ SetRow(request[w], row) /\ Respond(w)
  BY DEF RowWrite
<1>2. request[w].org \in Org /\ request[w].target \in User /\ w \in Officer
  BY <1>1 DEF IInv, RequestsSound, ReadSound
<1>3. \A o \in Org, u \in User :
         members'[o][u] = IF o = request[w].org /\ u = request[w].target /\ RowThere(request[w])
                          THEN row ELSE members[o][u]
  BY <1>1, <1>2, SetRowEffect DEF IInv
<1>4. QED
  BY <1>1, <1>2, <1>3, RespondAnswers DEF IInv

LEMMA RowWriteKeepsIInv ==
  ASSUME IInv, NEW w \in Worker, NEW row \in MemberRow, RowWrite(w, row)
  PROVE  IInv'
<1>1. PICK r : r = request[w]
  OBVIOUS
<1>2. /\ r.org \in Org /\ r.target \in User
      /\ request' \in [Worker -> Request] /\ request'[w] = Idle
      /\ \A v \in Worker : v # w => request'[v] = request[v]
      /\ \A o \in Org, u \in User :
            members'[o][u] = IF o = r.org /\ u = r.target /\ RowThere(r) THEN row
                             ELSE members[o][u]
  BY <1>1, RowWriteEffect
<1>3. SetRow(r, row) /\ UNCHANGED <<orgs, invitations>>
  BY <1>1 DEF RowWrite
<1>4. (row.role \in Role /\ row.via = r.row.via) \/ row = NoMember
  BY <1>1 DEF RowWrite
<1>5. TypeOK'
  <2>1. members' \in [Org -> [User -> MemberRow]]
    BY <1>2, <1>3 DEF IInv, TypeOK, SetRow
  <2>2. QED
    BY <1>2, <1>3, <2>1 DEF IInv, TypeOK
<1>6. RowsSound'
  <2>1. \A o \in Org, u \in User : IsMember(o, u)' => IsMember(o, u)
    BY <1>2, <1>4 DEF IsMember, RowThere, NoMember
  <2>2. \A o \in Org, u \in User : members'[o][u].via \in Invitation =>
            members'[o][u].via = members[o][u].via
    BY <1>2, <1>4, NoneAssumption DEF RowThere, NoMember
  <2>3. QED
    BY <1>3, <2>1, <2>2 DEF IInv, RowsSound, InvitationSpent
<1>7. RequestsSound'
  BY <1>2, <1>3, WriteKeepsRequests
<1>8. QED
  BY <1>5, <1>6, <1>7 DEF IInv

\* The deleted org loses its members and invitations, the others nothing.
Deletes(w, d, gone) ==
    /\ d = request[w].org /\ w \in Officer
    /\ request[w].op = "delete_org" /\ request[w].step = "authorized"
    /\ request' \in [Worker -> Request] /\ request'[w] = Idle
    /\ \A v \in Worker : v # w => request'[v] = request[v]
    /\ gone.state = "deleted" /\ gone.org = None
    /\ \A o \in Org : orgs'[o] = IF o = d THEN "deleted" ELSE orgs[o]
    /\ members' \in [Org -> [User -> MemberRow]]
    /\ \A o \in Org, u \in User :
          members'[o][u] = IF o = d THEN NoMember ELSE members[o][u]
    /\ invitations' \in [Invitation -> InvitationRow]
    /\ \A i \in Invitation :
          invitations'[i] = IF invitations[i].org = d THEN gone ELSE invitations[i]

LEMMA DeleteOrgEffect ==
  ASSUME IInv, NEW w \in Worker, DeleteOrg(w)
  PROVE  \E d \in Org, gone \in InvitationRow : Deletes(w, d, gone)
<1>1. PICK d : d = request[w].org
  OBVIOUS
<1> DEFINE gone == DeletedInvitation
<1>2. /\ request[w].op = "delete_org" /\ request[w].step = "authorized"
      /\ orgs' = [orgs EXCEPT ![d] = "deleted"]
      /\ members' = [members EXCEPT ![d] = [u \in User |-> NoMember]]
      /\ invitations' = [i \in Invitation |->
                          IF invitations[i].org = d THEN gone ELSE invitations[i]]
      /\ Respond(w)
  BY <1>1 DEF DeleteOrg, At, InvitationWithout
<1>3. d \in Org /\ w \in Officer
  BY <1>1, <1>2 DEF IInv, RequestsSound, ReadSound
<1>4. gone \in InvitationRow /\ gone.state = "deleted" /\ gone.org = None
  BY DEF NoInvitation, DeletedInvitation, InvitationRow
<1> HIDE DEF gone
<1>5. /\ request' \in [Worker -> Request] /\ request'[w] = Idle
      /\ \A v \in Worker : v # w => request'[v] = request[v]
  BY <1>2, RespondAnswers DEF IInv
<1>6. /\ \A o \in Org : orgs'[o] = IF o = d THEN "deleted" ELSE orgs[o]
      /\ \A o \in Org, u \in User :
            members'[o][u] = IF o = d THEN NoMember ELSE members[o][u]
      /\ \A i \in Invitation :
            invitations'[i] = IF invitations[i].org = d THEN gone ELSE invitations[i]
  BY <1>2, <1>3 DEF IInv, TypeOK
<1>7. /\ members' \in [Org -> [User -> MemberRow]]
      /\ invitations' \in [Invitation -> InvitationRow]
  BY <1>2, <1>4, NoMemberIsARow DEF IInv, TypeOK
<1>8. Deletes(w, d, gone)
  BY <1>1, <1>2, <1>3, <1>4, <1>5, <1>6, <1>7 DEF Deletes
<1>9. QED
  BY <1>3, <1>4, <1>8

LEMMA DeleteOrgKeepsIInv ==
  ASSUME IInv, NEW w \in Worker, DeleteOrg(w)
  PROVE  IInv'
<1>1. PICK d \in Org, gone \in InvitationRow : Deletes(w, d, gone)
  BY DeleteOrgEffect
<1>2. TypeOK'
  <2>1. orgs' \in [Org -> {"absent", "live", "deleted"}]
    BY <1>1 DEF IInv, TypeOK, DeleteOrg
  <2>2. QED
    BY <1>1, <2>1 DEF TypeOK, Deletes
<1>3. RowsSound'
  <2>1. \A o \in Org, u \in User : members'[o][u].via \in Invitation =>
            o # d /\ members'[o][u] = members[o][u]
    BY <1>1, NoneAssumption DEF Deletes, NoMember
  <2>2. InvitationSpent'
    BY <1>1, <2>1 DEF Deletes, IInv, RowsSound, InvitationSpent
  <2>3. \A o \in Org, u \in User : IsMember(o, u)' => orgs'[o] = "live"
    BY <1>1 DEF Deletes, IInv, RowsSound, IsMember, NoMember
  <2>4. \A i \in Invitation : invitations'[i].state = "pending" =>
            /\ invitations'[i] = invitations[i]
            /\ orgs'[invitations[i].org] = orgs[invitations[i].org]
    BY <1>1 DEF Deletes, IInv, RowsSound
  <2>5. QED
    BY <2>2, <2>3, <2>4 DEF IInv, RowsSound
<1>4. RequestsSound'
  BY <1>1, WriteKeepsRequests DEF Deletes
<1>5. QED
  BY <1>2, <1>3, <1>4 DEF IInv

Cancels(i, gone) ==
    /\ gone.state = "deleted" /\ invitations[i].state = "pending"
    /\ invitations' \in [Invitation -> InvitationRow]
    /\ \A j \in Invitation : invitations'[j] = IF j = i THEN gone ELSE invitations[j]
    /\ UNCHANGED <<orgs, members, request>>

LEMMA CancelEffect ==
  ASSUME IInv, CancelInvitation
  PROVE  \E i \in Invitation, gone \in InvitationRow : Cancels(i, gone)
<1> DEFINE gone == DeletedInvitation
<1>1. gone \in InvitationRow /\ gone.state = "deleted"
  BY DEF NoInvitation, DeletedInvitation, InvitationRow
<1>2. PICK i \in Invitation : /\ invitations[i].state = "pending"
                              /\ invitations' = [invitations EXCEPT ![i] = gone]
  BY DEF CancelInvitation
<1> HIDE DEF gone
<1>3. UNCHANGED <<orgs, members, request>>
  BY DEF CancelInvitation
<1>4. \A j \in Invitation : invitations'[j] = IF j = i THEN gone ELSE invitations[j]
  BY <1>2 DEF IInv, TypeOK
<1>5. invitations' \in [Invitation -> InvitationRow]
  BY <1>1, <1>2 DEF IInv, TypeOK
<1>6. Cancels(i, gone)
  BY <1>1, <1>2, <1>3, <1>4, <1>5 DEF Cancels
<1>7. QED
  BY <1>1, <1>6

LEMMA CancelKeepsIInv ==
  ASSUME IInv, CancelInvitation
  PROVE  IInv'
<1>1. PICK i \in Invitation, gone \in InvitationRow : Cancels(i, gone)
  BY CancelEffect
<1>2. TypeOK'
  BY <1>1 DEF Cancels, IInv, TypeOK
<1>3. RowsSound'
  BY <1>1 DEF Cancels, IInv, RowsSound, InvitationSpent, IsMember
<1>4. RequestsSound'
  BY <1>1, WriteKeepsRequests DEF Cancels
<1>5. QED
  BY <1>2, <1>3, <1>4 DEF IInv

\* A new org has its founder, and no request is about it yet.
Founds(o, u, founder) ==
    /\ founder.role = "owner" /\ founder.via = None
    /\ orgs[o] = "absent"
    /\ members' \in [Org -> [User -> MemberRow]]
    /\ \A p \in Org : orgs'[p] = IF p = o THEN "live" ELSE orgs[p]
    /\ \A p \in Org, x \in User :
          members'[p][x] = IF p = o /\ x = u THEN founder ELSE members[p][x]
    /\ \A x \in User : ~IsMember(o, x)
    /\ Pending(o) = {}
    /\ \A w \in Worker : request[w].step # "idle" => request[w].org # o
    /\ UNCHANGED <<invitations, request>>

LEMMA CreateOrgEffect ==
  ASSUME IInv, CreateOrg
  PROVE  \E o \in Org, u \in User, founder \in MemberRow : Founds(o, u, founder)
<1>1. PICK o \in Org, u \in User :
        /\ orgs[o] = "absent"
        /\ orgs' = [orgs EXCEPT ![o] = "live"]
        /\ members' = [members EXCEPT ![o][u] = [role |-> "owner", via |-> None]]
  BY DEF CreateOrg
<1>2. UNCHANGED <<invitations, request>>
  BY DEF CreateOrg
<1> DEFINE founder == [role |-> "owner", via |-> None]
<1>3. founder \in MemberRow /\ founder.role = "owner" /\ founder.via = None
  BY DEF MemberRow, PostedRole, Role
<1>4. members' \in [Org -> [User -> MemberRow]]
  BY <1>1, <1>3 DEF IInv, TypeOK
<1> HIDE DEF founder
<1>5. /\ \A p \in Org : orgs'[p] = IF p = o THEN "live" ELSE orgs[p]
      /\ \A p \in Org, x \in User :
            members'[p][x] = IF p = o /\ x = u THEN founder ELSE members[p][x]
  BY <1>1 DEF IInv, TypeOK, founder
<1>6. \A x \in User : ~IsMember(o, x)
  BY <1>1 DEF IInv, RowsSound
<1>7. Pending(o) = {}
  BY <1>1 DEF IInv, RowsSound, Pending
<1>8. \A w \in Worker : request[w].step # "idle" => request[w].org # o
  BY <1>1 DEF IInv, RequestsSound, ReadSound
<1>9. Founds(o, u, founder)
  BY <1>1, <1>2, <1>3, <1>4, <1>5, <1>6, <1>7, <1>8 DEF Founds
<1>10. QED
  BY <1>3, <1>9

LEMMA CreateOrgKeepsIInv ==
  ASSUME IInv, CreateOrg
  PROVE  IInv'
<1>1. PICK o \in Org, u \in User, founder \in MemberRow : Founds(o, u, founder)
  BY CreateOrgEffect
<1>2. TypeOK'
  <2>1. orgs' \in [Org -> {"absent", "live", "deleted"}]
    BY DEF IInv, TypeOK, CreateOrg
  <2>2. QED
    BY <1>1, <2>1 DEF Founds, IInv, TypeOK
<1>3. RowsSound'
  <2>1. InvitationSpent'
    BY <1>1, NoneAssumption DEF Founds, IInv, RowsSound, InvitationSpent
  <2>2. \A p \in Org, x \in User : IsMember(p, x)' => orgs'[p] = "live"
    BY <1>1 DEF Founds, IInv, RowsSound, IsMember
  <2>3. QED
    BY <1>1, <2>1, <2>2 DEF Founds, IInv, RowsSound
<1>4. RequestsSound'
  BY <1>1, WriteKeepsRequests DEF Founds
<1>5. QED
  BY <1>2, <1>3, <1>4 DEF IInv

\* An accepted invitation becomes a seat of its org, with a row that no request
\* has loaded.
Joins(i, o, u, row, spent) ==
    /\ invitations[i].state = "pending" /\ invitations[i].org = o
    /\ ~IsMember(o, u) /\ orgs[o] = "live"
    /\ row.role \in PostedRole /\ row.via = i
    /\ spent.state = "accepted" /\ spent.org = o /\ spent.user = u
    /\ members' \in [Org -> [User -> MemberRow]]
    /\ invitations' \in [Invitation -> InvitationRow]
    /\ \A p \in Org, x \in User :
          members'[p][x] = IF p = o /\ x = u THEN row ELSE members[p][x]
    /\ \A j \in Invitation : invitations'[j] = IF j = i THEN spent ELSE invitations[j]
    /\ UNCHANGED <<orgs, request>>

LEMMA AcceptEffect ==
  ASSUME IInv, AcceptInvitation
  PROVE  \E i \in Invitation, o \in Org, u \in User, row \in MemberRow,
            spent \in InvitationRow : Joins(i, o, u, row, spent)
<1>1. PICK i \in Invitation :
        /\ invitations[i].state = "pending"
        /\ ~IsMember(invitations[i].org, invitations[i].user)
        /\ members' = [members EXCEPT ![invitations[i].org][invitations[i].user] =
                        [role |-> invitations[i].role, via |-> i]]
        /\ invitations' = [invitations EXCEPT ![i].state = "accepted"]
  BY DEF AcceptInvitation
<1>2. UNCHANGED <<orgs, request>>
  BY DEF AcceptInvitation
<1>3. PICK o \in Org, u \in User : /\ o = invitations[i].org /\ u = invitations[i].user
                                   /\ orgs[o] = "live"
  BY <1>1 DEF IInv, RowsSound
<1>4. invitations[i] \in [state : {"pending", "accepted"}, org : Org, user : User,
                           role : PostedRole]
  <2>1. invitations[i] \in InvitationRow
    BY DEF IInv, TypeOK
  <2>2. QED
    BY <1>1, <2>1 DEF InvitationRow, NoInvitation, DeletedInvitation
<1> DEFINE row == [role |-> invitations[i].role, via |-> i]
           spent == [invitations[i] EXCEPT !.state = "accepted"]
<1>5. row \in MemberRow /\ row.role \in PostedRole /\ row.via = i
  BY <1>4 DEF MemberRow
<1>6. spent \in InvitationRow /\ spent.state = "accepted" /\ spent.org = o /\ spent.user = u
  BY <1>3, <1>4 DEF InvitationRow
<1>7. /\ members' = [members EXCEPT ![o][u] = row]
      /\ invitations' = [invitations EXCEPT ![i] = spent]
  BY <1>1, <1>3
<1> HIDE DEF row, spent
<1>8. /\ \A p \in Org, x \in User :
            members'[p][x] = IF p = o /\ x = u THEN row ELSE members[p][x]
      /\ \A j \in Invitation : invitations'[j] = IF j = i THEN spent ELSE invitations[j]
  BY <1>7 DEF IInv, TypeOK
<1>9. members' \in [Org -> [User -> MemberRow]] /\ invitations' \in [Invitation -> InvitationRow]
  BY <1>5, <1>6, <1>7 DEF IInv, TypeOK
<1>10. Joins(i, o, u, row, spent)
  BY <1>1, <1>2, <1>3, <1>5, <1>6, <1>8, <1>9 DEF Joins
<1>11. QED
  BY <1>5, <1>6, <1>10

LEMMA AcceptKeepsIInv ==
  ASSUME IInv, AcceptInvitation
  PROVE  IInv'
<1>1. PICK i \in Invitation, o \in Org, u \in User, row \in MemberRow,
            spent \in InvitationRow : Joins(i, o, u, row, spent)
  BY AcceptEffect
<1>2. TypeOK'
  BY <1>1 DEF Joins, IInv, TypeOK
<1>3. RowsSound'
  <2>1. InvitationSpent'
    BY <1>1 DEF Joins, IInv, RowsSound, InvitationSpent
  <2>2. \A p \in Org, x \in User : IsMember(p, x)' => orgs'[p] = "live"
    BY <1>1 DEF Joins, IInv, RowsSound, IsMember
  <2>3. QED
    BY <1>1, <2>1, <2>2 DEF Joins, IInv, RowsSound
<1>4. RequestsSound'
  BY <1>1, WriteKeepsRequests DEF Joins
<1>5. QED
  BY <1>2, <1>3, <1>4 DEF IInv

\* An invitation is inserted for the org of the request, which is live.
Inserts(w, i, new) ==
    /\ invitations[i].state = "absent"
    /\ new.state = "pending" /\ new.org = request[w].org
    /\ new.org \in Org /\ new.user \in User /\ orgs[new.org] = "live"
    /\ invitations' \in [Invitation -> InvitationRow]
    /\ \A j \in Invitation : invitations'[j] = IF j = i THEN new ELSE invitations[j]

LEMMA InsertEffect ==
  ASSUME IInv, NEW w \in Worker, InsertInvitation(w)
  PROVE  /\ request[w].op = "invite" /\ request[w].step = "cleared" /\ w \in Inviter
         /\ request' \in [Worker -> Request] /\ request'[w] = Idle
         /\ \A v \in Worker : v # w => request'[v] = request[v]
         /\ UNCHANGED <<orgs, members>>
         /\ \/ UNCHANGED invitations /\ orgs[request[w].org] # "live"
            \/ \E i \in Invitation, new \in InvitationRow : Inserts(w, i, new)
<1>1. /\ request[w].op = "invite" /\ request[w].step = "cleared"
      /\ Respond(w) /\ UNCHANGED <<orgs, members>>
  BY DEF InsertInvitation, At
<1>2. /\ request' \in [Worker -> Request] /\ request'[w] = Idle
      /\ \A v \in Worker : v # w => request'[v] = request[v]
  BY <1>1, RespondAnswers DEF IInv
<1>3. w \in Inviter
  BY <1>1 DEF IInv, RequestsSound, ReadSound
<1>4. CASE ~(UNCHANGED invitations /\ orgs[request[w].org] # "live")
  <2>1. PICK i \in Invitation :
          /\ orgs[request[w].org] = "live"
          /\ invitations[i].state = "absent"
          /\ invitations' = [invitations EXCEPT ![i] =
                [state |-> "pending", org |-> request[w].org, user |-> request[w].target,
                 role |-> request[w].role]]
    BY <1>4 DEF InsertInvitation
  <2>2. PICK o \in Org, u \in User, role \in PostedRole :
          o = request[w].org /\ u = request[w].target /\ role = request[w].role
    BY <1>1, RequestFields DEF IInv, RequestsSound, ReadSound
  <2> DEFINE new == [state |-> "pending", org |-> o, user |-> u, role |-> role]
  <2>3. new \in InvitationRow /\ new.state = "pending" /\ new.org = o /\ new.user = u
    BY DEF InvitationRow
  <2>4. invitations' = [invitations EXCEPT ![i] = new]
    BY <2>1, <2>2
  <2> HIDE DEF new
  <2>5. /\ invitations' \in [Invitation -> InvitationRow]
        /\ \A j \in Invitation : invitations'[j] = IF j = i THEN new ELSE invitations[j]
    BY <2>3, <2>4 DEF IInv, TypeOK
  <2>6. Inserts(w, i, new)
    BY <2>1, <2>2, <2>3, <2>5 DEF Inserts
  <2>7. QED
    BY <1>1, <1>2, <1>3, <2>3, <2>6
<1>5. QED
  BY <1>1, <1>2, <1>3, <1>4

LEMMA InsertInvitationKeepsIInv ==
  ASSUME IInv, NEW w \in Worker, InsertInvitation(w)
  PROVE  IInv'
<1>1. /\ request' \in [Worker -> Request] /\ request'[w] = Idle
      /\ \A v \in Worker : v # w => request'[v] = request[v]
      /\ UNCHANGED <<orgs, members>>
  BY InsertEffect
<1>2. CASE UNCHANGED invitations
  BY <1>1, <1>2, RefuseKeepsIInv DEF data, InsertInvitation
<1>3. CASE invitations' # invitations
  <2>1. PICK i \in Invitation, new \in InvitationRow : Inserts(w, i, new)
    BY <1>3, InsertEffect
  <2>2. TypeOK'
    BY <1>1, <2>1 DEF Inserts, IInv, TypeOK
  <2>3. RowsSound'
    <3>1. InvitationSpent'
      BY <1>1, <2>1 DEF Inserts, IInv, RowsSound, InvitationSpent
    <3>2. QED
      BY <1>1, <2>1, <3>1 DEF Inserts, IInv, RowsSound, IsMember
  <2>4. RequestsSound'
    BY <1>1, <2>1, WriteKeepsRequests DEF Inserts
  <2>5. QED
    BY <2>2, <2>3, <2>4 DEF IInv
<1>4. QED
  BY <1>2, <1>3

-----------------------------------------------------------------------------
(* What holds for any handlers *)

LEMMA InitKeepsIInv == Init => IInv
<1>. SUFFICES ASSUME Init PROVE IInv
  OBVIOUS
<1>1. TypeOK
  <2>1. NoInvitation \in InvitationRow
    BY DEF InvitationRow
  <2>2. QED
    BY <2>1, NoMemberIsARow, IdleSound DEF Init, TypeOK
<1>2. RowsSound
  BY NoneAssumption
  DEF Init, RowsSound, InvitationSpent, IsMember, NoMember, NoInvitation
<1>3. RequestsSound
  BY IdleSound DEF Init, RequestsSound
<1>4. QED
  BY <1>1, <1>2, <1>3 DEF IInv

LEMMA NextKeepsIInv == IInv /\ [Next]_vars => IInv'
<1>. SUFFICES ASSUME IInv, [Next]_vars PROVE IInv'
  OBVIOUS
<1>1. ASSUME NEW w \in Worker, Handle(w)
      PROVE  IInv'
  <2>1. CASE Begin(w) \/ Authorize(w)
    BY <2>1, BeginKeepsIInv, AuthorizeKeepsIInv
  <2>2. CASE CountForRole(w) \/ CountOwnersToLeave(w) \/ CountOrgsToLeave(w)
    BY <2>2, CountForRoleKeepsIInv, CountToLeaveKeepsIInv
  <2>3. CASE SaveRole(w) \/ RemoveMember(w) \/ Leave(w)
    BY <2>3, OfficersWriteRows, RefuseKeepsIInv, RowWriteKeepsIInv
  <2>4. CASE DeleteOrg(w)
    BY <2>4, DeleteOrgKeepsIInv
  <2>5. CASE CountPending(w) \/ CountSeats(w)
    BY <2>5, CountPendingKeepsIInv, CountSeatsKeepsIInv
  <2>6. CASE InsertInvitation(w)
    BY <2>6, InsertInvitationKeepsIInv
  <2>7. QED
    BY <1>1, <2>1, <2>2, <2>3, <2>4, <2>5, <2>6 DEF Handle
<1>2. CASE CreateOrg \/ AcceptInvitation \/ CancelInvitation
  BY <1>2, CreateOrgKeepsIInv, AcceptKeepsIInv, CancelKeepsIInv
<1>3. CASE UNCHANGED vars
  <2>1. UNCHANGED <<orgs, members, invitations, request>>
    BY <1>3 DEF vars
  <2>2. QED
    BY <2>1 DEF IInv, TypeOK, RowsSound, InvitationSpent, IsMember, RequestsSound, ReadSound
<1>4. QED
  BY <1>1, <1>2, <1>3 DEF Next

LEMMA Invariant == Spec => []IInv
  BY InitKeepsIInv, NextKeepsIInv, PTL DEF Spec

\* Every reachable state of orgs, members, invitations and handlers is well typed.
THEOREM TypeCorrect == Spec => []TypeOK
<1>1. IInv => TypeOK
  BY DEF IInv
<1>2. QED
  BY <1>1, Invariant, PTL

\* However many handlers interleave, an invitation brings in one member once, the
\* invited user in the inviting org, and nobody with it pending or withdrawn.
THEOREM InvitationsAreSpent == Spec => []InvitationSpent
<1>1. IInv => InvitationSpent
  BY DEF IInv, RowsSound
<1>2. QED
  BY <1>1, Invariant, PTL

-----------------------------------------------------------------------------
(* Steps, seen from one handler *)

\* A handler's statement changes no request but its own.
LEMMA OwnRequest ==
  ASSUME IInv, NEW w \in Worker, Handle(w), NEW v \in Worker, v # w
  PROVE  request'[v] = request[v]
<1>1. \E r : request' = [request EXCEPT ![w] = r]
  <2>1. CASE Begin(w)
    BY <2>1, ZenonT(30) DEF Begin
  <2>2. CASE Authorize(w) \/ CountForRole(w) \/ CountOwnersToLeave(w)
    BY <2>2 DEF Authorize, CountForRole, CountOwnersToLeave, Check, Refuse, GoTo, Respond
  <2>3. CASE CountOrgsToLeave(w) \/ CountPending(w) \/ CountSeats(w)
    BY <2>3 DEF CountOrgsToLeave, CountPending, CountSeats, Check, Refuse, GoTo, Respond
  <2>4. CASE SaveRole(w)
    BY <2>4 DEF SaveRole, Check, Refuse, GoTo, Respond
  <2>5. CASE RemoveMember(w) \/ Leave(w)
    BY <2>5 DEF RemoveMember, Leave, Check, Refuse, GoTo, Respond
  <2>6. CASE DeleteOrg(w) \/ InsertInvitation(w)
    BY <2>6 DEF DeleteOrg, InsertInvitation, Check, Refuse, GoTo, Respond
  <2>7. QED
    BY <2>1, <2>2, <2>3, <2>4, <2>5, <2>6 DEF Handle
<1>2. QED
  BY <1>1 DEF IInv, TypeOK

\* The statements that only read, and what the handler knows after them.
Reads(w) ==
    \/ Begin(w) \/ Authorize(w)
    \/ CountForRole(w) \/ CountOwnersToLeave(w) \/ CountOrgsToLeave(w)
    \/ CountPending(w) \/ CountSeats(w)

LEMMA ReadsWriteNothing ==
  ASSUME NEW w \in Worker, Reads(w)
  PROVE  UNCHANGED <<orgs, members, invitations>>
  BY DEF Reads, Begin, Authorize, CountForRole, CountOwnersToLeave, CountOrgsToLeave,
         CountPending, CountSeats, Check, Refuse, GoTo, data

LEMMA NextKinds ==
  ASSUME IInv, Next
  PROVE  \/ \E w \in Worker : Handle(w) /\ Reads(w)
         \/ \E w \in Worker : Handle(w) /\ Respond(w) /\ UNCHANGED data
         \/ \E w \in Worker, row \in MemberRow : RowWrite(w, row)
         \/ \E w \in Worker, d \in Org, gone \in InvitationRow : Deletes(w, d, gone)
         \/ \E w \in Worker : InsertInvitation(w)
         \/ \E o \in Org, u \in User, founder \in MemberRow : Founds(o, u, founder)
         \/ \E i \in Invitation, o \in Org, u \in User, row \in MemberRow,
               spent \in InvitationRow : Joins(i, o, u, row, spent)
         \/ \E i \in Invitation, gone \in InvitationRow : Cancels(i, gone)
<1>1. CASE CreateOrg \/ AcceptInvitation \/ CancelInvitation
  BY <1>1, CreateOrgEffect, AcceptEffect, CancelEffect
<1>2. ASSUME NEW w \in Worker, Handle(w)
      PROVE  \/ Reads(w)
             \/ Respond(w) /\ UNCHANGED data
             \/ \E row \in MemberRow : RowWrite(w, row)
             \/ \E d \in Org, gone \in InvitationRow : Deletes(w, d, gone)
             \/ InsertInvitation(w)
  BY <1>2, OfficersWriteRows, DeleteOrgEffect DEF Handle, Reads
<1>3. QED
  BY <1>1, <1>2 DEF Next

\* After a statement that went on, the request has its next step, and the rest of
\* what it had.
LEMMA WentOn ==
  ASSUME IInv, NEW w \in Worker, NEW step \in {"authorized", "counted", "cleared"},
         GoTo(w, step)
  PROVE  /\ request'[w].step = step
         /\ request'[w].op = request[w].op /\ request'[w].org = request[w].org
         /\ request'[w].actor = request[w].actor /\ request'[w].target = request[w].target
         /\ request'[w].role = request[w].role /\ request'[w].row = request[w].row
         /\ request'[w].pending = request[w].pending
<1>1. request[w] \in Request /\ request'[w] = [request[w] EXCEPT !.step = step]
  BY DEF IInv, TypeOK, GoTo
<1>2. QED
  BY <1>1 DEF Request

LEMMA Began ==
  ASSUME IInv, NEW w \in Worker, Begin(w)
  PROVE  /\ request'[w].step = "loaded"
         /\ request'[w].op \in {"role", "remove", "leave"} =>
               request'[w].row = members[request'[w].org][request'[w].target]
<1>1. PICK op \in {"role", "remove", "leave", "delete_org", "invite"},
           o \in Org, actor \in User, target \in User, role \in PostedRole :
        /\ w \in (IF op = "invite" THEN Inviter ELSE Officer)
        /\ IsMember(o, actor)
        /\ op \in {"role", "remove"} => IsMember(o, target)
        /\ op \in {"leave", "delete_org"} => target = actor
        /\ op \notin {"role", "invite"} => role = "member"
        /\ request' = [request EXCEPT ![w] =
                        [Idle EXCEPT !.op = op, !.step = "loaded", !.org = o,
                                     !.actor = actor, !.target = target, !.role = role,
                                     !.row = IF op \in {"role", "remove", "leave"}
                                             THEN members[o][target] ELSE NoMember]]
  BY DEF Begin
<1>2. QED
  BY <1>1 DEF IInv, TypeOK, Idle

LEMMA Answered ==
  ASSUME IInv, NEW w \in Worker, Respond(w)
  PROVE  request'[w].op = "none" /\ request'[w].step = "idle" /\ request'[w].org = None
  BY RespondAnswers DEF IInv, Idle

-----------------------------------------------------------------------------
(* Owners *)

\* The handlers that change the members of org o.
Governs(w, o) == request[w].op \in {"role", "remove", "leave"} /\ request[w].org = o

OneOfficer(o) == \A v, w \in Officer : Governs(v, o) /\ Governs(w, o) => v = w

HasOwner(o) == orgs[o] = "live" => Owners(o) # {}

\* The request has been cleared to take ownership away from its target.
Dethrones(r) ==
    /\ r.row.role = "owner"
    /\ \/ r.op = "role" /\ r.step = "cleared" /\ r.role # "owner"
       \/ r.op = "leave" /\ r.step \in {"counted", "cleared"}

\* The row of an org's one officer is what the table holds as long as it holds
\* the row, and the other owner it has counted is still there.
OfficerSound(r) ==
    /\ RowThere(r) => members[r.org][r.target] = r.row
    /\ Dethrones(r) /\ orgs[r.org] = "live" =>
          \E u \in User \ {r.target} : members[r.org][u].role = "owner"

ThroneSound(o) ==
    /\ HasOwner(o)
    /\ \A w \in Officer : Governs(w, o) => OfficerSound(request[w])

\* Another owner is left when one may be spared.
LEMMA SpareOwner ==
  ASSUME NEW r, OwnerToSpare(r.row, r.org), r.row.role = "owner"
  PROVE  \E u \in User \ {r.target} : members[r.org][u].role = "owner"
<1>1. Cardinality(Owners(r.org)) > 1
  BY DEF OwnerToSpare
<1>2. PICK u \in Owners(r.org) : u # r.target
  BY <1>1, Another
<1>3. QED
  BY <1>2 DEF Owners

\* Rows of o that an officer has not loaded may come, rows never change under
\* one, and the rows of a deleted org go.
LEMMA GrowingKeepsThrone ==
  ASSUME IInv, NEW o \in Org, ThroneSound(o),
         \A v \in Officer : Governs(v, o)' =>
            \/ request'[v] = request[v] /\ request[v].step # "idle"
            \/ OfficerSound(request[v])',
         orgs'[o] = "live" => \/ /\ orgs[o] = "live"
                                 /\ \A u \in User : IsMember(o, u) => members'[o][u] = members[o][u]
                              \/ Owners(o)' # {} /\ orgs[o] = "absent",
         \A v \in Officer, u \in User :
            /\ Governs(v, o) /\ u = request[v].target
            /\ members'[o][u] # members[o][u]
            => members'[o][u].via # request[v].row.via \/ members'[o][u].role = "none"
  PROVE  ThroneSound(o)'
<1>1. HasOwner(o)'
  BY DEF ThroneSound, HasOwner, Owners, IsMember
<1>2. ASSUME NEW v \in Officer, Governs(v, o)', request'[v] = request[v], request[v].step # "idle"
      PROVE  OfficerSound(request[v])'
  <2>1. PICK r : r = request[v] /\ r = request'[v]
    BY <1>2
  <2>2. Governs(v, o) /\ OfficerSound(r) /\ ReadSound(v, r) /\ v \in Worker
    BY <1>2, <2>1 DEF Governs, ThroneSound, IInv, RequestsSound, Worker
  <2>3. r.org = o /\ r.target \in User /\ r.step # "idle" /\ orgs[o] # "absent"
    BY <1>2, <2>1, <2>2 DEF Governs, ReadSound
  <2>4. RowThere(request[v])' => members'[o][r.target] = r.row
    <3>1. RowThere(request[v])' => /\ members'[o][r.target].via = r.row.via
                                   /\ members'[o][r.target].role # "none"
      BY <2>1, <2>3 DEF RowThere, IsMember
    <3>2. \/ members'[o][r.target] = members[o][r.target]
          \/ members'[o][r.target].via # r.row.via
          \/ members'[o][r.target].role = "none"
      BY <2>1, <2>2, <2>3
    <3>3. members[o][r.target].via = r.row.via /\ members[o][r.target].role # "none" =>
             members[o][r.target] = r.row
      BY <2>2, <2>3 DEF OfficerSound, RowThere, IsMember
    <3>4. QED
      BY <3>1, <3>2, <3>3
  <2>5. Dethrones(r) /\ orgs'[o] = "live" => \E u \in User \ {r.target} : members'[o][u].role = "owner"
    BY <2>2, <2>3 DEF OfficerSound, IsMember
  <2>6. QED
    BY <2>1, <2>3, <2>4, <2>5 DEF OfficerSound, Dethrones
<1>3. QED
  BY <1>1, <1>2 DEF ThroneSound

LEMMA UnwrittenKeepsThrone ==
  ASSUME IInv, NEW o \in Org, ThroneSound(o), orgs'[o] = orgs[o], members'[o] = members[o],
         \A v \in Officer : Governs(v, o)' =>
            \/ request'[v] = request[v] /\ request[v].step # "idle"
            \/ OfficerSound(request[v])'
  PROVE  ThroneSound(o)'
<1>1. \A u \in User : members'[o][u] = members[o][u]
  OBVIOUS
<1>2. orgs'[o] = "live" => \/ /\ orgs[o] = "live"
                              /\ \A u \in User : IsMember(o, u) => members'[o][u] = members[o][u]
                           \/ Owners(o)' # {} /\ orgs[o] = "absent"
  BY <1>1
<1>3. QED
  BY <1>1, <1>2, GrowingKeepsThrone

\* Requests that are not idle, and govern o, stay what they are.
LEMMA OthersGovern ==
  ASSUME IInv, NEW o \in Org, NEW v \in Officer, Governs(v, o)', request'[v] = request[v]
  PROVE  Governs(v, o) /\ request[v].step # "idle"
  BY DEF Governs, IInv, RequestsSound, ReadSound, Worker

\* What an officer of o knows after a statement that reads.
LEMMA ReadKeepsThrone ==
  ASSUME IInv, NEW o \in Org, ThroneSound(o), NEW w \in Worker, Handle(w), Reads(w)
  PROVE  ThroneSound(o)'
<1>1. UNCHANGED <<orgs, members, invitations>>
  BY ReadsWriteNothing
<1>2. ASSUME Governs(w, o)', w \in Officer
      PROVE  OfficerSound(request[w])'
  <2>1. CASE Begin(w)
    <3>1. /\ request'[w].step = "loaded"
          /\ request'[w].op \in {"role", "remove", "leave"} =>
                request'[w].row = members[request'[w].org][request'[w].target]
      BY <2>1, Began
    <3>2. QED
      BY <1>1, <1>2, <3>1 DEF OfficerSound, Dethrones, Governs
  <2>2. CASE Refuse(w)
    BY <1>2, <2>2, Answered DEF Refuse, Governs
  <2>3. ASSUME NEW step \in {"authorized", "counted", "cleared"}, GoTo(w, step)
        PROVE  /\ request'[w].step = step
               /\ request'[w].op = request[w].op /\ request'[w].org = request[w].org
               /\ request'[w].target = request[w].target
               /\ request'[w].role = request[w].role /\ request'[w].row = request[w].row
               /\ Governs(w, o) /\ OfficerSound(request[w])
    <3>1. /\ request'[w].step = step
          /\ request'[w].op = request[w].op /\ request'[w].org = request[w].org
          /\ request'[w].target = request[w].target
          /\ request'[w].role = request[w].role /\ request'[w].row = request[w].row
      BY <2>3, WentOn
    <3>2. Governs(w, o)
      BY <1>2, <3>1 DEF Governs
    <3>3. QED
      BY <1>2, <3>1, <3>2 DEF ThroneSound
  <2>4. CASE Authorize(w) /\ ~Refuse(w)
    <3>1. GoTo(w, "authorized")
      BY <2>4 DEF Authorize, Check
    <3>2. QED
      BY <1>1, <2>3, <3>1 DEF OfficerSound, RowThere, IsMember, Dethrones
  <2>5. CASE CountForRole(w) /\ ~Refuse(w)
    <3>1. /\ GoTo(w, "cleared") /\ request[w].op = "role"
          /\ request[w].role # "owner" => OwnerToSpare(request[w].row, request[w].org)
      BY <2>5 DEF CountForRole, Check, At
    <3>2. request[w].role # "owner" /\ request[w].row.role = "owner" =>
            \E u \in User \ {request[w].target} : members[request[w].org][u].role = "owner"
      BY <3>1, SpareOwner
    <3>3. QED
      BY <1>1, <2>3, <3>1, <3>2 DEF OfficerSound, RowThere, IsMember, Dethrones
  <2>6. CASE CountOwnersToLeave(w) /\ ~Refuse(w)
    <3>1. GoTo(w, "counted") /\ OwnerToSpare(request[w].row, request[w].org)
      BY <2>6 DEF CountOwnersToLeave, Check
    <3>2. request[w].row.role = "owner" =>
            \E u \in User \ {request[w].target} : members[request[w].org][u].role = "owner"
      BY <3>1, SpareOwner
    <3>3. QED
      BY <1>1, <2>3, <3>1, <3>2 DEF OfficerSound, RowThere, IsMember, Dethrones
  <2>7. CASE CountOrgsToLeave(w) /\ ~Refuse(w)
    <3>1. GoTo(w, "cleared") /\ request[w].op = "leave" /\ request[w].step = "counted"
      BY <2>7 DEF CountOrgsToLeave, Check, At
    <3>2. QED
      BY <1>1, <2>3, <3>1 DEF OfficerSound, RowThere, IsMember, Dethrones
  <2>8. CASE CountPending(w) \/ CountSeats(w)
    <3>1. request[w].op = "invite"
      BY <2>8 DEF CountPending, CountSeats, At
    <3>2. CASE Respond(w)
      BY <1>2, <3>2, Answered DEF Governs
    <3>3. CASE ~Respond(w)
      <4>1. request'[w].op = "invite"
        <5>1. CASE CountSeats(w)
          BY <3>1, <3>3, <5>1, WentOn DEF CountSeats, Check, Refuse
        <5>2. CASE CountPending(w)
          BY <3>1, <3>3, <5>2 DEF CountPending, IInv, TypeOK, Request
        <5>3. QED
          BY <2>8, <5>1, <5>2
      <4>2. QED
        BY <1>2, <4>1 DEF Governs
    <3>4. QED
      BY <3>2, <3>3
  <2>9. QED
    BY <2>1, <2>2, <2>4, <2>5, <2>6, <2>7, <2>8 DEF Reads
<1>3. \A v \in Officer : Governs(v, o)' =>
            \/ request'[v] = request[v] /\ request[v].step # "idle"
            \/ OfficerSound(request[v])'
  BY <1>2, OwnRequest, OthersGovern DEF Worker
<1>4. QED
  BY <1>1, <1>3, UnwrittenKeepsThrone

\* The one statement that can take an owner away, by an officer of o or of
\* another org.
LEMMA RowWriteKeepsThrone ==
  ASSUME IInv, NEW o \in Org, ThroneSound(o), OneOfficer(o),
         NEW w \in Worker, NEW row \in MemberRow, RowWrite(w, row)
  PROVE  ThroneSound(o)'
<1>1. PICK r : r = request[w]
  OBVIOUS
<1>2. /\ r.op \in {"role", "remove", "leave"} /\ r.org \in Org /\ r.target \in User
      /\ w \in Officer /\ request'[w] = Idle
      /\ \A v \in Worker : v # w => request'[v] = request[v]
      /\ \A p \in Org, u \in User :
            members'[p][u] = IF p = r.org /\ u = r.target /\ RowThere(r) THEN row
                             ELSE members[p][u]
  BY <1>1, RowWriteEffect
<1>3. UNCHANGED orgs
  BY DEF RowWrite
<1>4. \A v \in Officer : Governs(v, o)' =>
         v # w /\ request'[v] = request[v] /\ request[v].step # "idle" /\ Governs(v, o)
  BY <1>2, OthersGovern DEF Governs, Idle, Worker
<1>5. CASE r.org # o
  <2>1. \A u \in User : members'[o][u] = members[o][u]
    BY <1>2, <1>5
  <2>2. orgs'[o] = "live" => \/ /\ orgs[o] = "live"
                                /\ \A u \in User : IsMember(o, u) => members'[o][u] = members[o][u]
                             \/ Owners(o)' # {} /\ orgs[o] = "absent"
    BY <1>3, <2>1
  <2>3. QED
    BY <1>4, <2>1, <2>2, GrowingKeepsThrone
<1>6. CASE r.org = o
  <2>1. Governs(w, o) /\ OfficerSound(r)
    BY <1>1, <1>2, <1>6 DEF Governs, ThroneSound
  <2>2. \A v \in Officer : ~Governs(v, o)'
    BY <1>2, <1>4, <2>1 DEF OneOfficer
  <2>3. r.row.role = "owner" /\ row.role # "owner" => Dethrones(r)
    BY <1>1 DEF RowWrite, Dethrones, Removable
  <2>4. ASSUME orgs'[o] = "live"
        PROVE  Owners(o)' # {}
    <3>1. orgs[o] = "live"
      BY <1>3, <2>4
    <3>2. PICK u \in User : members[o][u].role = "owner"
      BY <3>1 DEF ThroneSound, HasOwner, Owners
    <3>3. CASE members'[o][u].role = "owner"
      BY <3>3 DEF Owners
    <3>4. CASE members'[o][u].role # "owner"
      <4>1. u = r.target /\ r.row.role = "owner" /\ row.role # "owner"
        BY <1>2, <1>6, <2>1, <3>2, <3>4 DEF OfficerSound
      <4>2. PICK x \in User \ {r.target} : members[o][x].role = "owner"
        BY <1>6, <2>1, <2>3, <3>1, <4>1 DEF OfficerSound
      <4>3. members'[o][x].role = "owner"
        BY <1>2, <4>2
      <4>4. QED
        BY <4>3 DEF Owners
    <3>5. QED
      BY <3>3, <3>4
  <2>5. QED
    BY <2>2, <2>4 DEF ThroneSound, HasOwner
<1>7. QED
  BY <1>5, <1>6

LEMMA DeleteKeepsThrone ==
  ASSUME IInv, NEW o \in Org, ThroneSound(o),
         NEW w \in Worker, NEW d \in Org, NEW gone \in InvitationRow, Deletes(w, d, gone)
  PROVE  ThroneSound(o)'
<1>1. \A v \in Officer : Governs(v, o)' => request'[v] = request[v] /\ request[v].step # "idle"
  BY OthersGovern DEF Deletes, Governs, Idle, Worker
<1>2. orgs'[o] = "live" => \/ /\ orgs[o] = "live"
                              /\ \A u \in User : IsMember(o, u) => members'[o][u] = members[o][u]
                           \/ Owners(o)' # {} /\ orgs[o] = "absent"
  BY DEF Deletes
<1>3. \A v \in Officer, u \in User :
            /\ Governs(v, o) /\ u = request[v].target
            /\ members'[o][u] # members[o][u]
            => members'[o][u].via # request[v].row.via \/ members'[o][u].role = "none"
  BY DEF Deletes, NoMember
<1>4. QED
  BY <1>1, <1>2, <1>3, GrowingKeepsThrone

LEMMA CreateKeepsThrone ==
  ASSUME IInv, NEW o \in Org, ThroneSound(o),
         NEW p \in Org, NEW u \in User, NEW founder \in MemberRow, Founds(p, u, founder)
  PROVE  ThroneSound(o)'
<1>1. \A v \in Officer : Governs(v, o)' => request'[v] = request[v] /\ request[v].step # "idle"
  BY OthersGovern DEF Founds
<1>2. orgs'[o] = "live" => \/ /\ orgs[o] = "live"
                              /\ \A x \in User : IsMember(o, x) => members'[o][x] = members[o][x]
                           \/ Owners(o)' # {} /\ orgs[o] = "absent"
  <2>1. CASE o = p
    BY <2>1 DEF Founds, Owners
  <2>2. CASE o # p
    BY <2>2 DEF Founds
  <2>3. QED
    BY <2>1, <2>2
<1>3. \A v \in Officer, x \in User :
            /\ Governs(v, o) /\ x = request[v].target
            /\ members'[o][x] # members[o][x]
            => members'[o][x].via # request[v].row.via \/ members'[o][x].role = "none"
  BY DEF Founds, Governs, IInv, RequestsSound, ReadSound, Worker
<1>4. QED
  BY <1>1, <1>2, <1>3, GrowingKeepsThrone

LEMMA AcceptKeepsThrone ==
  ASSUME IInv, NEW o \in Org, ThroneSound(o),
         NEW i \in Invitation, NEW p \in Org, NEW u \in User, NEW row \in MemberRow,
         NEW spent \in InvitationRow, Joins(i, p, u, row, spent)
  PROVE  ThroneSound(o)'
<1>1. \A v \in Officer : Governs(v, o)' => request'[v] = request[v] /\ request[v].step # "idle"
  BY OthersGovern DEF Joins
<1>2. orgs'[o] = "live" => \/ /\ orgs[o] = "live"
                              /\ \A x \in User : IsMember(o, x) => members'[o][x] = members[o][x]
                           \/ Owners(o)' # {} /\ orgs[o] = "absent"
  BY DEF Joins
<1>3. \A v \in Officer : Governs(v, o) => request[v].row.via # i
  BY DEF Joins, Governs, IInv, RequestsSound, ReadSound, Worker
<1>4. \A v \in Officer, x \in User :
            /\ Governs(v, o) /\ x = request[v].target
            /\ members'[o][x] # members[o][x]
            => members'[o][x].via # request[v].row.via \/ members'[o][x].role = "none"
  BY <1>3 DEF Joins
<1>5. QED
  BY <1>1, <1>2, <1>4, GrowingKeepsThrone

LEMMA StepKeepsThrone ==
  ASSUME IInv, NEW o \in Org, ThroneSound(o), OneOfficer(o), [Next]_vars
  PROVE  ThroneSound(o)'
<1>1. ASSUME orgs'[o] = orgs[o], members' = members, NEW w, w \notin Worker \/ request'[w].op = "none",
             \A v \in Worker : v # w => request'[v] = request[v]
      PROVE  ThroneSound(o)'
  <2>1. \A v \in Officer : Governs(v, o)' =>
            \/ request'[v] = request[v] /\ request[v].step # "idle"
            \/ OfficerSound(request[v])'
    BY <1>1, OthersGovern DEF Governs, Worker
  <2>2. QED
    BY <1>1, <2>1, UnwrittenKeepsThrone
<1>2. ASSUME NEW w \in Worker, Handle(w), Respond(w), UNCHANGED data
      PROVE  ThroneSound(o)'
  BY <1>1, <1>2, Answered, OwnRequest DEF data
<1>3. ASSUME NEW w \in Worker, InsertInvitation(w)
      PROVE  ThroneSound(o)'
  <2>1. request'[w].op = "none"
    BY <1>3, Answered DEF InsertInvitation
  <2>2. QED
    BY <1>1, <1>3, <2>1, InsertEffect
<1>4. ASSUME UNCHANGED <<orgs, members, request>>
      PROVE  ThroneSound(o)'
  BY <1>4, OthersGovern, UnwrittenKeepsThrone
<1>5. CASE UNCHANGED vars \/ \E i \in Invitation, gone \in InvitationRow : Cancels(i, gone)
  BY <1>4, <1>5 DEF vars, Cancels
<1>6. CASE Next
  BY <1>2, <1>3, <1>5, <1>6, NextKinds, ReadKeepsThrone, RowWriteKeepsThrone,
     DeleteKeepsThrone, CreateKeepsThrone, AcceptKeepsThrone
<1>7. QED
  BY <1>5, <1>6

LEMMA InitThrone ==
  ASSUME Init, NEW o \in Org
  PROVE  ThroneSound(o)
  BY DEF Init, ThroneSound, HasOwner, Governs, Idle, Worker

\* As long as no two handlers for roles, removals and leaving are busy in an
\* org, the org has an owner while it lives, whatever goes on in other orgs and
\* whatever is founded, joined, invited to and deleted.
THEOREM OneOfficerKeepsAnOwner ==
  ASSUME NEW o \in Org
  PROVE  Spec /\ []OneOfficer(o) => []HasOwner(o)
<1>1. Init => ThroneSound(o)
  BY InitThrone
<1>2. IInv /\ ThroneSound(o) /\ OneOfficer(o) /\ [Next]_vars => ThroneSound(o)'
  BY StepKeepsThrone
<1>3. ThroneSound(o) => HasOwner(o)
  BY DEF ThroneSound
<1>4. QED
  BY <1>1, <1>2, <1>3, Invariant, PTL DEF Spec

\* The same of all orgs; a lone officer is a case of it.
THEOREM OwnersRemain ==
  Spec /\ [](\A o \in Org : OneOfficer(o)) => []OwnerRemains
<1>1. Init => \A o \in Org : ThroneSound(o)
  BY InitThrone
<1>2. IInv /\ (\A o \in Org : ThroneSound(o)) /\ (\A o \in Org : OneOfficer(o)) /\ [Next]_vars
        => (\A o \in Org : ThroneSound(o))'
  BY StepKeepsThrone
<1>3. (\A o \in Org : ThroneSound(o)) => OwnerRemains
  BY DEF ThroneSound, HasOwner, OwnerRemains
<1>4. QED
  BY <1>1, <1>2, <1>3, Invariant, PTL DEF Spec

-----------------------------------------------------------------------------
(* Seats *)

\* The forms inviting to o that are being handled.
Inviting(o) == {w \in Inviter : request[w].op = "invite" /\ request[w].org = o}

\* At most n at once.
Crowd(o, n) == IsFiniteSet(Inviting(o)) /\ Cardinality(Inviting(o)) <= n

Taken(o) == Cardinality(Seats(o)) + Cardinality(Pending(o))

\* The forms that will insert, or would if j more seats were free: the pending
\* invitations they have counted may be too few by now.
Ahead(o, j) ==
    {w \in Inviting(o) :
        \/ request[w].step = "cleared"
        \/ /\ request[w].step = "counted"
           /\ Cardinality(Seats(o)) + request[w].pending < SeatLimit + j}

\* Where a handler's two counts allowed it to go on, no more than n - 1 others
\* are ahead of it.  Members who leave bring forms ahead that were refused so
\* far, but no more of them than the inequality for the next j allows.
SeatSound(o, n) ==
    orgs[o] = "live" =>
        \A j \in Nat : Taken(o) + Cardinality(Ahead(o, j)) <= SeatLimit + j + n - 1

LEMMA SeatsFiniteNext ==
  ASSUME NEW o \in Org
  PROVE  /\ IsFiniteSet(Seats(o)') /\ Cardinality(Seats(o)') \in Nat
         /\ IsFiniteSet(Pending(o)') /\ Cardinality(Pending(o)') \in Nat
<1>1. Seats(o)' \in SUBSET User /\ Pending(o)' \in SUBSET Invitation
  BY DEF Seats, Pending
<1>2. IsFiniteSet(Seats(o)') /\ IsFiniteSet(Pending(o)')
  BY <1>1, FiniteAssumption, FS_Subset
<1>3. QED
  BY <1>2, FS_CardinalityType

LEMMA TakenIsNat ==
  ASSUME NEW o \in Org
  PROVE  Taken(o) \in Nat /\ Taken(o)' \in Nat
  BY SeatsFinite, SeatsFiniteNext DEF Taken

LEMMA AheadFinite ==
  ASSUME NEW o \in Org, NEW n \in Nat, Crowd(o, n), NEW j \in Nat
  PROVE  IsFiniteSet(Ahead(o, j)) /\ Cardinality(Ahead(o, j)) \in Nat
<1>1. Ahead(o, j) \in SUBSET Inviting(o)
  BY DEF Ahead
<1>2. QED
  BY <1>1, FS_Subset, FS_CardinalityType DEF Crowd

\* A step that frees k - j seats or more, and brings ahead at most the forms that
\* wait for k seats, keeps the inequality for j.
LEMMA NoMoreAhead ==
  ASSUME NEW o \in Org, NEW n \in Nat, Crowd(o, n), SeatSound(o, n), orgs[o] = "live",
         NEW j \in Nat, NEW k \in Nat,
         Ahead(o, j)' \subseteq Ahead(o, k), Taken(o)' + k <= Taken(o) + j
  PROVE  Taken(o)' + Cardinality(Ahead(o, j)') <= SeatLimit + j + n - 1
<1>1. IsFiniteSet(Ahead(o, k)) /\ Cardinality(Ahead(o, k)) \in Nat
  BY AheadFinite
<1>2. Ahead(o, j)' \in SUBSET Ahead(o, k)
  OBVIOUS
<1>3. IsFiniteSet(Ahead(o, j)') /\ Cardinality(Ahead(o, j)') <= Cardinality(Ahead(o, k))
  BY <1>1, <1>2, FS_Subset
<1>4. Cardinality(Ahead(o, j)') \in Nat
  BY <1>3, FS_CardinalityType
<1>5. Taken(o) + Cardinality(Ahead(o, k)) <= SeatLimit + k + n - 1
  BY DEF SeatSound
<1>6. QED
  BY <1>1, <1>3, <1>4, <1>5, TakenIsNat, SeatLimitAssumption

\* Another handler's form is not brought ahead while the members stay.
LEMMA OthersAhead ==
  ASSUME IInv, NEW o \in Org, NEW j \in Nat, NEW v \in Inviter, request'[v] = request[v],
         Cardinality(Seats(o)) <= Cardinality(Seats(o)'), v \in Ahead(o, j)'
  PROVE  v \in Ahead(o, j)
<1>1. request[v].pending \in Nat
  BY RequestFields DEF IInv, Worker
<1>2. QED
  BY <1>1, SeatsFinite, SeatsFiniteNext, SeatLimitAssumption DEF Ahead, Inviting

\* The two counts.  The first puts a form ahead by what it has counted; the second
\* clears it only if it was ahead.
LEMMA ReadKeepsSeats ==
  ASSUME IInv, NEW o \in Org, NEW n \in Nat, SeatSound(o, n), Crowd(o, n),
         NEW w \in Worker, Handle(w), Reads(w)
  PROVE  SeatSound(o, n)'
<1>1. UNCHANGED <<orgs, members, invitations>>
  BY ReadsWriteNothing
<1>2. Seats(o)' = Seats(o) /\ Pending(o)' = Pending(o) /\ Taken(o)' = Taken(o)
  BY <1>1 DEF Seats, Pending, Taken, IsMember
<1>3. SUFFICES ASSUME orgs[o] = "live", NEW j \in Nat
               PROVE  Taken(o)' + Cardinality(Ahead(o, j)') <= SeatLimit + j + n - 1
  BY <1>1 DEF SeatSound
<1>4. \A v \in Inviter : v # w /\ v \in Ahead(o, j)' => v \in Ahead(o, j)
  BY <1>2, OwnRequest, OthersAhead, SeatsFinite DEF Worker
<1>5. ASSUME w \in Ahead(o, j)' => w \in Ahead(o, j)
      PROVE  Taken(o)' + Cardinality(Ahead(o, j)') <= SeatLimit + j + n - 1
  <2>1. Ahead(o, j)' \subseteq Ahead(o, j)
    BY <1>4, <1>5 DEF Ahead, Inviting
  <2>2. Taken(o)' + j <= Taken(o) + j
    BY <1>2, TakenIsNat
  <2>3. QED
    BY <1>3, <2>1, <2>2, NoMoreAhead
<1>6. w \in Ahead(o, j)' => /\ w \in Inviter /\ request'[w].op = "invite"
                            /\ request'[w].org = o
                            /\ request'[w].step \in {"counted", "cleared"}
  BY DEF Ahead, Inviting
<1>7. CASE Begin(w) \/ Refuse(w)
  BY <1>5, <1>6, <1>7, Began, Answered DEF Refuse
<1>8. CASE Authorize(w) /\ ~Refuse(w)
  BY <1>5, <1>6, <1>8, WentOn DEF Authorize, Check
<1>9. CASE (CountForRole(w) \/ CountOwnersToLeave(w) \/ CountOrgsToLeave(w)) /\ ~Refuse(w)
  BY <1>5, <1>6, <1>9, WentOn DEF CountForRole, CountOwnersToLeave, CountOrgsToLeave, Check, At
<1>10. CASE CountSeats(w) /\ ~Refuse(w)
  <2>1. /\ GoTo(w, "cleared") /\ request[w].op = "invite" /\ request[w].step = "counted"
        /\ Cardinality(Seats(request[w].org)) + request[w].pending < SeatLimit
    BY <1>10 DEF CountSeats, Check, At, FreeSeat
  <2>2. request'[w].org = request[w].org
    BY <2>1, WentOn
  <2>3. request[w].pending \in Nat
    BY RequestFields DEF IInv
  <2>4. w \in Ahead(o, j)' => w \in Ahead(o, j)
    BY <1>6, <2>1, <2>2, <2>3, SeatsFinite, SeatLimitAssumption DEF Ahead, Inviting
  <2>5. QED
    BY <1>5, <2>4
<1>11. CASE CountPending(w)
  <2>1. CASE Respond(w)
    BY <1>5, <1>6, <2>1, Answered
  <2>2. CASE ~Respond(w)
    <3>1. /\ request[w].op = "invite" /\ request[w].step = "authorized"
          /\ request' = [request EXCEPT ![w].step = "counted",
                                        ![w].pending = Cardinality(Pending(request[w].org))]
      BY <1>11, <2>2 DEF CountPending, At
    <3>2. /\ request'[w].op = "invite" /\ request'[w].org = request[w].org
          /\ request'[w].step = "counted"
          /\ request'[w].pending = Cardinality(Pending(request[w].org))
      BY <3>1 DEF IInv, TypeOK, Request
    <3>3. CASE Taken(o) < SeatLimit + j
      <4>1. Inviting(o)' = Inviting(o)
        BY <3>1, <3>2, OwnRequest DEF Inviting, Worker
      <4>2. Ahead(o, j)' \in SUBSET Inviting(o)
        BY <4>1 DEF Ahead
      <4>3. IsFiniteSet(Inviting(o)) /\ Cardinality(Inviting(o)) \in Nat
            /\ Cardinality(Inviting(o)) <= n
        BY FS_CardinalityType DEF Crowd
      <4>4. IsFiniteSet(Ahead(o, j)') /\ Cardinality(Ahead(o, j)') <= Cardinality(Inviting(o))
        BY <4>2, <4>3, FS_Subset
      <4>5. Cardinality(Ahead(o, j)') \in Nat
        BY <4>4, FS_CardinalityType
      <4>6. QED
        BY <1>2, <3>3, <4>3, <4>4, <4>5, TakenIsNat, SeatLimitAssumption
    <3>4. CASE ~(Taken(o) < SeatLimit + j)
      <4>1. w \notin Ahead(o, j)'
        BY <1>2, <3>2, <3>4 DEF Ahead, Inviting, Taken
      <4>2. QED
        BY <1>5, <4>1
    <3>5. QED
      BY <3>3, <3>4
  <2>3. QED
    BY <2>1, <2>2
<1>12. QED
  BY <1>7, <1>8, <1>9, <1>10, <1>11 DEF Reads

\* Steps after which no more seats are taken and no fewer people are members.
LEMMA NoMoreTaken ==
  ASSUME IInv, NEW o \in Org, NEW n \in Nat, SeatSound(o, n), Crowd(o, n),
         orgs'[o] = "live" => orgs[o] = "live",
         Taken(o)' <= Taken(o), Cardinality(Seats(o)) <= Cardinality(Seats(o)'),
         \A v \in Inviter : request'[v] = request[v] \/ request'[v].op # "invite"
  PROVE  SeatSound(o, n)'
<1>1. SUFFICES ASSUME orgs[o] = "live", NEW j \in Nat
               PROVE  Taken(o)' + Cardinality(Ahead(o, j)') <= SeatLimit + j + n - 1
  BY DEF SeatSound
<1>2. ASSUME NEW v \in Ahead(o, j)'
      PROVE  v \in Ahead(o, j)
  <2>1. v \in Inviter /\ request'[v].op = "invite"
    BY DEF Ahead, Inviting
  <2>2. request'[v] = request[v]
    BY <2>1
  <2>3. QED
    BY <2>1, <2>2, OthersAhead
<1>3. Taken(o)' + j <= Taken(o) + j
  BY TakenIsNat
<1>4. QED
  BY <1>1, <1>2, <1>3, NoMoreAhead

\* A member who goes makes one seat free.
LEMMA RowWriteKeepsSeats ==
  ASSUME IInv, NEW o \in Org, NEW n \in Nat, SeatSound(o, n), Crowd(o, n),
         NEW w \in Worker, NEW row \in MemberRow, RowWrite(w, row)
  PROVE  SeatSound(o, n)'
<1>1. PICK r : r = request[w]
  OBVIOUS
<1>2. /\ r.op \in {"role", "remove", "leave"} /\ r.org \in Org /\ r.target \in User
      /\ request'[w] = Idle
      /\ \A v \in Worker : v # w => request'[v] = request[v]
      /\ \A p \in Org, u \in User :
            members'[p][u] = IF p = r.org /\ u = r.target /\ RowThere(r) THEN row
                             ELSE members[p][u]
  BY <1>1, RowWriteEffect
<1>3. UNCHANGED <<orgs, invitations>> /\ (row.role \in Role \/ row = NoMember)
  BY DEF RowWrite
<1>4. \A v \in Inviter : request'[v] = request[v] \/ request'[v].op # "invite"
  BY <1>2 DEF Idle, Worker
<1>5. Pending(o)' = Pending(o)
  BY <1>3 DEF Pending
<1>6. CASE Seats(o)' = Seats(o)
  <2>1. Taken(o)' <= Taken(o) /\ Cardinality(Seats(o)) <= Cardinality(Seats(o)')
    BY <1>5, <1>6, SeatsFinite DEF Taken
  <2>2. QED
    BY <1>3, <1>4, <2>1, NoMoreTaken
<1>7. CASE Seats(o)' # Seats(o)
  <2>1. o = r.org /\ RowThere(r) /\ row = NoMember
    BY <1>2, <1>3, <1>7 DEF Seats, IsMember, RowThere, Role
  <2>2. Seats(o)' = Seats(o) \ {r.target} /\ r.target \in Seats(o)
    BY <1>2, <2>1 DEF Seats, IsMember, RowThere, NoMember
  <2>3. Cardinality(Seats(o)') = Cardinality(Seats(o)) - 1
    <3>1. IsFiniteSet(Seats(o))
      BY SeatsFinite
    <3>2. Cardinality(Seats(o) \ {r.target}) = Cardinality(Seats(o)) - 1
      BY <2>2, <3>1, FS_RemoveElement
    <3>3. QED
      BY <2>2, <3>2
  <2>4. SUFFICES ASSUME orgs[o] = "live", NEW j \in Nat
                 PROVE  Taken(o)' + Cardinality(Ahead(o, j)') <= SeatLimit + j + n - 1
    BY <1>3 DEF SeatSound
  <2>5. ASSUME NEW v \in Ahead(o, j)'
        PROVE  v \in Ahead(o, j + 1)
    <3>1. v \in Inviter /\ request'[v].op = "invite"
      BY DEF Ahead, Inviting
    <3>2. request'[v] = request[v] /\ request[v].pending \in Nat
      BY <1>4, <3>1, RequestFields DEF IInv, Worker
    <3>3. QED
      BY <2>3, <3>1, <3>2, SeatsFinite, SeatLimitAssumption DEF Ahead, Inviting
  <2>6. Taken(o)' + (j + 1) <= Taken(o) + j
    BY <1>5, <2>3, SeatsFinite DEF Taken
  <2>7. Ahead(o, j)' \subseteq Ahead(o, j + 1) /\ j + 1 \in Nat
    BY <2>5
  <2>8. QED
    BY <2>4, <2>6, <2>7, NoMoreAhead
<1>8. QED
  BY <1>6, <1>7

\* The form that inserts was ahead, and takes one seat.
LEMMA InsertKeepsSeats ==
  ASSUME IInv, NEW o \in Org, NEW n \in Nat, SeatSound(o, n), Crowd(o, n),
         NEW w \in Worker, InsertInvitation(w)
  PROVE  SeatSound(o, n)'
<1>1. /\ request[w].op = "invite" /\ request[w].step = "cleared" /\ w \in Inviter
      /\ request'[w] = Idle
      /\ \A v \in Worker : v # w => request'[v] = request[v]
      /\ UNCHANGED <<orgs, members>>
      /\ \/ UNCHANGED invitations
         \/ \E i \in Invitation, new \in InvitationRow : Inserts(w, i, new)
  BY InsertEffect
<1>2. Seats(o)' = Seats(o)
  BY <1>1 DEF Seats, IsMember
<1>3. CASE Pending(o)' = Pending(o)
  <2>1. \A v \in Inviter : request'[v] = request[v] \/ request'[v].op # "invite"
    BY <1>1 DEF Idle, Worker
  <2>2. Taken(o)' <= Taken(o) /\ Cardinality(Seats(o)) <= Cardinality(Seats(o)')
    BY <1>2, <1>3, SeatsFinite DEF Taken
  <2>3. QED
    BY <1>1, <2>1, <2>2, NoMoreTaken
<1>4. CASE Pending(o)' # Pending(o)
  <2>1. PICK i \in Invitation, new \in InvitationRow : Inserts(w, i, new)
    BY <1>1, <1>4 DEF Pending
  <2>2. new.org = o
    BY <1>4, <2>1 DEF Inserts, Pending
  <2>3. Pending(o)' = Pending(o) \cup {i} /\ i \notin Pending(o)
    BY <2>1, <2>2 DEF Inserts, Pending
  <2>4. Cardinality(Pending(o)') = Cardinality(Pending(o)) + 1
    <3>1. IsFiniteSet(Pending(o))
      BY SeatsFinite
    <3>2. Cardinality(Pending(o) \cup {i}) = Cardinality(Pending(o)) + 1
      BY <2>3, <3>1, FS_AddElement
    <3>3. QED
      BY <2>3, <3>2
  <2>5. Taken(o)' = Taken(o) + 1
    BY <1>2, <2>4, SeatsFinite DEF Taken
  <2>6. SUFFICES ASSUME orgs[o] = "live", NEW j \in Nat
                 PROVE  Taken(o)' + Cardinality(Ahead(o, j)') <= SeatLimit + j + n - 1
    BY <1>1 DEF SeatSound
  <2>7. w \in Ahead(o, j)
    BY <1>1, <2>1, <2>2 DEF Ahead, Inviting, Inserts
  <2>8. Ahead(o, j)' = Ahead(o, j) \ {w}
    BY <1>1, <1>2 DEF Ahead, Inviting, Idle, Worker
  <2>9. IsFiniteSet(Ahead(o, j)) /\ Cardinality(Ahead(o, j)) \in Nat
    BY AheadFinite
  <2>10. Cardinality(Ahead(o, j)') = Cardinality(Ahead(o, j)) - 1
    BY <2>7, <2>8, <2>9, FS_RemoveElement
  <2>11. Taken(o) + Cardinality(Ahead(o, j)) <= SeatLimit + j + n - 1
    BY <2>6 DEF SeatSound
  <2>12. QED
    BY <2>5, <2>9, <2>10, <2>11, TakenIsNat, SeatLimitAssumption
<1>5. QED
  BY <1>3, <1>4

LEMMA AcceptKeepsSeats ==
  ASSUME IInv, NEW o \in Org, NEW n \in Nat, SeatSound(o, n), Crowd(o, n),
         NEW i \in Invitation, NEW p \in Org, NEW u \in User, NEW row \in MemberRow,
         NEW spent \in InvitationRow, Joins(i, p, u, row, spent)
  PROVE  SeatSound(o, n)'
<1>1. UNCHANGED <<orgs, request>>
  BY DEF Joins
<1>2. CASE o = p
  <2>1. /\ Seats(o)' = Seats(o) \cup {u} /\ u \notin Seats(o)
        /\ Pending(o)' = Pending(o) \ {i} /\ i \in Pending(o)
    BY <1>2 DEF Joins, Seats, Pending, IsMember, PostedRole, Role
  <2>2. /\ Cardinality(Seats(o)') = Cardinality(Seats(o)) + 1
        /\ Cardinality(Pending(o)') = Cardinality(Pending(o)) - 1
    <3>1. IsFiniteSet(Seats(o)) /\ IsFiniteSet(Pending(o))
      BY SeatsFinite
    <3>2. Cardinality(Seats(o) \cup {u}) = Cardinality(Seats(o)) + 1
      BY <2>1, <3>1, FS_AddElement
    <3>3. Cardinality(Pending(o) \ {i}) = Cardinality(Pending(o)) - 1
      BY <2>1, <3>1, FS_RemoveElement
    <3>4. QED
      BY <2>1, <3>2, <3>3
  <2>3. Taken(o)' <= Taken(o) /\ Cardinality(Seats(o)) <= Cardinality(Seats(o)')
    BY <2>2, SeatsFinite DEF Taken
  <2>4. QED
    BY <1>1, <2>3, NoMoreTaken
<1>3. CASE o # p
  <2>1. Seats(o)' = Seats(o) /\ Pending(o)' = Pending(o)
    BY <1>3 DEF Joins, Seats, Pending, IsMember
  <2>2. Taken(o)' <= Taken(o) /\ Cardinality(Seats(o)) <= Cardinality(Seats(o)')
    BY <2>1, SeatsFinite DEF Taken
  <2>3. QED
    BY <1>1, <2>2, NoMoreTaken
<1>4. QED
  BY <1>2, <1>3

LEMMA CancelKeepsSeats ==
  ASSUME IInv, NEW o \in Org, NEW n \in Nat, SeatSound(o, n), Crowd(o, n),
         NEW i \in Invitation, NEW gone \in InvitationRow, Cancels(i, gone)
  PROVE  SeatSound(o, n)'
<1>1. UNCHANGED <<orgs, request>> /\ Seats(o)' = Seats(o) /\ Pending(o)' \in SUBSET Pending(o)
  BY DEF Cancels, Seats, Pending, IsMember
<1>2. Cardinality(Pending(o)') <= Cardinality(Pending(o))
  BY <1>1, SeatsFinite, FS_Subset
<1>3. Taken(o)' <= Taken(o) /\ Cardinality(Seats(o)) <= Cardinality(Seats(o)')
  BY <1>1, <1>2, SeatsFinite, SeatsFiniteNext DEF Taken
<1>4. QED
  BY <1>1, <1>3, NoMoreTaken

LEMMA DeleteKeepsSeats ==
  ASSUME IInv, NEW o \in Org, NEW n \in Nat, SeatSound(o, n), Crowd(o, n),
         NEW w \in Worker, NEW d \in Org, NEW gone \in InvitationRow, Deletes(w, d, gone)
  PROVE  SeatSound(o, n)'
<1>1. CASE o = d
  BY <1>1 DEF Deletes, SeatSound
<1>2. CASE o # d
  <2>1. Seats(o)' = Seats(o) /\ Pending(o)' = Pending(o) /\ orgs'[o] = orgs[o]
    BY <1>2, NoneAssumption DEF Deletes, Seats, Pending, IsMember
  <2>2. Taken(o)' <= Taken(o) /\ Cardinality(Seats(o)) <= Cardinality(Seats(o)')
    BY <2>1, SeatsFinite DEF Taken
  <2>3. \A v \in Inviter : request'[v] = request[v] \/ request'[v].op # "invite"
    BY DEF Deletes, Idle, Worker
  <2>4. QED
    BY <2>1, <2>2, <2>3, NoMoreTaken
<1>3. QED
  BY <1>1, <1>2

LEMMA CreateKeepsSeats ==
  ASSUME IInv, NEW o \in Org, NEW n \in Nat \ {0}, SeatSound(o, n), Crowd(o, n),
         NEW p \in Org, NEW u \in User, NEW founder \in MemberRow, Founds(p, u, founder)
  PROVE  SeatSound(o, n)'
<1>1. UNCHANGED <<invitations, request>> /\ Pending(o)' = Pending(o)
  BY DEF Founds, Pending
<1>2. CASE o # p
  <2>1. Seats(o)' = Seats(o) /\ orgs'[o] = orgs[o]
    BY <1>2 DEF Founds, Seats, IsMember
  <2>2. Taken(o)' <= Taken(o) /\ Cardinality(Seats(o)) <= Cardinality(Seats(o)')
    BY <1>1, <2>1, SeatsFinite DEF Taken
  <2>3. QED
    BY <1>1, <2>1, <2>2, NoMoreTaken
<1>3. CASE o = p
  <2>1. Seats(o)' = {u} /\ Pending(o)' = {}
    BY <1>1, <1>3 DEF Founds, Seats, IsMember
  <2>2. Cardinality(Seats(o)') = 1
    BY <2>1, FS_Singleton, Zenon
  <2>3. Cardinality(Pending(o)') = 0
    BY <2>1, FS_EmptySet, Zenon
  <2>4. ASSUME NEW j \in Nat
        PROVE  Ahead(o, j)' = {}
    <3>1. \A w \in Inviter : request'[w].step # "idle" => request'[w].org # o
      BY <1>1, <1>3 DEF Founds, Worker
    <3>2. QED
      BY <3>1 DEF Ahead, Inviting
  <2>5. ASSUME NEW j \in Nat
        PROVE  Cardinality(Ahead(o, j)') = 0
    BY <2>4, FS_EmptySet, Zenon
  <2>6. QED
    BY <2>2, <2>3, <2>5, SeatLimitAssumption DEF SeatSound, Taken
<1>4. QED
  BY <1>2, <1>3

LEMMA StepKeepsSeats ==
  ASSUME IInv, NEW o \in Org, NEW n \in Nat \ {0}, SeatSound(o, n), Crowd(o, n), [Next]_vars
  PROVE  SeatSound(o, n)'
<1>1. ASSUME UNCHANGED data,
             \A v \in Inviter : request'[v] = request[v] \/ request'[v].op # "invite"
      PROVE  SeatSound(o, n)'
  <2>1. UNCHANGED <<orgs, members, invitations>>
    BY <1>1 DEF data
  <2>2. Seats(o)' = Seats(o) /\ Pending(o)' = Pending(o)
    BY <2>1 DEF Seats, Pending, IsMember
  <2>3. Taken(o)' <= Taken(o) /\ Cardinality(Seats(o)) <= Cardinality(Seats(o)')
    BY <2>2, SeatsFinite DEF Taken
  <2>4. QED
    BY <1>1, <2>1, <2>3, NoMoreTaken
<1>2. ASSUME NEW w \in Worker, Handle(w), Respond(w), UNCHANGED data
      PROVE  SeatSound(o, n)'
  BY <1>1, <1>2, OwnRequest, Answered DEF Worker
<1>3. CASE UNCHANGED vars
  BY <1>1, <1>3 DEF vars, data
<1>4. CASE Next
  BY <1>2, <1>4, NextKinds, ReadKeepsSeats, RowWriteKeepsSeats, DeleteKeepsSeats,
     InsertKeepsSeats, CreateKeepsSeats, AcceptKeepsSeats, CancelKeepsSeats
<1>5. QED
  BY <1>3, <1>4

\* What the inequality says for j = 0.
LEMMA SeatsBounded ==
  ASSUME NEW o \in Org, NEW n \in Nat, SeatSound(o, n), Crowd(o, n), orgs[o] = "live"
  PROVE  Taken(o) <= SeatLimit + n - 1
<1>1. Taken(o) + Cardinality(Ahead(o, 0)) <= SeatLimit + 0 + n - 1
  BY DEF SeatSound
<1>2. QED
  BY <1>1, AheadFinite, TakenIsNat, SeatLimitAssumption

\* The race of assert_can_add_seat() is bounded: where at most n forms invite to
\* an org at the same time, its members and pending invitations exceed the seats
\* by n - 1 at most, however often forms are sent, and whoever joins, leaves and
\* is invited or uninvited between the two counts and the INSERT.
THEOREM OvershootIsBounded ==
  ASSUME NEW o \in Org, NEW n \in Nat \ {0}
  PROVE  Spec /\ []Crowd(o, n) => [](orgs[o] = "live" => Taken(o) <= SeatLimit + n - 1)
<1>1. Init => SeatSound(o, n)
  BY DEF Init, SeatSound
<1>2. IInv /\ SeatSound(o, n) /\ Crowd(o, n) /\ [Next]_vars => SeatSound(o, n)'
  BY StepKeepsSeats
<1>3. SeatSound(o, n) /\ Crowd(o, n) => (orgs[o] = "live" => Taken(o) <= SeatLimit + n - 1)
  BY SeatsBounded
<1>4. QED
  BY <1>1, <1>2, <1>3, Invariant, PTL DEF Spec

\* With one form at a time in each org, the seats are never exceeded.
THEOREM SeatsAreLimited ==
  Spec /\ [](\A o \in Org : Crowd(o, 1)) => []SeatsWithinLimit
<1>1. Init => \A o \in Org : SeatSound(o, 1)
  BY DEF Init, SeatSound
<1>2. IInv /\ (\A o \in Org : SeatSound(o, 1)) /\ (\A o \in Org : Crowd(o, 1)) /\ [Next]_vars
        => (\A o \in Org : SeatSound(o, 1))'
  BY StepKeepsSeats
<1>3. (\A o \in Org : SeatSound(o, 1)) /\ (\A o \in Org : Crowd(o, 1)) => SeatsWithinLimit
  <2>1. ASSUME NEW o \in Org, SeatSound(o, 1), Crowd(o, 1), orgs[o] = "live"
        PROVE  Cardinality(Seats(o)) + Cardinality(Pending(o)) <= SeatLimit
    BY <2>1, SeatsBounded, SeatsFinite, SeatLimitAssumption DEF Taken
  <2>2. QED
    BY <2>1 DEF SeatsWithinLimit
<1>4. QED
  BY <1>1, <1>2, <1>3, Invariant, PTL DEF Spec

-----------------------------------------------------------------------------
(* Leaving *)

\* Between the count of a user's orgs and the DELETE no other officer removes the
\* user, or deletes an org the user is in, and the user leaves no other org.
LeaversUndisturbed ==
    \A v, w \in Officer : v # w /\ At(w, "leave", "cleared") =>
        /\ request[v].op \in {"remove", "leave"} => request[v].target # request[w].actor
        /\ request[v].op = "delete_org" => ~IsMember(request[v].org, request[w].actor)

LeaversSound ==
    \A w \in Officer : At(w, "leave", "cleared") =>
        \E o \in Org \ {request[w].org} : IsMember(o, request[w].actor)

LEMMA CountedOrgs ==
  ASSUME IInv, NEW w \in Officer, CountOrgsToLeave(w), At(w, "leave", "cleared")'
  PROVE  \E o \in Org \ {request'[w].org} : IsMember(o, request'[w].actor)
<1>1. GoTo(w, "cleared") /\ AnotherOrg(request[w].actor)
  BY Answered DEF CountOrgsToLeave, Check, Refuse, At, Worker
<1>2. request'[w].org = request[w].org /\ request'[w].actor = request[w].actor
  BY <1>1, WentOn DEF Worker
<1>3. Cardinality({o \in Org : IsMember(o, request[w].actor)}) > 1
  BY <1>1 DEF AnotherOrg
<1>4. PICK o \in {o \in Org : IsMember(o, request[w].actor)} : o # request[w].org
  BY <1>3, Another
<1>5. QED
  BY <1>2, <1>4

\* The other statements that read clear no one to leave.
LEMMA ClearedToLeave ==
  ASSUME IInv, NEW w \in Officer, Handle(w), Reads(w), At(w, "leave", "cleared")'
  PROVE  CountOrgsToLeave(w)
<1>1. w \in Worker /\ request'[w].op = "leave" /\ request'[w].step = "cleared"
  BY DEF At, Worker
<1>2. ~Begin(w) /\ ~Respond(w)
  BY <1>1, Began, Answered
<1>3. \A step \in {"authorized", "counted", "cleared"} :
         GoTo(w, step) => step = "cleared" /\ request[w].op = "leave"
  BY <1>1, WentOn
<1>4. ~Authorize(w) /\ ~CountForRole(w) /\ ~CountOwnersToLeave(w) /\ ~CountSeats(w)
  BY <1>2, <1>3 DEF Authorize, CountForRole, CountOwnersToLeave, CountSeats, Check, Refuse, At
<1>5. ~CountPending(w)
  BY <1>1, <1>2 DEF CountPending, IInv, TypeOK, Request
<1>6. QED
  BY <1>2, <1>4, <1>5 DEF Reads

\* Only the two writes below take a membership away.
LEMMA LeaverKeepsOrg ==
  ASSUME IInv, LeaversUndisturbed, NEW w \in Officer, At(w, "leave", "cleared"),
         NEW o \in Org \ {request[w].org}, IsMember(o, request[w].actor), Next
  PROVE  IsMember(o, request[w].actor)' \/ request'[w] # request[w]
<1>1. PICK u \in User : u = request[w].actor /\ u = request[w].target
  BY DEF At, IInv, RequestsSound, ReadSound, Worker
<1>2. SUFFICES ASSUME request'[w] = request[w]
               PROVE  members'[o][u].role # "none"
  BY <1>1 DEF IsMember
<1>3. members[o][u].role # "none" /\ orgs[o] = "live"
  BY <1>1 DEF IsMember, IInv, RowsSound
<1>4. ASSUME UNCHANGED members
      PROVE  members'[o][u].role # "none"
  BY <1>3, <1>4
<1>5. ASSUME NEW v \in Worker, NEW row \in MemberRow, RowWrite(v, row)
      PROVE  members'[o][u].role # "none"
  <2>1. /\ request[v].org \in Org /\ request[v].target \in User /\ v \in Officer
        /\ request'[v] = Idle
        /\ \A p \in Org, x \in User :
              members'[p][x] = IF p = request[v].org /\ x = request[v].target /\ RowThere(request[v])
                               THEN row ELSE members[p][x]
    BY <1>5, RowWriteEffect
  <2>2. v # w
    BY <1>2, <2>1 DEF At, Idle
  <2>3. row.role \in Role \/ request[v].op \in {"remove", "leave"}
    BY <1>5 DEF RowWrite
  <2>4. CASE row.role \in Role
    BY <1>3, <2>1, <2>4 DEF Role
  <2>5. CASE request[v].op \in {"remove", "leave"}
    <3>1. request[v].target # request[w].actor
      BY <2>1, <2>2, <2>5 DEF LeaversUndisturbed
    <3>2. QED
      BY <1>1, <1>3, <2>1, <3>1
  <2>6. QED
    BY <2>3, <2>4, <2>5
<1>6. ASSUME NEW v \in Worker, NEW d \in Org, NEW gone \in InvitationRow, Deletes(v, d, gone)
      PROVE  members'[o][u].role # "none"
  <2>1. v # w
    BY <1>6 DEF At, Deletes
  <2>2. ~IsMember(d, request[w].actor)
    BY <1>6, <2>1 DEF Deletes, LeaversUndisturbed
  <2>3. QED
    BY <1>3, <1>6, <2>2 DEF Deletes
<1>7. ASSUME NEW p \in Org, NEW x \in User, NEW founder \in MemberRow, Founds(p, x, founder)
      PROVE  members'[o][u].role # "none"
  BY <1>3, <1>7 DEF Founds
<1>8. ASSUME NEW i \in Invitation, NEW p \in Org, NEW x \in User, NEW row \in MemberRow,
             NEW spent \in InvitationRow, Joins(i, p, x, row, spent)
      PROVE  members'[o][u].role # "none"
  BY <1>3, <1>8 DEF Joins, PostedRole, Role
<1>9. \A v \in Worker : Reads(v) \/ UNCHANGED data \/ InsertInvitation(v) => UNCHANGED members
  BY ReadsWriteNothing DEF data, InsertInvitation
<1>10. \A i \in Invitation, gone \in InvitationRow : Cancels(i, gone) => UNCHANGED members
  BY DEF Cancels
<1>11. QED
  BY <1>4, <1>5, <1>6, <1>7, <1>8, <1>9, <1>10, NextKinds

\* A request to leave that is not idle before and after a step, and is cleared
\* after it, was cleared before or has counted its orgs in the step.
LEMMA StepKeepsLeavers ==
  ASSUME IInv, LeaversSound, LeaversUndisturbed, [Next]_vars
  PROVE  LeaversSound'
<1>1. CASE UNCHANGED vars
  BY <1>1 DEF vars, LeaversSound, At, IsMember
<1>2. CASE Next
  <2>1. SUFFICES ASSUME NEW w \in Officer, At(w, "leave", "cleared")'
                 PROVE  (\E o \in Org \ {request[w].org} : IsMember(o, request[w].actor))'
    BY DEF LeaversSound
  <2>2. CASE request'[w] = request[w]
    <3>1. At(w, "leave", "cleared")
      BY <2>1, <2>2 DEF At
    <3>2. PICK o \in Org \ {request[w].org} : IsMember(o, request[w].actor)
      BY <3>1 DEF LeaversSound
    <3>3. IsMember(o, request[w].actor)'
      BY <1>2, <2>2, <3>1, <3>2, LeaverKeepsOrg
    <3>4. o \in Org \ {request'[w].org}
      BY <2>2, <3>2
    <3>5. QED
      BY <3>3, <3>4
  <2>3. CASE request'[w] # request[w]
    <3>1. w \in Worker /\ request'[w].op = "leave"
      BY <2>1 DEF At, Worker
    <3>2. PICK v \in Worker : Handle(v)
      BY <1>2, <2>3 DEF Next, CreateOrg, AcceptInvitation, CancelInvitation
    <3>3. v = w
      BY <2>3, <3>1, <3>2, OwnRequest
    <3>4. ~Respond(w)
      BY <3>1, Answered
    <3>5. Reads(w)
      BY <3>2, <3>3, <3>4
      DEF Handle, Reads, SaveRole, RemoveMember, Leave, DeleteOrg, InsertInvitation
    <3>6. CountOrgsToLeave(w)
      BY <2>1, <3>2, <3>3, <3>5, ClearedToLeave
    <3>7. PICK o \in Org \ {request'[w].org} : IsMember(o, request'[w].actor)
      BY <2>1, <3>6, CountedOrgs
    <3>8. UNCHANGED members
      BY <3>1, <3>5, ReadsWriteNothing
    <3>9. IsMember(o, request[w].actor)'
      BY <3>7, <3>8 DEF IsMember
    <3>10. QED
      BY <3>7, <3>9
  <2>4. QED
    BY <2>2, <2>3
<1>3. QED
  BY <1>1, <1>2

\* Who leaves an org undisturbed is in another one afterwards.
LEMMA StepKeepsAnOrg ==
  ASSUME IInv, LeaversSound, Next, NEW w \in Officer,
         At(w, "leave", "cleared"), request'[w].step = "idle"
  PROVE  \E o \in Org : members'[o][request[w].actor].role # "none"
<1>1. /\ request[w].op = "leave" /\ request[w].step = "cleared" /\ w \in Worker
      /\ request'[w] # request[w]
  BY DEF At, Worker
<1>2. PICK o \in Org \ {request[w].org} : IsMember(o, request[w].actor)
  BY DEF LeaversSound
<1>3. PICK v \in Worker : Handle(v)
  BY <1>1 DEF Next, CreateOrg, AcceptInvitation, CancelInvitation
<1>4. v = w
  BY <1>1, <1>3, OwnRequest
<1>5. Leave(w)
  BY <1>1, <1>3, <1>4
  DEF Handle, Begin, Authorize, CountForRole, SaveRole, RemoveMember, CountOwnersToLeave,
      CountOrgsToLeave, DeleteOrg, CountPending, CountSeats, InsertInvitation, At
<1>6. request[w].org \in Org /\ request[w].target \in User /\ request[w].actor \in User
  BY <1>1 DEF IInv, RequestsSound, ReadSound
<1>7. members'[o][request[w].actor] = members[o][request[w].actor]
  BY <1>2, <1>5, <1>6, SetRowEffect DEF Leave, IInv
<1>8. QED
  BY <1>2, <1>7 DEF IsMember

\* Nobody leaves their last org, whatever happens between the count of orgs and
\* the deletion of the row, but for another removal of the same user and the
\* deletion of an org they are in.
THEOREM LeaversKeepAnOrg ==
  Spec /\ []LeaversUndisturbed => LeavingKeepsAnOrg
<1> DEFINE Kept == \A w \in Officer :
              At(w, "leave", "cleared") /\ request'[w].step = "idle"
                  => \E o \in Org : members'[o][request[w].actor].role # "none"
<1>1. Init => LeaversSound
  BY DEF Init, LeaversSound, At, Idle, Worker
<1>2. IInv /\ LeaversSound /\ LeaversUndisturbed /\ [Next]_vars => LeaversSound'
  BY StepKeepsLeavers
<1>3. IInv /\ LeaversSound /\ [Next]_vars => [Kept]_vars
  BY StepKeepsAnOrg
<1>4. QED
  BY <1>1, <1>2, <1>3, Invariant, PTL DEF Spec, LeavingKeepsAnOrg
=============================================================================
