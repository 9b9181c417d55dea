---------------------------- MODULE TicketsProof ----------------------------
(***************************************************************************)
(* Theorems about Tickets, for every set of workers, tickets, slices,      *)
(* areas, keys and operations.                                             *)
(***************************************************************************)
EXTENDS Tickets, TLAPS

\* Every number in use was allocated, so the counter is above all of them.
NumbersAllocated ==
    /\ \A t \in Ticket : Exists(t) => tickets[t].number < nextNumber
    /\ \A s \in Slice : Live(s) => slices[s].number < nextNumber

\* Before its INSERT a ticket refers to nothing.
AbsentRowsBlank == \A t \in Ticket : ~Exists(t) => tickets[t] = NoTicketRow

\* A row in memory may be stale in its status, area and slice, never in the
\* columns that no update assigns.
Faithful(t, row) ==
    /\ row \in TicketRow
    /\ row.status \in Status
    /\ row.number = tickets[t].number
    /\ row.key = tickets[t].key
    /\ row.resolved <=> row.status \in ResolvedStatus

RequestsSound ==
    \A w \in Worker :
        /\ request[w].kind = "loaded" =>
            /\ request[w].ticket \in Ticket
            /\ Exists(request[w].ticket)
            /\ Faithful(request[w].ticket, request[w].row)
        /\ request[w].kind = "create" => ~request[w].row.resolved
        /\ request[w].kind = "idle" => request[w].row = NoTicketRow

\* The properties of the concurrent runs and what makes them inductive.
IInv ==
    /\ TypeOK
    /\ NumbersAllocated
    /\ AbsentRowsBlank
    /\ RequestsSound
    /\ NoDanglingReference
    /\ RefNamesOneWork
    /\ OneTicketPerKey
    /\ ResolvedAgrees

-----------------------------------------------------------------------------
(* Ending a request *)

LEMMA IdleSound == Idle \in Request /\ Idle.row = NoTicketRow /\ Idle.kind = "idle"
  BY NoneAssumption DEF Idle, Request, NoTicketRow, TicketRow

\* What Respond leaves of the requests: every other worker keeps its own.
LEMMA RespondSound ==
  ASSUME TypeOK, NEW w \in Worker, Respond(w)
  PROVE  /\ request' \in [Worker -> Request]
         /\ request'[w] = Idle
         /\ \A v \in Worker : v # w => request'[v] = request[v]
  BY IdleSound DEF TypeOK, Respond

LEMMA NoEffectKeepsIInv ==
  ASSUME IInv, NEW w \in Worker, NoEffect(w)
  PROVE  IInv'
<1>1. /\ request' \in [Worker -> Request]
      /\ request'[w] = Idle
      /\ \A v \in Worker : v # w => request'[v] = request[v]
  BY RespondSound DEF NoEffect, IInv
<1>2. UNCHANGED <<tickets, slices, areas, nextNumber, log>>
  BY DEF NoEffect, data
<1>3. TypeOK'
  BY <1>1, <1>2 DEF IInv, TypeOK
<1>4. RequestsSound'
  BY <1>1, <1>2, IdleSound DEF IInv, RequestsSound, Faithful, Exists
<1>5. ResolvedAgrees'
  BY <1>1, <1>2, IdleSound DEF IInv, ResolvedAgrees, NoTicketRow, ResolvedStatus, Status
<1>6. QED
  BY <1>2, <1>3, <1>4, <1>5
  DEF IInv, NumbersAllocated, AbsentRowsBlank, NoDanglingReference, RefNamesOneWork,
      OneTicketPerKey, Exists, Live

-----------------------------------------------------------------------------
(* Writing a row back *)

LEMMA SaveKeepsIInv ==
  ASSUME IInv, NEW w \in Worker, request[w].kind = "loaded",
         NEW row, Faithful(request[w].ticket, row),
         NEW status \in Status \cup {"absent"},
         SaveRow(w, row, status)
  PROVE  IInv'
<1>1. CASE NoEffect(w)
  BY <1>1, NoEffectKeepsIInv
<1> DEFINE t == request[w].ticket
<1>2. CASE /\ ReferencesHold(row)
           /\ tickets' = [tickets EXCEPT ![t] = row]
           /\ log' = [log EXCEPT ![t] = status]
           /\ Respond(w)
           /\ UNCHANGED <<slices, areas, nextNumber>>
  <2>1. /\ t \in Ticket
        /\ Exists(t)
    BY DEF IInv, RequestsSound
  <2>2. /\ request' \in [Worker -> Request]
        /\ request'[w] = Idle
        /\ \A v \in Worker : v # w => request'[v] = request[v]
    BY <1>2, RespondSound DEF IInv
  <2>3. /\ row \in TicketRow
        /\ row.status \in Status
        /\ row.number = tickets[t].number
        /\ row.key = tickets[t].key
        /\ row.resolved <=> row.status \in ResolvedStatus
    BY DEF Faithful
  <2>4. /\ tickets' \in [Ticket -> TicketRow]
        /\ tickets'[t] = row
        /\ \A u \in Ticket : u # t => tickets'[u] = tickets[u]
    BY <1>2, <2>1, <2>3 DEF IInv, TypeOK
  <2>5. \A u \in Ticket : /\ Exists(u)' <=> Exists(u)
                          /\ tickets'[u].number = tickets[u].number
                          /\ tickets'[u].key = tickets[u].key
    BY <2>1, <2>3, <2>4 DEF Exists, Status
  <2>6. \A s : Live(s)' <=> Live(s)
    BY <1>2 DEF Live
  <2>7. TypeOK'
    BY <1>2, <2>2, <2>4 DEF IInv, TypeOK
  <2>8. NumbersAllocated'
    BY <1>2, <2>5, <2>6 DEF IInv, NumbersAllocated
  <2>9. AbsentRowsBlank'
    BY <2>1, <2>4, <2>5 DEF IInv, AbsentRowsBlank
  <2>10. RequestsSound'
    BY <2>2, <2>5, IdleSound DEF IInv, RequestsSound, Faithful
  <2>11. NoDanglingReference'
    BY <1>2, <2>4, <2>6 DEF IInv, NoDanglingReference, ReferencesHold
  <2>12. RefNamesOneWork'
    BY <1>2, <2>5, <2>6 DEF IInv, RefNamesOneWork
  <2>13. OneTicketPerKey'
    BY <2>5 DEF IInv, OneTicketPerKey
  <2>14. ResolvedAgrees'
    BY <2>2, <2>3, <2>4, IdleSound
    DEF IInv, ResolvedAgrees, NoTicketRow, ResolvedStatus, Status
  <2>15. QED
    BY <2>7, <2>8, <2>9, <2>10, <2>11, <2>12, <2>13, <2>14 DEF IInv
<1>3. QED
  BY <1>1, <1>2 DEF SaveRow

\* A status change of a faithful row is a faithful row.
LEMMA WithStatusFaithful ==
  ASSUME NEW t, NEW row, Faithful(t, row), NEW status \in Status
  PROVE  Faithful(t, WithStatus(row, status))
<1> DEFINE new == WithStatus(row, status)
<1>1. row \in TicketRow /\ row.number = tickets[t].number /\ row.key = tickets[t].key
  BY DEF Faithful
<1>2. (status \in ResolvedStatus) \in BOOLEAN
  OBVIOUS
<1>3. new \in TicketRow /\ new.status = status /\ new.number = row.number /\ new.key = row.key
  BY <1>1, <1>2 DEF WithStatus, TicketRow
<1>4. new.resolved <=> status \in ResolvedStatus
  BY <1>1 DEF WithStatus, TicketRow
<1>5. QED
  BY <1>1, <1>3, <1>4 DEF Faithful

LEMMA RelinkFaithful ==
  ASSUME NEW t, NEW row, Faithful(t, row), NEW s \in Slice \cup {None}
  PROVE  Faithful(t, [row EXCEPT !.slice = s])
  BY DEF Faithful, TicketRow

LEMMA RefileFaithful ==
  ASSUME NEW t, NEW row, Faithful(t, row), NEW a \in Area \cup {None}
  PROVE  Faithful(t, [row EXCEPT !.area = a])
  BY DEF Faithful, TicketRow

\* A worker serving a ticket operation holds a faithful row of that ticket.
LEMMA ServingFaithful ==
  ASSUME IInv, NEW w \in Worker, NEW op, Serving(w, op)
  PROVE  /\ request[w].kind = "loaded"
         /\ request[w].ticket \in Ticket
         /\ Exists(request[w].ticket)
         /\ Faithful(request[w].ticket, request[w].row)
         /\ log[request[w].ticket] \in Status \cup {"absent"}
  BY DEF IInv, TypeOK, RequestsSound, Serving

LEMMA EditKeepsIInv ==
  ASSUME IInv, NEW w \in Worker, EditTicket(w)
  PROVE  IInv'
  BY ServingFaithful, SaveKeepsIInv DEF EditTicket, Save

LEMMA UpdateKeepsIInv ==
  ASSUME IInv, NEW w \in Worker, UpdateTicket(w)
  PROVE  IInv'
<1> DEFINE t == request[w].ticket
<1>1. /\ request[w].kind = "loaded"
      /\ t \in Ticket
      /\ Faithful(t, request[w].row)
      /\ log[t] \in Status \cup {"absent"}
  BY ServingFaithful DEF UpdateTicket
<1>2. PICK status \in Status, a \in areas \cup {request[w].row.area} :
        LET row == [request[w].row EXCEPT !.area = a] IN
        \/ status = row.status /\ Save(w, row)
        \/ status \notin {row.status, "promoted"} /\ ApplyStatus(w, row, status)
        \/ status # row.status /\ status = "promoted" /\ NoEffect(w)
  BY DEF UpdateTicket
<1> DEFINE row == [request[w].row EXCEPT !.area = a]
<1>3. a \in Area \cup {None}
  BY <1>1, <1>2 DEF IInv, TypeOK, Faithful, TicketRow
<1>4. Faithful(t, row)
  BY <1>1, <1>3, RefileFaithful
<1>5. Faithful(t, WithStatus(row, status))
  BY <1>4, WithStatusFaithful
<1>6. CASE Save(w, row)
  BY <1>1, <1>4, <1>6, SaveKeepsIInv DEF Save
<1>7. CASE ApplyStatus(w, row, status)
  BY <1>1, <1>5, <1>7, SaveKeepsIInv DEF ApplyStatus
<1>8. CASE NoEffect(w)
  BY <1>8, NoEffectKeepsIInv
<1>9. QED
  BY <1>2, <1>6, <1>7, <1>8

\* The operations that change the status of the row in memory.
LEMMA ApplyStatusKeepsIInv ==
  ASSUME IInv, NEW w \in Worker, request[w].kind = "loaded",
         NEW row, Faithful(request[w].ticket, row),
         NEW status \in Status, ApplyStatus(w, row, status)
  PROVE  IInv'
  BY WithStatusFaithful, SaveKeepsIInv DEF ApplyStatus

LEMMA DismissKeepsIInv ==
  ASSUME IInv, NEW w \in Worker, DismissTicket(w)
  PROVE  IInv'
  BY ServingFaithful, ApplyStatusKeepsIInv, NoEffectKeepsIInv DEF DismissTicket, Status

LEMMA ReopenKeepsIInv ==
  ASSUME IInv, NEW w \in Worker, ReopenTicket(w)
  PROVE  IInv'
  BY ServingFaithful, ApplyStatusKeepsIInv, NoEffectKeepsIInv DEF ReopenTicket, Status

LEMMA AbsorbKeepsIInv ==
  ASSUME IInv, NEW w \in Worker, AbsorbTicket(w)
  PROVE  IInv'
<1> DEFINE row == request[w].row
<1>1. PICK into \in {s \in Slice : Live(s)} :
        \/ /\ row.slice # into /\ row.status = "open"
           /\ ApplyStatus(w, [row EXCEPT !.slice = into], "promoted")
        \/ (row.slice = into \/ row.status # "open") /\ NoEffect(w)
  BY DEF AbsorbTicket
<1>2. request[w].kind = "loaded" /\ Faithful(request[w].ticket, row)
  BY ServingFaithful DEF AbsorbTicket
<1>3. Faithful(request[w].ticket, [row EXCEPT !.slice = into])
  BY <1>2, RelinkFaithful
<1>4. "promoted" \in Status
  BY DEF Status
<1>5. QED
  BY <1>1, <1>2, <1>3, <1>4, ApplyStatusKeepsIInv, NoEffectKeepsIInv

LEMMA ReleaseKeepsIInv ==
  ASSUME IInv, NEW w \in Worker, ReleaseTicket(w)
  PROVE  IInv'
<1> DEFINE row == request[w].row
<1>1. request[w].kind = "loaded" /\ Faithful(request[w].ticket, row)
  BY ServingFaithful DEF ReleaseTicket
<1>2. Faithful(request[w].ticket, [row EXCEPT !.slice = None])
  BY <1>1, RelinkFaithful
<1>3. "open" \in Status
  BY DEF Status
<1>4. QED
  BY <1>1, <1>2, <1>3, ApplyStatusKeepsIInv, NoEffectKeepsIInv DEF ReleaseTicket

-----------------------------------------------------------------------------
(* Reading *)

\* A step that only changes what the workers hold in memory.
LEMMA ReadKeepsIInv ==
  ASSUME IInv, UNCHANGED data, request' \in [Worker -> Request],
         RequestsSound',
         \A w \in Worker : request'[w].row.resolved <=> request'[w].row.status \in ResolvedStatus
  PROVE  IInv'
<1>1. UNCHANGED <<tickets, slices, areas, nextNumber, log>>
  BY DEF data
<1>2. TypeOK'
  BY <1>1 DEF IInv, TypeOK
<1>3. ResolvedAgrees'
  BY <1>1 DEF IInv, ResolvedAgrees
<1>4. QED
  BY <1>1, <1>2, <1>3
  DEF IInv, NumbersAllocated, AbsentRowsBlank, NoDanglingReference, RefNamesOneWork,
      OneTicketPerKey, Exists, Live

LEMMA LoadKeepsIInv ==
  ASSUME IInv, NEW w \in Worker, LoadTicket(w)
  PROVE  IInv'
<1>1. PICK t \in Ticket :
        /\ Exists(t)
        /\ request' = [request EXCEPT ![w] =
                        [kind |-> "loaded", ticket |-> t, row |-> tickets[t]]]
  BY DEF LoadTicket
<1>2. UNCHANGED data
  BY DEF LoadTicket
<1>3. tickets[t] \in TicketRow
  BY DEF IInv, TypeOK
<1>4. /\ request' \in [Worker -> Request]
      /\ request'[w] = [kind |-> "loaded", ticket |-> t, row |-> tickets[t]]
      /\ \A v \in Worker : v # w => request'[v] = request[v]
  BY <1>1, <1>3 DEF IInv, TypeOK, Request
<1>5. tickets[t].resolved <=> tickets[t].status \in ResolvedStatus
  BY DEF IInv, ResolvedAgrees
<1>6. Faithful(t, tickets[t])
  BY <1>1, <1>3, <1>5 DEF Faithful, Exists, TicketRow
<1>7. tickets' = tickets
  BY <1>2 DEF data
<1>8. RequestsSound'
  BY <1>1, <1>4, <1>6, <1>7 DEF IInv, RequestsSound, Faithful, Exists
<1>9. \A v \in Worker : request'[v].row.resolved <=> request'[v].row.status \in ResolvedStatus
  BY <1>4, <1>5 DEF IInv, ResolvedAgrees
<1>10. QED
  BY <1>2, <1>4, <1>8, <1>9, ReadKeepsIInv

LEMMA BeginCreateKeepsIInv ==
  ASSUME IInv, NEW w \in Worker, BeginCreate(w)
  PROVE  IInv'
<1>1. PICK key \in Key \cup {None}, a \in areas \cup {None} :
        request' = [request EXCEPT ![w] =
                        [kind |-> "create", ticket |-> None,
                         row |-> [NoTicketRow EXCEPT !.area = a, !.key = key]]]
  BY DEF BeginCreate
<1>2. UNCHANGED data
  BY DEF BeginCreate
<1> DEFINE row == [NoTicketRow EXCEPT !.area = a, !.key = key]
<1>3. row \in TicketRow /\ row.resolved = FALSE /\ row.status = "absent"
  BY DEF IInv, TypeOK, NoTicketRow, TicketRow
<1>4. /\ request' \in [Worker -> Request]
      /\ request'[w] = [kind |-> "create", ticket |-> None, row |-> row]
      /\ \A v \in Worker : v # w => request'[v] = request[v]
  BY <1>1, <1>3 DEF IInv, TypeOK, Request
<1>5. tickets' = tickets
  BY <1>2 DEF data
<1>. HIDE DEF row
<1>6. RequestsSound'
  BY <1>3, <1>4, <1>5 DEF IInv, RequestsSound, Faithful, Exists
<1>7. \A v \in Worker : request'[v].row.resolved <=> request'[v].row.status \in ResolvedStatus
  <2>1. "absent" \notin ResolvedStatus
    BY DEF ResolvedStatus, Status
  <2>2. request'[w].row.resolved <=> request'[w].row.status \in ResolvedStatus
    BY <1>3, <1>4, <2>1
  <2>3. QED
    BY <1>4, <2>2 DEF IInv, ResolvedAgrees
<1>8. QED
  BY <1>2, <1>4, <1>6, <1>7, ReadKeepsIInv

-----------------------------------------------------------------------------
(* Inserting a ticket *)

LEMMA FinishCreateKeepsIInv ==
  ASSUME IInv, NEW w \in Worker, FinishCreate(w)
  PROVE  IInv'
<1> DEFINE row == [request[w].row EXCEPT !.status = "open", !.number = nextNumber]
<1>1. CASE NoEffect(w)
  BY <1>1, NoEffectKeepsIInv
<1>2. CASE /\ KeyFree(row.key) /\ ReferencesHold(row)
           /\ \E t \in Ticket :
               /\ ~Exists(t)
               /\ tickets' = [tickets EXCEPT ![t] = row]
               /\ log' = [log EXCEPT ![t] = "open"]
           /\ nextNumber' = nextNumber + 1
           /\ Respond(w)
           /\ UNCHANGED <<slices, areas>>
  <2>1. PICK t \in Ticket : /\ ~Exists(t)
                            /\ tickets' = [tickets EXCEPT ![t] = row]
                            /\ log' = [log EXCEPT ![t] = "open"]
    BY <1>2
  <2>2. /\ request' \in [Worker -> Request]
        /\ request'[w] = Idle
        /\ \A v \in Worker : v # w => request'[v] = request[v]
    BY <1>2, RespondSound DEF IInv
  <2>3. request[w].kind = "create"
    BY DEF FinishCreate
  <2>4. request[w].row \in TicketRow /\ ~request[w].row.resolved /\ nextNumber \in Nat
    BY <2>3 DEF IInv, TypeOK, RequestsSound, Request
  <2>5. row \in TicketRow /\ row.status = "open" /\ row.number = nextNumber /\ ~row.resolved
    BY <2>4 DEF TicketRow, Status
  <2>6. /\ tickets' \in [Ticket -> TicketRow]
        /\ tickets'[t] = row
        /\ \A u \in Ticket : u # t => tickets'[u] = tickets[u]
    BY <2>1, <2>5 DEF IInv, TypeOK
  <2>. slices' = slices /\ nextNumber' = nextNumber + 1 /\ KeyFree(row.key) /\ ReferencesHold(row)
    BY <1>2
  <2>. HIDE DEF row
  <2>7. Exists(t)' /\ \A u \in Ticket : u # t => (Exists(u)' <=> Exists(u))
    BY <2>5, <2>6 DEF Exists
  <2>8. \A s : Live(s)' <=> Live(s)
    BY DEF Live
  <2>9. TypeOK'
    BY <1>2, <2>1, <2>2, <2>4, <2>6 DEF IInv, TypeOK, Status
  <2>10. /\ \A u \in Ticket : Exists(u) => tickets[u].number \in Nat /\ tickets[u].number < nextNumber
         /\ \A s \in Slice : Live(s) => slices[s].number \in Nat /\ slices[s].number < nextNumber
    BY DEF IInv, NumbersAllocated, TypeOK, TicketRow, SliceRow
  <2>11. NumbersAllocated'
    BY <2>4, <2>5, <2>6, <2>7, <2>8, <2>10 DEF NumbersAllocated
  <2>12. AbsentRowsBlank'
    BY <2>6, <2>7 DEF IInv, AbsentRowsBlank
  <2>13. RequestsSound'
    <3>1. ASSUME NEW v \in Worker, v # w, request[v].kind = "loaded"
          PROVE  request[v].ticket # t
      BY <2>1, <3>1 DEF IInv, RequestsSound
    <3>2. QED
      BY <2>2, <2>6, <2>7, <3>1, IdleSound DEF IInv, RequestsSound, Faithful
  <2>14. NoDanglingReference'
    BY <1>2, <2>6, <2>8 DEF IInv, NoDanglingReference, ReferencesHold
  <2>15. RefNamesOneWork'
    BY <2>4, <2>5, <2>6, <2>7, <2>8, <2>10 DEF IInv, RefNamesOneWork
  <2>16. OneTicketPerKey'
    <3>1. \A u \in Ticket : tickets[u].key # None => Exists(u)
      BY DEF IInv, AbsentRowsBlank, NoTicketRow
    <3>2. \A u \in Ticket : u # t /\ row.key # None => tickets[u].key # row.key
      BY <3>1 DEF KeyFree
    <3>3. QED
      BY <2>6, <3>2 DEF IInv, OneTicketPerKey
  <2>17. ResolvedAgrees'
    <3>1. "open" \notin ResolvedStatus /\ NoTicketRow.status \notin ResolvedStatus
      BY DEF ResolvedStatus, Status, NoTicketRow
    <3>2. \A u \in Ticket : tickets'[u].resolved <=> tickets'[u].status \in ResolvedStatus
      BY <2>5, <2>6, <3>1 DEF IInv, ResolvedAgrees
    <3>3. ~Idle.row.resolved
      BY IdleSound DEF NoTicketRow
    <3>4. \A v \in Worker : request'[v].row.resolved <=> request'[v].row.status \in ResolvedStatus
      BY <2>2, <3>1, <3>3, IdleSound DEF IInv, ResolvedAgrees
    <3>5. QED
      BY <3>2, <3>4 DEF ResolvedAgrees
  <2>18. QED
    BY <2>9, <2>11, <2>12, <2>13, <2>14, <2>15, <2>16, <2>17 DEF IInv
<1>3. QED
  BY <1>1, <1>2 DEF FinishCreate

-----------------------------------------------------------------------------
(* Inserting a slice *)

\* The requests of the other workers survive a step that changes no number, no
\* key and no ticket's existence.
LEMMA RespondKeepsRequests ==
  ASSUME IInv, NEW w \in Worker, Respond(w),
         \A u \in Ticket : /\ Exists(u)' <=> Exists(u)
                           /\ tickets'[u].number = tickets[u].number
                           /\ tickets'[u].key = tickets[u].key
  PROVE  RequestsSound'
<1>1. /\ request' \in [Worker -> Request]
      /\ request'[w] = Idle
      /\ \A v \in Worker : v # w => request'[v] = request[v]
  BY RespondSound DEF IInv
<1>2. QED
  BY <1>1, IdleSound DEF IInv, RequestsSound, Faithful

LEMMA RespondKeepsResolved ==
  ASSUME IInv, NEW w \in Worker, Respond(w),
         \A u \in Ticket : tickets'[u].resolved <=> tickets'[u].status \in ResolvedStatus
  PROVE  ResolvedAgrees'
<1>1. /\ request'[w] = Idle
      /\ \A v \in Worker : v # w => request'[v] = request[v]
  BY RespondSound DEF IInv
<1>2. ~Idle.row.resolved /\ Idle.row.status \notin ResolvedStatus
  BY IdleSound DEF NoTicketRow, ResolvedStatus, Status
<1>3. \A v \in Worker : request'[v].row.resolved <=> request'[v].row.status \in ResolvedStatus
  BY <1>1, <1>2 DEF IInv, ResolvedAgrees
<1>4. QED
  BY <1>3 DEF ResolvedAgrees

LEMMA NewSliceTyped ==
  ASSUME NEW a \in Area, NEW n \in Nat, NEW t \in Ticket \cup {None}
  PROVE  NewSlice(a, n, t) \in SliceRow
  BY DEF NewSlice, SliceRow

LEMMA CreateSliceKeepsIInv ==
  ASSUME IInv, NEW w \in Worker, CreateSlice(w)
  PROVE  IInv'
<1>1. PICK a \in areas, s \in Slice :
        /\ slices[s].state = "absent"
        /\ slices' = [slices EXCEPT ![s] = NewSlice(a, nextNumber, None)]
  BY DEF CreateSlice
<1>2. /\ UNCHANGED <<tickets, areas, log>>
      /\ nextNumber' = nextNumber + 1
      /\ Respond(w)
  BY DEF CreateSlice
<1>3. nextNumber \in Nat /\ a \in Area
  BY DEF IInv, TypeOK
<1>4. NewSlice(a, nextNumber, None) \in SliceRow
  BY <1>3, NewSliceTyped
<1>5. /\ slices' \in [Slice -> SliceRow]
      /\ slices'[s] = NewSlice(a, nextNumber, None)
      /\ \A r \in Slice : r # s => slices'[r] = slices[r]
  BY <1>1, <1>4 DEF IInv, TypeOK
<1>6. slices'[s].state = "live" /\ slices'[s].number = nextNumber
  BY <1>5 DEF NewSlice
<1>7. Live(s)' /\ \A r \in Slice : r # s => (Live(r)' <=> Live(r))
  BY <1>5, <1>6 DEF Live
<1>8. \A r \in Slice : Live(r) => Live(r)'
  BY <1>7
<1>9. /\ \A u \in Ticket : Exists(u) => tickets[u].number \in Nat /\ tickets[u].number < nextNumber
      /\ \A r \in Slice : Live(r) => slices[r].number \in Nat /\ slices[r].number < nextNumber
  BY DEF IInv, NumbersAllocated, TypeOK, TicketRow, SliceRow
<1>10. \A u : Exists(u)' <=> Exists(u)
  BY <1>2 DEF Exists
<1>11. TypeOK'
  BY <1>2, <1>3, <1>5, RespondSound DEF IInv, TypeOK
<1>12. NumbersAllocated'
  BY <1>2, <1>3, <1>5, <1>6, <1>7, <1>9, <1>10 DEF NumbersAllocated
<1>13. AbsentRowsBlank'
  BY <1>2, <1>10 DEF IInv, AbsentRowsBlank
<1>14. RequestsSound'
  BY <1>2, <1>10, RespondKeepsRequests
<1>15. NoDanglingReference'
  BY <1>2, <1>8 DEF IInv, NoDanglingReference, TypeOK, TicketRow
<1>16. RefNamesOneWork'
  BY <1>2, <1>3, <1>5, <1>6, <1>7, <1>9, <1>10 DEF IInv, RefNamesOneWork
<1>17. OneTicketPerKey'
  BY <1>2 DEF IInv, OneTicketPerKey
<1>18. ResolvedAgrees'
  BY <1>2, RespondKeepsResolved DEF IInv, ResolvedAgrees
<1>19. QED
  BY <1>11, <1>12, <1>13, <1>14, <1>15, <1>16, <1>17, <1>18 DEF IInv

LEMMA PromoteKeepsIInv ==
  ASSUME IInv, NEW w \in Worker, PromoteTicket(w)
  PROVE  IInv'
<1> DEFINE t == request[w].ticket
           row == LockedRow(w)
<1>1. CASE NoEffect(w)
  BY <1>1, NoEffectKeepsIInv
<1>2. ASSUME NEW a, Promotable(row, a), NEW s \in Slice,
             slices[s].state = "absent",
             slices' = [slices EXCEPT ![s] = NewSlice(a, row.number, t)],
             tickets' = [tickets EXCEPT ![t] =
                            [WithStatus(row, "promoted") EXCEPT !.slice = s]],
             log' = [log EXCEPT ![t] = "promoted"],
             Respond(w),
             UNCHANGED <<areas, nextNumber>>
      PROVE  IInv'
  <2> DEFINE new == [WithStatus(row, "promoted") EXCEPT !.slice = s]
  <2>1. t \in Ticket /\ Exists(t) /\ row = tickets[t]
    BY ServingFaithful DEF PromoteTicket, LockedRow
  <2>2. Faithful(t, row)
    BY <2>1 DEF IInv, TypeOK, ResolvedAgrees, Faithful, Exists, TicketRow
  <2>3. Faithful(t, new)
    BY <2>2, WithStatusFaithful, RelinkFaithful DEF Status
  <2>4. new.slice = s /\ new.area = tickets[t].area
    BY <2>1, <2>2 DEF WithStatus, Faithful, TicketRow
  <2>. HIDE DEF new
  <2>5. /\ new \in TicketRow
        /\ new.status \in Status
        /\ new.number = tickets[t].number
        /\ new.key = tickets[t].key
        /\ new.resolved <=> new.status \in ResolvedStatus
    BY <2>3 DEF Faithful
  <2>6. /\ tickets' \in [Ticket -> TicketRow]
        /\ tickets'[t] = new
        /\ \A u \in Ticket : u # t => tickets'[u] = tickets[u]
    BY <1>2, <2>1, <2>5 DEF IInv, TypeOK, new
  <2>7. \A u \in Ticket : /\ Exists(u)' <=> Exists(u)
                          /\ tickets'[u].number = tickets[u].number
                          /\ tickets'[u].key = tickets[u].key
    BY <2>1, <2>5, <2>6 DEF Exists, Status
  <2>8. a \in areas /\ a \in Area /\ row.number \in Nat /\ SliceNumberFree(row.number)
    BY <1>2, <2>2 DEF Promotable, IInv, TypeOK, Faithful, TicketRow
  <2>9. NewSlice(a, row.number, t) \in SliceRow
    BY <2>1, <2>8, NewSliceTyped
  <2>10. /\ slices' \in [Slice -> SliceRow]
         /\ slices'[s] = NewSlice(a, row.number, t)
         /\ \A r \in Slice : r # s => slices'[r] = slices[r]
    BY <1>2, <2>9 DEF IInv, TypeOK
  <2>11. slices'[s].state = "live" /\ slices'[s].number = tickets[t].number /\ slices'[s].origin = t
    BY <2>1, <2>10 DEF NewSlice
  <2>12. Live(s)' /\ \A r \in Slice : r # s => (Live(r)' <=> Live(r))
    BY <2>10, <2>11 DEF Live
  <2>13. nextNumber' = nextNumber /\ areas' = areas /\ log' \in [Ticket -> Status \cup {"absent"}]
    BY <1>2 DEF IInv, TypeOK, Status
  <2>14. TypeOK'
    BY <1>2, <2>6, <2>10, <2>13, RespondSound DEF IInv, TypeOK
  <2>15. NumbersAllocated'
    BY <2>1, <2>7, <2>10, <2>11, <2>12, <2>13 DEF IInv, NumbersAllocated
  <2>16. AbsentRowsBlank'
    BY <2>1, <2>6, <2>7 DEF IInv, AbsentRowsBlank
  <2>17. RequestsSound'
    BY <1>2, <2>7, RespondKeepsRequests
  <2>18. NoDanglingReference'
    BY <2>1, <2>4, <2>6, <2>12, <2>13 DEF IInv, TypeOK, TicketRow, NoDanglingReference
  <2>19. RefNamesOneWork'
    BY <2>1, <2>7, <2>8, <2>10, <2>11, <2>12 DEF IInv, RefNamesOneWork, SliceNumberFree
  <2>20. OneTicketPerKey'
    BY <2>7 DEF IInv, OneTicketPerKey
  <2>21. ResolvedAgrees'
    <3>1. \A u \in Ticket : tickets'[u].resolved <=> tickets'[u].status \in ResolvedStatus
      BY <2>5, <2>6 DEF IInv, ResolvedAgrees
    <3>2. QED
      BY <1>2, <3>1, RespondKeepsResolved
  <2>22. QED
    BY <2>14, <2>15, <2>16, <2>17, <2>18, <2>19, <2>20, <2>21 DEF IInv
<1>3. QED
  BY <1>1, <1>2 DEF PromoteTicket

-----------------------------------------------------------------------------
(* Deleting an area *)

LEMMA DeleteAreaKeepsIInv ==
  ASSUME IInv, NEW w \in Worker, DeleteArea(w)
  PROVE  IInv'
<1>1. PICK a \in areas :
        LET lost == {s \in Slice : Live(s) /\ slices[s].area = a} IN
        /\ areas' = areas \ {a}
        /\ slices' = [s \in Slice |->
                        IF s \in lost THEN DeletedRow ELSE slices[s]]
        /\ tickets' = [t \in Ticket |->
                        [tickets[t] EXCEPT
                            !.area = IF @ = a THEN None ELSE @,
                            !.slice = IF @ \in lost THEN None ELSE @]]
  BY DEF DeleteArea
<1> DEFINE lost == {s \in Slice : Live(s) /\ slices[s].area = a}
<1>2. /\ Respond(w)
      /\ nextNumber' = nextNumber
      /\ log' = log
      /\ areas' = areas \ {a}
  BY <1>1 DEF DeleteArea
<1>3. DeletedRow \in SliceRow /\ DeletedRow.state = "deleted"
  BY DEF DeletedRow, NoSliceRow, SliceRow
<1>4. \A s \in Slice : slices'[s] = IF s \in lost THEN DeletedRow ELSE slices[s]
  BY <1>1
<1>5. slices' \in [Slice -> SliceRow]
  BY <1>1, <1>3 DEF IInv, TypeOK
<1>6. \A s \in Slice : Live(s)' <=> Live(s) /\ s \notin lost
  BY <1>3, <1>4 DEF Live
<1>7. \A s \in Slice : Live(s)' => slices'[s] = slices[s]
  BY <1>4, <1>6
<1>8. \A t \in Ticket : /\ tickets[t] \in TicketRow
                        /\ tickets'[t] = [tickets[t] EXCEPT
                              !.area = IF @ = a THEN None ELSE @,
                              !.slice = IF @ \in lost THEN None ELSE @]
  BY <1>1 DEF IInv, TypeOK
<1>. HIDE DEF lost
<1>9. \A t \in Ticket :
        /\ tickets'[t] \in TicketRow
        /\ tickets'[t].status = tickets[t].status
        /\ tickets'[t].number = tickets[t].number
        /\ tickets'[t].key = tickets[t].key
        /\ tickets'[t].resolved = tickets[t].resolved
        /\ tickets'[t].area = IF tickets[t].area = a THEN None ELSE tickets[t].area
        /\ tickets'[t].slice = IF tickets[t].slice \in lost THEN None ELSE tickets[t].slice
  <2>. SUFFICES ASSUME NEW t \in Ticket
                PROVE  /\ tickets'[t] \in TicketRow
                       /\ tickets'[t].status = tickets[t].status
                       /\ tickets'[t].number = tickets[t].number
                       /\ tickets'[t].key = tickets[t].key
                       /\ tickets'[t].resolved = tickets[t].resolved
                       /\ tickets'[t].area = IF tickets[t].area = a THEN None ELSE tickets[t].area
                       /\ tickets'[t].slice = IF tickets[t].slice \in lost THEN None
                                              ELSE tickets[t].slice
    OBVIOUS
  <2> DEFINE filed == IF tickets[t].area = a THEN None ELSE tickets[t].area
             linked == IF tickets[t].slice \in lost THEN None ELSE tickets[t].slice
  <2>1. filed \in Area \cup {None} /\ linked \in Slice \cup {None}
    BY <1>8 DEF TicketRow
  <2>2. tickets[t] \in TicketRow /\ tickets'[t] = [tickets[t] EXCEPT !.area = filed, !.slice = linked]
    BY <1>8 DEF TicketRow
  <2>. HIDE DEF filed, linked
  <2>3. /\ tickets'[t] \in TicketRow
        /\ tickets'[t].status = tickets[t].status
        /\ tickets'[t].number = tickets[t].number
        /\ tickets'[t].key = tickets[t].key
        /\ tickets'[t].resolved = tickets[t].resolved
        /\ tickets'[t].area = filed
        /\ tickets'[t].slice = linked
    BY <2>1, <2>2 DEF TicketRow
  <2>4. QED
    BY <2>3 DEF filed, linked
<1>10. \A t \in Ticket : Exists(t)' <=> Exists(t)
  BY <1>9 DEF Exists
<1>11. tickets' \in [Ticket -> TicketRow]
  <2>1. tickets' = [t \in Ticket |-> tickets'[t]]
    BY <1>1
  <2>2. QED
    BY <1>9, <2>1
<1>12. TypeOK'
  BY <1>2, <1>5, <1>11, RespondSound DEF IInv, TypeOK
<1>13. NumbersAllocated'
  BY <1>2, <1>6, <1>7, <1>9, <1>10 DEF IInv, NumbersAllocated
<1>14. AbsentRowsBlank'
  <2>1. ASSUME NEW t \in Ticket, ~Exists(t)
        PROVE  tickets'[t] = NoTicketRow
    <3>1. tickets[t] = NoTicketRow
      BY <2>1 DEF IInv, AbsentRowsBlank
    <3>2. tickets'[t].area = None /\ tickets'[t].slice = None
      BY <1>9, <3>1 DEF NoTicketRow
    <3>3. QED
      BY <1>9, <3>1, <3>2 DEF NoTicketRow, TicketRow
  <2>2. QED
    BY <1>10, <2>1 DEF AbsentRowsBlank
<1>15. RequestsSound'
  BY <1>2, <1>9, <1>10, RespondKeepsRequests
<1>16. NoDanglingReference'
  BY <1>2, <1>6, <1>9, NoneAssumption DEF IInv, NoDanglingReference, TypeOK, TicketRow
<1>17. RefNamesOneWork'
  BY <1>6, <1>7, <1>9, <1>10 DEF IInv, RefNamesOneWork
<1>18. OneTicketPerKey'
  BY <1>9 DEF IInv, OneTicketPerKey
<1>19. ResolvedAgrees'
  BY <1>2, <1>9, RespondKeepsResolved DEF IInv, ResolvedAgrees
<1>20. QED
  BY <1>12, <1>13, <1>14, <1>15, <1>16, <1>17, <1>18, <1>19 DEF IInv

-----------------------------------------------------------------------------
(* The specification *)

LEMMA InitKeepsIInv == Init => IInv
<1>. SUFFICES ASSUME Init PROVE IInv
  OBVIOUS
<1>1. NoTicketRow \in TicketRow /\ NoTicketRow.status = "absent" /\ ~NoTicketRow.resolved
  BY DEF NoTicketRow, TicketRow
<1>2. NoSliceRow \in SliceRow /\ NoSliceRow.state = "absent"
  BY DEF NoSliceRow, SliceRow
<1>3. "absent" \notin ResolvedStatus
  BY DEF ResolvedStatus, Status
<1>4. TypeOK
  BY <1>1, <1>2, IdleSound DEF Init, TypeOK
<1>5. \A t \in Ticket : tickets[t] = NoTicketRow
  BY DEF Init
<1>6. \A s \in Slice : ~Live(s)
  BY <1>2 DEF Init, Live
<1>7. \A w \in Worker : request[w] = Idle
  BY DEF Init
<1>8. \A t \in Ticket : ~Exists(t)
  BY <1>1, <1>5 DEF Exists
<1>9. RequestsSound
  BY <1>7, IdleSound DEF RequestsSound
<1>10. ResolvedAgrees
  BY <1>1, <1>3, <1>5, <1>7, IdleSound DEF ResolvedAgrees
<1>11. NoDanglingReference /\ OneTicketPerKey
  BY <1>5 DEF NoDanglingReference, OneTicketPerKey, NoTicketRow
<1>12. QED
  BY <1>4, <1>5, <1>6, <1>8, <1>9, <1>10, <1>11
  DEF IInv, NumbersAllocated, AbsentRowsBlank, RefNamesOneWork

LEMMA NextKeepsIInv == IInv /\ [Next]_vars => IInv'
<1>. SUFFICES ASSUME IInv, [Next]_vars PROVE IInv'
  OBVIOUS
<1>1. ASSUME NEW w \in Worker, Handle(w)
      PROVE  IInv'
  <2>1. CASE LoadTicket(w)
    BY <2>1, LoadKeepsIInv
  <2>2. CASE BeginCreate(w)
    BY <2>2, BeginCreateKeepsIInv
  <2>3. CASE FinishCreate(w)
    BY <2>3, FinishCreateKeepsIInv
  <2>4. CASE CreateSlice(w)
    BY <2>4, CreateSliceKeepsIInv
  <2>5. CASE EditTicket(w)
    BY <2>5, EditKeepsIInv
  <2>6. CASE UpdateTicket(w)
    BY <2>6, UpdateKeepsIInv
  <2>7. CASE DismissTicket(w)
    BY <2>7, DismissKeepsIInv
  <2>8. CASE ReopenTicket(w)
    BY <2>8, ReopenKeepsIInv
  <2>9. CASE PromoteTicket(w)
    BY <2>9, PromoteKeepsIInv
  <2>10. CASE AbsorbTicket(w)
    BY <2>10, AbsorbKeepsIInv
  <2>11. CASE ReleaseTicket(w)
    BY <2>11, ReleaseKeepsIInv
  <2>12. CASE DeleteArea(w)
    BY <2>12, DeleteAreaKeepsIInv
  <2>13. QED
    BY <1>1, <2>1, <2>2, <2>3, <2>4, <2>5, <2>6, <2>7, <2>8, <2>9, <2>10, <2>11, <2>12
    DEF Handle
<1>2. CASE UNCHANGED vars
  <2>1. UNCHANGED <<tickets, slices, areas, nextNumber, log, request>>
    BY <1>2 DEF vars
  <2>2. QED
    BY <2>1
    DEF IInv, TypeOK, NumbersAllocated, AbsentRowsBlank, RequestsSound, Faithful,
        NoDanglingReference, RefNamesOneWork, OneTicketPerKey, ResolvedAgrees, Exists, Live
<1>3. QED
  BY <1>1, <1>2 DEF Next

LEMMA Invariant == Spec => []IInv
  BY InitKeepsIInv, NextKeepsIInv, PTL DEF Spec

\* Every reachable state is well typed: no stale save stores a row the schema
\* has no place for.
THEOREM TypeCorrect == Spec => []TypeOK
<1>1. IInv => TypeOK
  BY DEF IInv
<1>2. QED
  BY <1>1, Invariant, PTL

\* However many requests interleave, no ticket refers to a deleted slice or
\* area: the foreign keys are checked against the rows that are there at commit,
\* and deleting an area clears the references to it and to its slices.
THEOREM ReferencesAreLive == Spec => []NoDanglingReference
<1>1. IInv => NoDanglingReference
  BY DEF IInv
<1>2. QED
  BY <1>1, Invariant, PTL

\* One counter serves tickets and slices, promotion hands a number on, and any
\* number of them run at once; still a ref never names two pieces of work.
THEOREM RefsAreUnambiguous == Spec => []RefNamesOneWork
<1>1. IInv => RefNamesOneWork
  BY DEF IInv
<1>2. QED
  BY <1>1, Invariant, PTL

\* create_ticket with an external key is idempotent under concurrent retries.
THEOREM KeysAreIdempotent == Spec => []OneTicketPerKey
<1>1. IInv => OneTicketPerKey
  BY DEF IInv
<1>2. QED
  BY <1>1, Invariant, PTL

\* Status and resolved_at agree in every stored row and in every row a worker
\* is about to write back, so ticket_resolved_at_matches_status never fires.
THEOREM ResolutionIsTimestamped == Spec => []ResolvedAgrees
<1>1. IInv => ResolvedAgrees
  BY DEF IInv
<1>2. QED
  BY <1>1, Invariant, PTL
=============================================================================
