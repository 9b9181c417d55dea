----------------------------- MODULE TriageProof -----------------------------
(***************************************************************************)
(* Theorems about Tickets when no save overwrites a change it has not      *)
(* seen, for any number of workers and all operations.  Whoever serves one *)
(* request at a time, keeps two workers off the same ticket, or checks the *)
(* row before it writes it back, is in this case; the last section says so *)
(* of the first two.                                                       *)
(***************************************************************************)
EXTENDS TicketsProof

\* The operations that save the row in memory.
Saves(w) ==
    \/ EditTicket(w) \/ UpdateTicket(w) \/ DismissTicket(w)
    \/ ReopenTicket(w) \/ AbsorbTicket(w) \/ ReleaseTicket(w)

\* The row in memory has the status and the link the stored one has.
Fresh(w) ==
    /\ request[w].row.status = tickets[request[w].ticket].status
    /\ request[w].row.slice = tickets[request[w].ticket].slice

\* No step writes back a row whose status or link has changed since it was read.
NoStaleSave == \A w \in Worker : Saves(w) => NoEffect(w) \/ Fresh(w)

\* The tool update_ticket leaves the status of linked tickets alone.  It sets any
\* status; what it does to a promoted ticket is the finding of tickets_agent.
UpdatesKeepLinks ==
    \A w \in Worker : UpdateTicket(w) =>
        \/ NoEffect(w)
        \/ tickets[request[w].ticket].slice = None
        \/ tickets'[request[w].ticket].status = tickets[request[w].ticket].status

Orderly == NoStaleSave /\ UpdatesKeepLinks

\* No ticket is created linked.
CreatesUnlinked ==
    \A w \in Worker : request[w].kind = "create" => request[w].row.slice = None

\* The ticket whose promotion made a slice stays promoted into it.
OriginsLinked ==
    \A s \in Slice : Live(s) /\ slices[s].origin # None =>
        /\ slices[s].origin \in Ticket
        /\ tickets[slices[s].origin].status = "promoted"
        /\ tickets[slices[s].origin].slice = s
        /\ tickets[slices[s].origin].number = slices[s].number

LinkedArePromoted ==
    \A t \in Ticket : tickets[t].slice # None => tickets[t].status = "promoted"

LinksSound == OriginsLinked /\ LinkedArePromoted /\ LogAgreesWithRow

TInv == IInv /\ CreatesUnlinked /\ LinksSound

\* What a slice that exists before and after a step keeps.
SlicesKept == \A s \in Slice : Live(s) => slices'[s] = slices[s]

\* What every step of an orderly server keeps.
Keeps == CreatesUnlinked' /\ LinksSound' /\ (\A s \in Slice : Live(s) /\ Live(s)' =>
                                           slices'[s].origin = slices[s].origin)

-----------------------------------------------------------------------------
(* Requests *)

LEMMA RespondCurrent ==
  ASSUME TInv, NEW w \in Worker, Respond(w)
  PROVE  CreatesUnlinked'
<1>1. /\ request'[w].kind = "idle"
      /\ \A v \in Worker : v # w => request'[v] = request[v]
  BY RespondSound, IdleSound DEF TInv, IInv
<1>2. QED
  BY <1>1 DEF TInv, CreatesUnlinked

LEMMA LinksStutter ==
  ASSUME TInv, UNCHANGED data
  PROVE  LinksSound' /\ \A s \in Slice : slices'[s].origin = slices[s].origin
<1>1. UNCHANGED <<tickets, slices, areas, nextNumber, log>>
  BY DEF data
<1>2. QED
  BY <1>1 DEF TInv, LinksSound, OriginsLinked, LinkedArePromoted, LogAgreesWithRow, Live

LEMMA NoEffectOrderly ==
  ASSUME TInv, NEW w \in Worker, NoEffect(w)
  PROVE  Keeps
  BY RespondCurrent, LinksStutter DEF NoEffect, Keeps

\* A worker that serves an operation on a ticket, with a fresh row of it.
LEMMA SavingFresh ==
  ASSUME TInv, NEW w \in Worker, NEW op, Serving(w, op), Fresh(w)
  PROVE  /\ request[w].ticket \in Ticket
         /\ Exists(request[w].ticket)
         /\ request[w].row \in TicketRow
         /\ request[w].row.status = tickets[request[w].ticket].status
         /\ request[w].row.slice = tickets[request[w].ticket].slice
         /\ request[w].row.number = tickets[request[w].ticket].number
  BY ServingFaithful DEF TInv, Faithful, Fresh

LEMMA LoadOrderly ==
  ASSUME TInv, NEW w \in Worker, LoadTicket(w)
  PROVE  Keeps
<1>1. PICK t \in Ticket :
        request' = [request EXCEPT ![w] =
                        [kind |-> "loaded", ticket |-> t, row |-> tickets[t]]]
  BY DEF LoadTicket
<1>2. UNCHANGED data
  BY DEF LoadTicket
<1>3. /\ request'[w] = [kind |-> "loaded", ticket |-> t, row |-> tickets[t]]
      /\ \A v \in Worker : v # w => request'[v] = request[v]
  BY <1>1 DEF TInv, IInv, TypeOK
<1>4. CreatesUnlinked'
  BY <1>3 DEF TInv, CreatesUnlinked
<1>5. QED
  BY <1>2, <1>4, LinksStutter DEF Keeps

LEMMA BeginCreateOrderly ==
  ASSUME TInv, NEW w \in Worker, BeginCreate(w)
  PROVE  Keeps
<1>1. PICK key \in Key \cup {None}, a \in areas \cup {None} :
        request' = [request EXCEPT ![w] =
                        [kind |-> "create", ticket |-> None,
                         row |-> [NoTicketRow EXCEPT !.area = a, !.key = key]]]
  BY DEF BeginCreate
<1>2. UNCHANGED data
  BY DEF BeginCreate
<1>3. /\ request'[w].kind = "create" /\ request'[w].row.slice = None
      /\ \A v \in Worker : v # w => request'[v] = request[v]
  BY <1>1 DEF TInv, IInv, TypeOK, NoTicketRow
<1>4. CreatesUnlinked'
  BY <1>3 DEF TInv, CreatesUnlinked
<1>5. QED
  BY <1>2, <1>4, LinksStutter DEF Keeps

-----------------------------------------------------------------------------
(* One ticket changes *)

LEMMA RowOrderly ==
  ASSUME TInv, NEW t \in Ticket, NEW row,
         tickets' = [tickets EXCEPT ![t] = row],
         log' = [log EXCEPT ![t] = row.status],
         SlicesKept,
         \A s \in Slice : Live(s)' /\ ~Live(s) =>
            \/ slices'[s].origin = None
            \/ /\ slices'[s].origin = t /\ row.slice = s /\ row.status = "promoted"
               /\ row.number = slices'[s].number,
         row.slice # None => row.status = "promoted",
         \A s \in Slice : Live(s) /\ slices[s].origin = t =>
            row.status = "promoted" /\ row.slice = s /\ row.number = tickets[t].number
  PROVE  LinksSound' /\ \A s \in Slice : Live(s) /\ Live(s)' =>
                                           slices'[s].origin = slices[s].origin
<1>1. tickets'[t] = row /\ \A u \in Ticket : u # t => tickets'[u] = tickets[u]
  BY DEF TInv, IInv, TypeOK
<1>2. log'[t] = row.status /\ \A u \in Ticket : u # t => log'[u] = log[u]
  BY DEF TInv, IInv, TypeOK
<1>3. LogAgreesWithRow' /\ LinkedArePromoted'
  BY <1>1, <1>2 DEF TInv, LinksSound, LogAgreesWithRow, LinkedArePromoted
<1>4. ASSUME NEW s \in Slice, Live(s)', slices'[s].origin # None
      PROVE  /\ slices'[s].origin \in Ticket
             /\ tickets'[slices'[s].origin].status = "promoted"
             /\ tickets'[slices'[s].origin].slice = s
             /\ tickets'[slices'[s].origin].number = slices'[s].number
  <2>1. CASE Live(s)
    <3>1. slices'[s] = slices[s]
      BY <2>1 DEF SlicesKept
    <3>2. /\ slices[s].origin \in Ticket
          /\ tickets[slices[s].origin].status = "promoted"
          /\ tickets[slices[s].origin].slice = s
          /\ tickets[slices[s].origin].number = slices[s].number
      BY <1>4, <2>1, <3>1 DEF TInv, LinksSound, OriginsLinked
    <3>3. QED
      BY <1>1, <2>1, <3>1, <3>2
  <2>2. CASE ~Live(s)
    BY <1>1, <1>4, <2>2
  <2>3. QED
    BY <2>1, <2>2
<1>5. OriginsLinked'
  BY <1>4 DEF OriginsLinked
<1>6. QED
  BY <1>3, <1>5 DEF LinksSound, SlicesKept

\* The saves: the stored row, or one of the changes triage makes to it.
LEMMA SaveOrderly ==
  ASSUME TInv, NEW w \in Worker, NEW op, Serving(w, op), Fresh(w),
         NEW row, row.number = request[w].row.number,
         row.slice # None => row.status = "promoted",
         \A s \in Slice : Live(s) /\ slices[s].origin = request[w].ticket =>
            row.status = "promoted" /\ row.slice = s,
         SaveRow(w, row, row.status)
  PROVE  Keeps
<1> DEFINE t == request[w].ticket
<1>1. t \in Ticket /\ request[w].row.number = tickets[t].number
  BY SavingFresh
<1>2. CASE NoEffect(w)
  BY <1>2, NoEffectOrderly
<1>3. CASE /\ tickets' = [tickets EXCEPT ![t] = row]
           /\ log' = [log EXCEPT ![t] = row.status]
           /\ Respond(w)
           /\ UNCHANGED <<slices, areas, nextNumber>>
  <2>1. SlicesKept /\ \A s \in Slice : Live(s)' => Live(s)
    BY <1>3 DEF SlicesKept, Live
  <2>2. \A s \in Slice : Live(s) /\ slices[s].origin = t =>
            row.status = "promoted" /\ row.slice = s /\ row.number = tickets[t].number
    BY <1>1
  <2>3. \A s \in Slice : Live(s)' /\ ~Live(s) =>
            \/ slices'[s].origin = None
            \/ /\ slices'[s].origin = t /\ row.slice = s /\ row.status = "promoted"
               /\ row.number = slices'[s].number
    BY <2>1
  <2>4. tickets' = [tickets EXCEPT ![t] = row] /\ log' = [log EXCEPT ![t] = row.status]
    BY <1>3
  <2> HIDE DEF t
  <2>5. LinksSound' /\ \A s \in Slice : Live(s) /\ Live(s)' =>
                                          slices'[s].origin = slices[s].origin
    BY <1>1, <2>1, <2>2, <2>3, <2>4, RowOrderly
  <2>6. QED
    BY <1>3, <2>5, RespondCurrent DEF Keeps
<1>4. QED
  BY <1>2, <1>3 DEF SaveRow

-----------------------------------------------------------------------------
(* Each operation *)

LEMMA OriginsOf ==
  ASSUME TInv, NEW t \in Ticket, NEW s \in Slice, Live(s), slices[s].origin = t
  PROVE  /\ tickets[t].status = "promoted" /\ tickets[t].slice = s
         /\ tickets[t].number = slices[s].number
  BY NoneAssumption DEF TInv, LinksSound, OriginsLinked

LEMMA UnpromotedUnlinked ==
  ASSUME TInv, NEW t \in Ticket, tickets[t].status # "promoted"
  PROVE  tickets[t].slice = None /\ \A s \in Slice : Live(s) => slices[s].origin # t
  BY OriginsOf DEF TInv, LinksSound, LinkedArePromoted

LEMMA WithStatusFields ==
  ASSUME NEW row \in TicketRow, NEW status
  PROVE  LET new == WithStatus(row, status) IN
         /\ new.status = status /\ new.slice = row.slice /\ new.number = row.number
  BY DEF WithStatus, TicketRow

\* A save that changes neither status nor link, of the row or of its area.
LEMMA SameStatusOrderly ==
  ASSUME TInv, NEW w \in Worker, NEW op, Serving(w, op), Fresh(w),
         NEW row, row.status = request[w].row.status, row.slice = request[w].row.slice,
         row.number = request[w].row.number, Save(w, row)
  PROVE  Keeps
<1>1. PICK t \in Ticket : t = request[w].ticket
  BY SavingFresh
<1>2. row.status = tickets[t].status /\ row.slice = tickets[t].slice
  BY <1>1, SavingFresh
<1>3. log[t] = row.status /\ (row.slice # None => row.status = "promoted")
  BY <1>2 DEF TInv, LinksSound, LogAgreesWithRow, LinkedArePromoted
<1>4. \A s \in Slice : Live(s) /\ slices[s].origin = t => row.status = "promoted" /\ row.slice = s
  BY <1>2, OriginsOf
<1>5. SaveRow(w, row, row.status)
  BY <1>1, <1>3 DEF Save
<1>6. QED
  BY <1>1, <1>3, <1>4, <1>5, SaveOrderly

LEMMA EditOrderly ==
  ASSUME TInv, NEW w \in Worker, EditTicket(w), NoEffect(w) \/ Fresh(w)
  PROVE  Keeps
<1>1. CASE Fresh(w)
  BY <1>1, SameStatusOrderly DEF EditTicket
<1>2. QED
  BY <1>1, NoEffectOrderly

\* An unlinked ticket changes its status, and is promoted if it is linked.
LEMMA StatusOrderly ==
  ASSUME TInv, NEW w \in Worker, NEW op, Serving(w, op), Fresh(w),
         request[w].row.slice = None,
         NEW row \in TicketRow, row.number = request[w].row.number,
         NEW status, row.slice # None => status = "promoted",
         ApplyStatus(w, row, status)
  PROVE  Keeps
<1> DEFINE new == WithStatus(row, status)
<1>1. PICK t \in Ticket : t = request[w].ticket
  BY SavingFresh
<1>2. SaveRow(w, new, status)
  BY DEF ApplyStatus
<1>3. new.status = status /\ new.slice = row.slice /\ new.number = request[w].row.number
  BY WithStatusFields
<1> HIDE DEF new
<1>4. tickets[t].slice = None
  BY <1>1, SavingFresh
<1>5. \A x \in Slice : Live(x) => slices[x].origin # t
  BY <1>4, OriginsOf, NoneAssumption
<1>6. QED
  BY <1>1, <1>2, <1>3, <1>5, SaveOrderly

LEMMA UpdateOrderly ==
  ASSUME TInv, NEW w \in Worker, UpdateTicket(w), NoEffect(w) \/ Fresh(w),
         \/ NoEffect(w)
         \/ tickets[request[w].ticket].slice = None
         \/ tickets'[request[w].ticket].status = tickets[request[w].ticket].status
  PROVE  Keeps
<1>1. CASE NoEffect(w)
  BY <1>1, NoEffectOrderly
<1>2. CASE Fresh(w) /\ ~NoEffect(w)
  <2>1. Serving(w, "update")
    BY DEF UpdateTicket
  <2>2. PICK t \in Ticket : t = request[w].ticket
    BY <1>2, <2>1, SavingFresh
  <2>3. PICK status \in Status, a \in areas \cup {request[w].row.area} :
          LET row == [request[w].row EXCEPT !.area = a] IN
          \/ status = row.status /\ Save(w, row)
          \/ status \notin {row.status, "promoted"} /\ ApplyStatus(w, row, status)
    BY <1>2 DEF UpdateTicket
  <2> DEFINE row == [request[w].row EXCEPT !.area = a]
  <2>4. request[w].row \in TicketRow /\ areas \subseteq Area
    BY <1>2, <2>1, SavingFresh DEF TInv, IInv, TypeOK
  <2>5. /\ row \in TicketRow /\ row.status = request[w].row.status
        /\ row.slice = request[w].row.slice /\ row.number = request[w].row.number
    BY <2>3, <2>4 DEF TicketRow
  <2>6. CASE Save(w, row)
    <3> HIDE DEF row
    <3>1. QED
      BY <1>2, <2>1, <2>5, <2>6, SameStatusOrderly
  <2>7. CASE status # row.status /\ ApplyStatus(w, row, status)
    <3>1. WithStatus(row, status).status = status
      BY <2>5, WithStatusFields
    <3>2. tickets' = [tickets EXCEPT ![t] = WithStatus(row, status)]
      BY <1>2, <2>2, <2>7 DEF ApplyStatus, SaveRow
    <3>3. tickets'[t].status = status
      BY <2>2, <3>1, <3>2 DEF TInv, IInv, TypeOK
    <3>4. tickets[t].slice = None
      BY <1>2, <2>1, <2>2, <2>5, <2>7, <3>3, SavingFresh
    <3>5. request[w].row.slice = None
      BY <1>2, <2>1, <2>2, <3>4, SavingFresh
    <3> HIDE DEF row
    <3>6. QED
      BY <1>2, <2>1, <2>5, <2>7, <3>5, StatusOrderly
  <2>8. QED
    BY <2>3, <2>6, <2>7
<1>3. QED
  BY <1>1, <1>2

LEMMA UnpromotedRowUnlinked ==
  ASSUME TInv, NEW w \in Worker, NEW op, Serving(w, op), Fresh(w),
         request[w].row.status # "promoted"
  PROVE  request[w].row.slice = None
  BY SavingFresh, UnpromotedUnlinked

LEMMA DismissOrderly ==
  ASSUME TInv, NEW w \in Worker, DismissTicket(w), NoEffect(w) \/ Fresh(w)
  PROVE  Keeps
<1> DEFINE row == request[w].row
<1>1. Serving(w, "dismiss")
  BY DEF DismissTicket
<1>2. CASE Fresh(w) /\ row.status = "open" /\ ApplyStatus(w, row, "dismissed")
  BY <1>1, <1>2, UnpromotedRowUnlinked, StatusOrderly, SavingFresh
<1>3. QED
  BY <1>2, NoEffectOrderly DEF DismissTicket

LEMMA ReopenOrderly ==
  ASSUME TInv, NEW w \in Worker, ReopenTicket(w), NoEffect(w) \/ Fresh(w)
  PROVE  Keeps
<1> DEFINE row == request[w].row
<1>1. Serving(w, "reopen")
  BY DEF ReopenTicket
<1>2. CASE Fresh(w) /\ Reopens(row.status) /\ ApplyStatus(w, row, "open")
  BY <1>1, <1>2, UnpromotedRowUnlinked, StatusOrderly, SavingFresh DEF Reopens
<1>3. QED
  BY <1>2, NoEffectOrderly DEF ReopenTicket

LEMMA AbsorbOrderly ==
  ASSUME TInv, NEW w \in Worker, AbsorbTicket(w), NoEffect(w) \/ Fresh(w)
  PROVE  Keeps
<1>1. Serving(w, "absorb")
  BY DEF AbsorbTicket
<1>2. PICK into \in {s \in Slice : Live(s)} :
        \/ /\ request[w].row.slice # into /\ request[w].row.status = "open"
           /\ ApplyStatus(w, [request[w].row EXCEPT !.slice = into], "promoted")
        \/ NoEffect(w)
  BY DEF AbsorbTicket
<1> DEFINE row == [request[w].row EXCEPT !.slice = into]
<1>3. CASE Fresh(w) /\ request[w].row.status = "open" /\ ApplyStatus(w, row, "promoted")
  <2>1. request[w].row \in TicketRow /\ request[w].row.slice = None
    BY <1>1, <1>3, SavingFresh, UnpromotedRowUnlinked
  <2>2. row \in TicketRow /\ row.number = request[w].row.number
    BY <2>1 DEF TicketRow
  <2> HIDE DEF row
  <2>3. QED
    BY <1>1, <1>3, <2>1, <2>2, StatusOrderly
<1>4. QED
  BY <1>2, <1>3, NoEffectOrderly

\* What may be released is not the origin of its slice.
LEMMA ReleaseOrderly ==
  ASSUME TInv, NEW w \in Worker, ReleaseTicket(w), NoEffect(w) \/ Fresh(w)
  PROVE  Keeps
<1>1. Serving(w, "release")
  BY DEF ReleaseTicket
<1>2. CASE /\ Fresh(w) /\ MayRelease(request[w].ticket, request[w].row)
           /\ ApplyStatus(w, [request[w].row EXCEPT !.slice = None], "open")
  <2> DEFINE row == [request[w].row EXCEPT !.slice = None]
             new == WithStatus(row, "open")
  <2>1. PICK t \in Ticket : t = request[w].ticket
    BY <1>1, <1>2, SavingFresh
  <2>2. /\ Exists(t) /\ request[w].row \in TicketRow
        /\ request[w].row.slice = tickets[t].slice
    BY <1>1, <1>2, <2>1, SavingFresh
  <2>3. row \in TicketRow /\ row.slice = None /\ row.number = request[w].row.number
    BY <2>2 DEF TicketRow
  <2>4. SaveRow(w, new, "open")
    BY <1>2 DEF ApplyStatus
  <2>5. \A s \in Slice : Live(s) => slices[s].origin # t
    BY <1>2, <2>1, <2>2, OriginsOf DEF MayRelease, OriginTickets
  <2> HIDE DEF row
  <2>6. new.status = "open" /\ new.slice = None /\ new.number = request[w].row.number
    BY <2>3, WithStatusFields
  <2> HIDE DEF new
  <2>7. QED
    BY <1>1, <1>2, <2>1, <2>4, <2>5, <2>6, SaveOrderly
<1>3. QED
  BY <1>2, NoEffectOrderly DEF ReleaseTicket

LEMMA PromoteOrderly ==
  ASSUME TInv, NEW w \in Worker, PromoteTicket(w)
  PROVE  Keeps
<1> DEFINE t == request[w].ticket
           row == tickets[t]
<1>1. t \in Ticket /\ row \in TicketRow
  BY ServingFaithful DEF PromoteTicket, TInv, IInv, TypeOK
<1>2. CASE NoEffect(w)
  BY <1>2, NoEffectOrderly
<1>3. ASSUME NEW a, Promotable(row, a), NEW s \in Slice, slices[s].state = "absent",
             slices' = [slices EXCEPT ![s] = NewSlice(a, row.number, t)],
             tickets' = [tickets EXCEPT ![t] = [WithStatus(row, "promoted") EXCEPT !.slice = s]],
             log' = [log EXCEPT ![t] = "promoted"], Respond(w)
      PROVE  Keeps
  <2> DEFINE new == [WithStatus(row, "promoted") EXCEPT !.slice = s]
             made == NewSlice(a, row.number, t)
  <2>1. new.status = "promoted" /\ new.slice = s /\ new.number = row.number
    BY <1>1 DEF WithStatus, TicketRow
  <2>2. made.origin = t /\ made.number = row.number
    BY DEF NewSlice
  <2> HIDE DEF made
  <2>3. slices'[s] = made /\ \A x \in Slice : x # s => slices'[x] = slices[x]
    BY <1>3 DEF made, TInv, IInv, TypeOK
  <2>4. SlicesKept
    BY <1>3, <2>3 DEF SlicesKept, Live
  <2>5. \A x \in Slice : Live(x)' /\ ~Live(x) =>
            \/ slices'[x].origin = None
            \/ /\ slices'[x].origin = t /\ new.slice = x /\ new.status = "promoted"
               /\ new.number = slices'[x].number
    BY <2>1, <2>2, <2>3 DEF Live
  <2>6. \A x \in Slice : Live(x) => slices[x].origin # t
    BY <1>1, <1>3, UnpromotedUnlinked DEF Promotable
  <2>7. tickets' = [tickets EXCEPT ![t] = new] /\ log' = [log EXCEPT ![t] = new.status]
    BY <1>3, <2>1
  <2>8. t \in Ticket
    BY <1>1
  <2> HIDE DEF new, t
  <2>9. new.slice # None => new.status = "promoted"
    BY <2>1
  <2>10. \A x \in Slice : Live(x) /\ slices[x].origin = t =>
            new.status = "promoted" /\ new.slice = x /\ new.number = tickets[t].number
    BY <2>6
  <2>11. LinksSound' /\ \A x \in Slice : Live(x) /\ Live(x)' =>
                                          slices'[x].origin = slices[x].origin
    BY <2>8, <2>4, <2>5, <2>7, <2>9, <2>10, RowOrderly
  <2>12. QED
    BY <1>3, <2>11, RespondCurrent DEF Keeps
<1>4. QED
  BY <1>2, <1>3 DEF PromoteTicket, LockedRow

LEMMA FinishCreateOrderly ==
  ASSUME TInv, NEW w \in Worker, FinishCreate(w)
  PROVE  Keeps
<1> DEFINE row == [request[w].row EXCEPT !.status = "open", !.number = nextNumber]
<1>1. request[w].row \in TicketRow /\ request[w].kind = "create"
  BY DEF FinishCreate, TInv, IInv, TypeOK, Request
<1>2. CASE NoEffect(w)
  BY <1>2, NoEffectOrderly
<1>3. ASSUME NEW t \in Ticket, ~Exists(t), tickets' = [tickets EXCEPT ![t] = row],
             log' = [log EXCEPT ![t] = "open"], Respond(w), UNCHANGED slices
      PROVE  Keeps
  <2>1. row.status = "open" /\ row.slice = request[w].row.slice
    BY <1>1 DEF TicketRow
  <2>2. request[w].row.slice = None
    BY <1>1 DEF TInv, CreatesUnlinked
  <2>3. SlicesKept /\ \A s \in Slice : Live(s)' => Live(s)
    BY <1>3 DEF SlicesKept, Live
  <2>4. \A s \in Slice : Live(s) => slices[s].origin # t
    BY <1>3, UnpromotedUnlinked DEF Exists
  <2>5. log' = [log EXCEPT ![t] = row.status]
    BY <1>3, <2>1
  <2> HIDE DEF row
  <2>6. LinksSound' /\ \A s \in Slice : Live(s) /\ Live(s)' =>
                                          slices'[s].origin = slices[s].origin
    BY <1>3, <2>1, <2>2, <2>3, <2>4, <2>5, RowOrderly
  <2>7. QED
    BY <1>3, <2>6, RespondCurrent DEF Keeps
<1>4. QED
  BY <1>2, <1>3 DEF FinishCreate

LEMMA CreateSliceOrderly ==
  ASSUME TInv, NEW w \in Worker, CreateSlice(w)
  PROVE  Keeps
<1>1. PICK a \in areas, s \in Slice :
        /\ slices[s].state = "absent"
        /\ slices' = [slices EXCEPT ![s] = NewSlice(a, nextNumber, None)]
  BY DEF CreateSlice
<1>2. tickets' = tickets /\ log' = log /\ Respond(w)
  BY DEF CreateSlice
<1>3. slices'[s] = NewSlice(a, nextNumber, None) /\ \A x \in Slice : x # s => slices'[x] = slices[x]
  BY <1>1 DEF TInv, IInv, TypeOK
<1>4. slices'[s].origin = None /\ ~Live(s)
  BY <1>1, <1>3 DEF NewSlice, Live
<1>5. \A x \in Slice : Live(x)' /\ slices'[x].origin # None => Live(x) /\ slices'[x] = slices[x]
  BY <1>3, <1>4 DEF Live
<1>6. OriginsLinked'
  BY <1>2, <1>5 DEF TInv, LinksSound, OriginsLinked
<1>7. LinkedArePromoted' /\ LogAgreesWithRow'
  BY <1>2 DEF TInv, LinksSound, LinkedArePromoted, LogAgreesWithRow
<1>8. QED
  BY <1>2, <1>3, <1>4, <1>6, <1>7, RespondCurrent DEF Keeps, LinksSound


LEMMA DeleteAreaOrderly ==
  ASSUME TInv, NEW w \in Worker, DeleteArea(w)
  PROVE  Keeps
<1>1. PICK a \in areas :
        LET lost == {s \in Slice : Live(s) /\ slices[s].area = a} IN
        /\ slices' = [s \in Slice |->
                        IF s \in lost THEN DeletedRow ELSE slices[s]]
        /\ tickets' = [t \in Ticket |->
                        [tickets[t] EXCEPT
                            !.area = IF @ = a THEN None ELSE @,
                            !.slice = IF @ \in lost THEN None ELSE @]]
  BY DEF DeleteArea
<1> DEFINE lost == {s \in Slice : Live(s) /\ slices[s].area = a}
<1>2. log' = log /\ Respond(w)
  BY DEF DeleteArea
<1>3. \A s \in Slice : slices'[s] = IF s \in lost THEN DeletedRow ELSE slices[s]
  BY <1>1
<1>4. \A t \in Ticket : /\ tickets[t] \in TicketRow
                        /\ tickets'[t] = [tickets[t] EXCEPT
                              !.area = IF @ = a THEN None ELSE @,
                              !.slice = IF @ \in lost THEN None ELSE @]
  BY <1>1 DEF TInv, IInv, TypeOK
<1> HIDE DEF lost
<1>5. \A s \in Slice : Live(s)' => s \notin lost /\ slices'[s] = slices[s] /\ Live(s)
  BY <1>3 DEF Live, DeletedRow, NoSliceRow
<1>6. \A t \in Ticket :
        /\ tickets'[t].status = tickets[t].status
        /\ tickets'[t].number = tickets[t].number
        /\ tickets'[t].slice = IF tickets[t].slice \in lost THEN None ELSE tickets[t].slice
  BY <1>4 DEF TicketRow
<1>7. LinkedArePromoted' /\ LogAgreesWithRow'
  BY <1>2, <1>6 DEF TInv, LinksSound, LinkedArePromoted, LogAgreesWithRow
<1>8. ASSUME NEW s \in Slice, Live(s)', slices'[s].origin # None
      PROVE  /\ slices'[s].origin \in Ticket
             /\ tickets'[slices'[s].origin].status = "promoted"
             /\ tickets'[slices'[s].origin].slice = s
             /\ tickets'[slices'[s].origin].number = slices'[s].number
  <2>1. s \notin lost /\ slices'[s] = slices[s] /\ Live(s)
    BY <1>5, <1>8
  <2>2. /\ slices[s].origin \in Ticket
        /\ tickets[slices[s].origin].status = "promoted"
        /\ tickets[slices[s].origin].slice = s
        /\ tickets[slices[s].origin].number = slices[s].number
    BY <1>8, <2>1 DEF TInv, LinksSound, OriginsLinked
  <2>3. QED
    BY <1>6, <2>1, <2>2
<1>9. OriginsLinked'
  BY <1>8 DEF OriginsLinked
<1>10. QED
  BY <1>2, <1>5, <1>7, <1>9, RespondCurrent DEF Keeps, LinksSound

-----------------------------------------------------------------------------
(* The invariant, and the properties it gives *)

LEMMA InitOrderly == Init => TInv
<1> SUFFICES ASSUME Init PROVE TInv
  OBVIOUS
<1>1. IInv
  BY InitKeepsIInv
<1>2. (\A w \in Worker : request[w] = Idle) /\ Idle.kind = "idle"
  BY DEF Init, Idle
<1>3. CreatesUnlinked
  BY <1>2 DEF CreatesUnlinked
<1>4. \A s \in Slice : ~Live(s)
  BY DEF Init, Live, NoSliceRow
<1>5. OriginsLinked
  BY <1>4 DEF OriginsLinked
<1>6. LinkedArePromoted /\ LogAgreesWithRow
  BY DEF Init, NoTicketRow, LinkedArePromoted, LogAgreesWithRow
<1>7. QED
  BY <1>1, <1>3, <1>5, <1>6 DEF TInv, LinksSound

LEMMA HandleOrderly ==
  ASSUME Orderly, TInv, NEW w \in Worker, Handle(w)
  PROVE  Keeps
<1>1. Saves(w) => NoEffect(w) \/ Fresh(w)
  BY DEF Orderly, NoStaleSave
<1>2. CASE LoadTicket(w) \/ BeginCreate(w) \/ FinishCreate(w) \/ CreateSlice(w)
  BY <1>2, LoadOrderly, BeginCreateOrderly, FinishCreateOrderly, CreateSliceOrderly
<1>3. CASE EditTicket(w) \/ DismissTicket(w) \/ ReopenTicket(w)
  BY <1>1, <1>3, EditOrderly, DismissOrderly, ReopenOrderly DEF Saves
<1>4. CASE AbsorbTicket(w) \/ ReleaseTicket(w)
  BY <1>1, <1>4, AbsorbOrderly, ReleaseOrderly DEF Saves
<1>5. CASE UpdateTicket(w)
  <2>1. \/ NoEffect(w)
        \/ tickets[request[w].ticket].slice = None
        \/ tickets'[request[w].ticket].status = tickets[request[w].ticket].status
    BY <1>5 DEF Orderly, UpdatesKeepLinks
  <2>2. NoEffect(w) \/ Fresh(w)
    BY <1>1, <1>5 DEF Saves
  <2>3. QED
    BY <1>5, <2>1, <2>2, UpdateOrderly
<1>6. CASE PromoteTicket(w) \/ DeleteArea(w)
  BY <1>6, PromoteOrderly, DeleteAreaOrderly
<1>7. QED
  BY <1>2, <1>3, <1>4, <1>5, <1>6 DEF Handle

LEMMA StutterOrderly ==
  ASSUME TInv, UNCHANGED vars
  PROVE  Keeps
<1>1. UNCHANGED data /\ request' = request
  BY DEF vars, data
<1>2. CreatesUnlinked'
  BY <1>1 DEF TInv, CreatesUnlinked
<1>3. QED
  BY <1>1, <1>2, LinksStutter DEF Keeps

LEMMA StepOrderly ==
  ASSUME TInv, [Next]_vars, [Orderly]_vars
  PROVE  TInv' /\ Keeps
<1>1. IInv'
  BY NextKeepsIInv DEF TInv
<1>2. CASE UNCHANGED vars
  BY <1>1, <1>2, StutterOrderly DEF TInv, Keeps
<1>3. CASE Next /\ Orderly
  BY <1>1, <1>3, HandleOrderly DEF Next, TInv, Keeps
<1>4. QED
  BY <1>2, <1>3

LEMMA OrderlyInvariant == Spec /\ [][Orderly]_vars => []TInv
<1>1. Init => TInv
  BY InitOrderly
<1>2. TInv /\ [Next]_vars /\ [Orderly]_vars => TInv'
  BY StepOrderly
<1>3. QED
  BY <1>1, <1>2, PTL DEF Spec

LEMMA NumbersFree ==
  ASSUME TInv, NEW t \in Ticket, tickets[t].status = "open"
  PROVE  SliceNumberFree(tickets[t].number)
<1>1. Exists(t)
  BY DEF Exists
<1>2. \A s \in Slice : Live(s) => slices[s].origin # t
  BY UnpromotedUnlinked
<1>3. QED
  BY <1>1, <1>2 DEF TInv, IInv, RefNamesOneWork, SliceNumberFree

\* With no stale save, the ref of every ticket resolves to where its work is:
\* the slice it is linked to, else the ticket.
THEOREM RefsFollowTheWork == Spec /\ [][Orderly]_vars => []RefFollowsWork
<1>1. TInv => RefFollowsWork
  <2> SUFFICES ASSUME TInv, NEW t \in Ticket, Exists(t)
               PROVE  ResolveRef(tickets[t].number) =
                        {IF tickets[t].slice = None THEN t ELSE tickets[t].slice}
    BY DEF RefFollowsWork
  <2> DEFINE n == tickets[t].number
             made == {s \in Slice : Live(s) /\ slices[s].number = n}
             captured == {u \in Ticket : Exists(u) /\ tickets[u].number = n}
  <2>1. captured = {t}
    BY DEF TInv, IInv, RefNamesOneWork
  <2>2. \A s \in made : slices[s].origin = t /\ tickets[t].slice = s
    <3>1. \A s \in made : slices[s].origin = t
      BY DEF TInv, IInv, RefNamesOneWork
    <3>2. QED
      BY <3>1, OriginsOf
  <2>3. CASE made = {}
    BY <2>1, <2>3 DEF ResolveRef
  <2>4. CASE made # {}
    <3>1. PICK s \in made : TRUE
      BY <2>4
    <3>2. made = {s} /\ tickets[t].slice = s /\ s \in Slice
      BY <2>2, <3>1
    <3>3. tickets[t].slice # None
      BY <3>2, NoneAssumption
    <3>4. ResolveRef(n) = made
      BY <2>4 DEF ResolveRef
    <3>5. QED
      BY <3>2, <3>3, <3>4
  <2>5. QED
    BY <2>3, <2>4
<1>2. QED
  BY <1>1, OrderlyInvariant, PTL

\* With no stale save, no slice has the number of a ticket in the Inbox.
THEOREM InboxStaysPromotable == Spec /\ [][Orderly]_vars => []InboxIsPromotable
<1>1. TInv => InboxIsPromotable
  BY NumbersFree DEF InboxIsPromotable
<1>2. QED
  BY <1>1, OrderlyInvariant, PTL

\* A promotion that reaches its INSERT finds its number free; nothing is
\* assumed of the other workers' promotions.
THEOREM PromotionsNeverClash == Spec /\ [][Orderly]_vars => []PromotionNeverClashes
<1>1. TInv => PromotionNeverClashes
  <2> SUFFICES ASSUME TInv, NEW w \in Worker, request[w].kind = "loaded",
                      LockedRow(w).status = "open"
               PROVE  SliceNumberFree(LockedRow(w).number)
    BY DEF PromotionNeverClashes
  <2>1. request[w].ticket \in Ticket
    BY DEF TInv, IInv, RequestsSound
  <2>2. QED
    BY <2>1, NumbersFree DEF LockedRow
<1>2. QED
  BY <1>1, OrderlyInvariant, PTL

\* With no stale save, the last status reported for a ticket is its status.
THEOREM LogFollowsTheRow == Spec /\ [][Orderly]_vars => []LogAgreesWithRow
<1>1. TInv => LogAgreesWithRow
  BY DEF TInv, LinksSound
<1>2. QED
  BY <1>1, OrderlyInvariant, PTL

\* With no stale save, a promoted ticket stays with the slice it became for as
\* long as the slice lives.
THEOREM PromotionEndsTheTicket == Spec /\ [][Orderly]_vars => PromotionIsFinal
<1> DEFINE Final == \A s \in Slice : \A t \in OriginTickets(s) :
                tickets[t].status = "promoted" /\ Live(s)'
                    => tickets'[t].status = "promoted" /\ tickets'[t].slice = s
<1>1. ASSUME TInv, [Next]_vars, [Orderly]_vars
      PROVE  Final
  <2> SUFFICES ASSUME NEW s \in Slice, NEW t \in OriginTickets(s), Live(s)'
               PROVE  tickets'[t].status = "promoted" /\ tickets'[t].slice = s
    OBVIOUS
  <2>1. t \in Ticket /\ Exists(t) /\ tickets[t].slice = s /\ tickets[t].number = slices[s].number
    BY DEF OriginTickets
  <2>2. Live(s)
    BY <1>1, <2>1, NoneAssumption DEF TInv, IInv, NoDanglingReference
  <2>3. slices[s].origin = t
    BY <1>1, <2>1, <2>2 DEF TInv, IInv, RefNamesOneWork
  <2>4. TInv' /\ slices'[s].origin = t
    BY <1>1, <2>2, <2>3, StepOrderly DEF Keeps
  <2>5. QED
    BY <2>1, <2>4, NoneAssumption DEF TInv, LinksSound, OriginsLinked
<1>2. TInv /\ [Next]_vars /\ [Orderly]_vars => [Final]_vars
  BY <1>1
<1>3. QED
  BY <1>2, OrderlyInvariant, PTL DEF Spec, PromotionIsFinal


-----------------------------------------------------------------------------
(* The refinement *)

Moves == {<<"absent", "open">>, <<"open", "dismissed">>, <<"open", "duplicate">>,
          <<"dismissed", "open">>, <<"duplicate", "open">>, <<"open", "origin">>,
          <<"open", "absorbed">>, <<"absorbed", "open">>}

Triaged == {"open", "dismissed", "duplicate"}

\* The tool update_ticket changes a status only as triage itself does: it resolves
\* an open ticket or reopens a resolved one.
UpdatesAreTriage ==
    \A w \in Worker : UpdateTicket(w) =>
        LET old == tickets[request[w].ticket].status
            new == tickets'[request[w].ticket].status
        IN  old = new \/ (old \in Triaged /\ new \in Triaged /\ "open" \in {old, new})

\* What a step may do to the stages of all tickets.
StageSteps ==
    \/ \A u \in Ticket : Stage(u)' = Stage(u)
    \/ \E t \in Ticket : /\ <<Stage(t), Stage(t)'>> \in Moves
                         /\ \A u \in Ticket : u # t => Stage(u)' = Stage(u)
    \/ \E lost \in SUBSET Ticket :
        /\ \A u \in lost : Stage(u) \in {"origin", "absorbed"} /\ Stage(u)' = "stranded"
        /\ \A u \in Ticket \ lost : Stage(u)' = Stage(u)

Stages == [t \in Ticket |-> Stage(t)]

LEMMA StageKept ==
  ASSUME NEW t \in Ticket,
         tickets'[t].status = tickets[t].status,
         tickets'[t].slice = tickets[t].slice,
         tickets'[t].number = tickets[t].number,
         tickets[t].slice # None =>
            slices'[tickets[t].slice].number = slices[tickets[t].slice].number
  PROVE  Stage(t)' = Stage(t)
  BY DEF Stage, OriginTickets, Exists

LEMMA LinksAreLive ==
  ASSUME TInv, NEW t \in Ticket, tickets[t].slice # None
  PROVE  /\ tickets[t].slice \in Slice /\ Live(tickets[t].slice)
         /\ tickets[t].status = "promoted"
<1>1. tickets[t] \in TicketRow
  BY DEF TInv, IInv, TypeOK
<1>2. QED
  BY <1>1 DEF TInv, IInv, NoDanglingReference, LinksSound, LinkedArePromoted, TicketRow

\* One row changes: the other tickets keep their stage.
LEMMA RowStage ==
  ASSUME TInv, NEW t \in Ticket, NEW row, SlicesKept,
         tickets' = [tickets EXCEPT ![t] = row]
  PROVE  /\ \A u \in Ticket : u # t => Stage(u)' = Stage(u)
         /\ tickets'[t] = row
<1>1. tickets'[t] = row /\ \A u \in Ticket : u # t => tickets'[u] = tickets[u]
  BY DEF TInv, IInv, TypeOK
<1>2. ASSUME NEW u \in Ticket, u # t PROVE Stage(u)' = Stage(u)
  <2>1. tickets[u].slice # None =>
            slices'[tickets[u].slice].number = slices[tickets[u].slice].number
    BY LinksAreLive DEF SlicesKept
  <2>2. QED
    BY <1>1, <1>2, <2>1, StageKept
<1>3. QED
  BY <1>1, <1>2

LEMMA DataStages ==
  ASSUME UNCHANGED data
  PROVE  StageSteps
<1>1. tickets' = tickets /\ slices' = slices
  BY DEF data
<1>2. QED
  BY <1>1, StageKept DEF StageSteps

\* A row with another status and link is saved over the one that is stored.
LEMMA SaveStages ==
  ASSUME TInv, NEW w \in Worker, NEW op, Serving(w, op), Fresh(w),
         NEW row, NEW status, SaveRow(w, row, status), row.number = request[w].row.number,
         \/ row.status = request[w].row.status /\ row.slice = request[w].row.slice
         \/ /\ row.status # "promoted"
            /\ <<Stage(request[w].ticket), row.status>> \in Moves
         \/ /\ row.status = "promoted" /\ row.slice \in Slice
            /\ row.number # slices[row.slice].number
            /\ Stage(request[w].ticket) = "open"
  PROVE  StageSteps
<1>1. PICK t \in Ticket : t = request[w].ticket
  BY SavingFresh
<1>2. CASE NoEffect(w)
  BY <1>2, DataStages DEF NoEffect
<1>3. CASE /\ tickets' = [tickets EXCEPT ![request[w].ticket] = row]
           /\ slices' = slices
  <2>1. SlicesKept
    BY <1>3 DEF SlicesKept
  <2>2. tickets' = [tickets EXCEPT ![t] = row]
    BY <1>1, <1>3
  <2>3. /\ \A u \in Ticket : u # t => Stage(u)' = Stage(u)
        /\ tickets'[t] = row
    BY <1>1, <2>1, <2>2, RowStage
  <2>4. CASE row.status = request[w].row.status /\ row.slice = request[w].row.slice
    <3>1. /\ tickets'[t].status = tickets[t].status
          /\ tickets'[t].slice = tickets[t].slice
          /\ tickets'[t].number = tickets[t].number
      BY <1>1, <2>3, <2>4, SavingFresh
    <3>2. Stage(t)' = Stage(t)
      BY <1>1, <1>3, <3>1, StageKept
    <3>3. QED
      BY <2>3, <3>2 DEF StageSteps
  <2>5. CASE row.status # "promoted" /\ <<Stage(t), row.status>> \in Moves
    <3>1. Stage(t)' = row.status
      BY <2>3, <2>5 DEF Stage
    <3>2. QED
      BY <1>1, <2>3, <2>5, <3>1 DEF StageSteps
  <2>6. CASE /\ row.status = "promoted" /\ row.slice \in Slice
             /\ row.number # slices[row.slice].number /\ Stage(t) = "open"
    <3>1. Stage(t)' = "absorbed"
      BY <1>1, <1>3, <2>3, <2>6, NoneAssumption DEF Stage, OriginTickets
    <3>2. QED
      BY <1>1, <2>3, <2>6, <3>1 DEF StageSteps, Moves
  <2>7. QED
    BY <1>1, <2>4, <2>5, <2>6
<1>4. QED
  BY <1>2, <1>3 DEF SaveRow

\* A change of status among the stages that triage decides between.
LEMMA StatusStages ==
  ASSUME TInv, NEW w \in Worker, NEW op, Serving(w, op), Fresh(w),
         NEW row \in TicketRow, row.number = request[w].row.number,
         NEW status, status # "promoted", ApplyStatus(w, row, status),
         <<Stage(request[w].ticket), status>> \in Moves
  PROVE  StageSteps
<1> DEFINE new == WithStatus(row, status)
<1>1. SaveRow(w, new, status)
  BY DEF ApplyStatus
<1>2. new.status = status /\ new.number = request[w].row.number
  BY WithStatusFields
<1> HIDE DEF new
<1>3. QED
  BY <1>1, <1>2, SaveStages

LEMMA UnpromotedStage ==
  ASSUME TInv, NEW w \in Worker, NEW op, Serving(w, op), Fresh(w),
         request[w].row.status # "promoted"
  PROVE  Stage(request[w].ticket) = request[w].row.status
  BY SavingFresh DEF Stage

LEMMA EditStages ==
  ASSUME TInv, NEW w \in Worker, EditTicket(w), Fresh(w)
  PROVE  StageSteps
  BY SaveStages DEF EditTicket, Save

LEMMA DismissStages ==
  ASSUME TInv, NEW w \in Worker, DismissTicket(w), Fresh(w), ~NoEffect(w)
  PROVE  StageSteps
<1> DEFINE row == request[w].row
<1>1. Serving(w, "dismiss") /\ row.status = "open" /\ ApplyStatus(w, row, "dismissed")
  BY DEF DismissTicket
<1>2. row \in TicketRow /\ Stage(request[w].ticket) = "open"
  BY <1>1, SavingFresh, UnpromotedStage
<1>3. <<Stage(request[w].ticket), "dismissed">> \in Moves
  BY <1>2 DEF Moves
<1>4. QED
  BY <1>1, <1>2, <1>3, StatusStages

LEMMA ReopenStages ==
  ASSUME TInv, NEW w \in Worker, ReopenTicket(w), Fresh(w), ~NoEffect(w)
  PROVE  StageSteps
<1> DEFINE row == request[w].row
<1>1. Serving(w, "reopen") /\ Reopens(row.status) /\ ApplyStatus(w, row, "open")
  BY DEF ReopenTicket
<1>2. row \in TicketRow /\ row.status # "absent"
  BY <1>1, SavingFresh DEF Exists
<1>3. Stage(request[w].ticket) \in {"dismissed", "duplicate"}
  BY <1>1, <1>2, UnpromotedStage DEF Reopens, TicketRow, Status
<1>4. <<Stage(request[w].ticket), "open">> \in Moves
  BY <1>3 DEF Moves
<1>5. QED
  BY <1>1, <1>2, <1>4, StatusStages

LEMMA AbsorbStages ==
  ASSUME TInv, NEW w \in Worker, AbsorbTicket(w), Fresh(w), ~NoEffect(w)
  PROVE  StageSteps
<1> DEFINE row == request[w].row
<1>1. Serving(w, "absorb")
  BY DEF AbsorbTicket
<1>2. PICK into \in {s \in Slice : Live(s)} :
         row.status = "open" /\ ApplyStatus(w, [row EXCEPT !.slice = into], "promoted")
  BY DEF AbsorbTicket
<1>3. PICK t \in Ticket : t = request[w].ticket
  BY <1>1, SavingFresh
<1> DEFINE linked == [row EXCEPT !.slice = into]
           new == WithStatus(linked, "promoted")
<1>4. /\ row \in TicketRow /\ tickets[t].status = "open"
      /\ row.number = tickets[t].number
  BY <1>1, <1>2, <1>3, SavingFresh
<1>5. linked \in TicketRow /\ linked.slice = into /\ linked.number = row.number
  BY <1>4 DEF TicketRow
<1>6. SaveRow(w, new, "promoted")
  BY <1>2 DEF ApplyStatus
<1> HIDE DEF linked
<1>7. new.status = "promoted" /\ new.slice = into /\ new.number = row.number
  BY <1>5, WithStatusFields
<1> HIDE DEF new
<1>8. SliceNumberFree(row.number)
  BY <1>4, NumbersFree
<1>9. new.number # slices[new.slice].number /\ Stage(t) = "open"
  BY <1>2, <1>4, <1>7, <1>8 DEF SliceNumberFree, Stage
<1>10. QED
  BY <1>1, <1>3, <1>6, <1>7, <1>9, SaveStages

LEMMA ReleaseStages ==
  ASSUME TInv, NEW w \in Worker, ReleaseTicket(w), Fresh(w), ~NoEffect(w)
  PROVE  StageSteps
<1> DEFINE row == [request[w].row EXCEPT !.slice = None]
<1>1. Serving(w, "release") /\ MayRelease(request[w].ticket, request[w].row)
      /\ ApplyStatus(w, row, "open")
  BY DEF ReleaseTicket
<1>2. PICK t \in Ticket : t = request[w].ticket
  BY <1>1, SavingFresh
<1>3. Exists(t) /\ request[w].row \in TicketRow /\ request[w].row.slice = tickets[t].slice
  BY <1>1, <1>2, SavingFresh
<1>4. row \in TicketRow /\ row.number = request[w].row.number
  BY <1>3 DEF TicketRow
<1>5. Stage(t) = "absorbed"
  BY <1>1, <1>2, <1>3, LinksAreLive DEF MayRelease, Stage
<1>6. <<Stage(t), "open">> \in Moves
  BY <1>5 DEF Moves
<1> HIDE DEF row
<1>7. QED
  BY <1>1, <1>2, <1>4, <1>6, StatusStages

LEMMA UpdateStages ==
  ASSUME TInv, NEW w \in Worker, UpdateTicket(w), Fresh(w), ~NoEffect(w), UpdatesAreTriage
  PROVE  StageSteps
<1>1. Serving(w, "update")
  BY DEF UpdateTicket
<1>2. PICK t \in Ticket : t = request[w].ticket
  BY <1>1, SavingFresh
<1>3. PICK status \in Status, a \in areas \cup {request[w].row.area} :
        LET row == [request[w].row EXCEPT !.area = a] IN
        \/ status = row.status /\ Save(w, row)
        \/ status \notin {row.status, "promoted"} /\ ApplyStatus(w, row, status)
  BY DEF UpdateTicket
<1> DEFINE row == [request[w].row EXCEPT !.area = a]
<1>4. request[w].row \in TicketRow /\ areas \subseteq Area
  BY <1>1, SavingFresh DEF TInv, IInv, TypeOK
<1>5. /\ row \in TicketRow /\ row.status = request[w].row.status
      /\ row.slice = request[w].row.slice /\ row.number = request[w].row.number
  BY <1>3, <1>4 DEF TicketRow
<1>6. CASE Save(w, row)
  <2>1. SaveRow(w, row, log[request[w].ticket])
    BY <1>6 DEF Save
  <2> HIDE DEF row
  <2>2. QED
    BY <1>1, <1>5, <2>1, SaveStages
<1>7. CASE status \notin {row.status, "promoted"} /\ ApplyStatus(w, row, status)
  <2>1. WithStatus(row, status).status = status
    BY <1>5, WithStatusFields
  <2>2. tickets' = [tickets EXCEPT ![t] = WithStatus(row, status)]
    BY <1>2, <1>7 DEF ApplyStatus, SaveRow
  <2>3. tickets'[t].status = status
    BY <1>2, <2>1, <2>2 DEF TInv, IInv, TypeOK
  <2>4. tickets[t].status = row.status
    BY <1>1, <1>2, <1>5, SavingFresh
  <2>5. tickets[t].status \in Triaged /\ status \in Triaged /\ "open" \in {tickets[t].status, status}
    BY <1>2, <1>7, <2>3, <2>4 DEF UpdatesAreTriage
  <2>6. Stage(t) = tickets[t].status /\ status # tickets[t].status
    BY <1>7, <2>4, <2>5 DEF Stage, Triaged
  <2>7. <<Stage(t), status>> \in Moves
    BY <2>5, <2>6 DEF Triaged, Moves
  <2> HIDE DEF row
  <2>8. QED
    BY <1>1, <1>2, <1>5, <1>7, <2>7, StatusStages
<1>8. QED
  BY <1>3, <1>6, <1>7

LEMMA CreateStages ==
  ASSUME TInv, NEW w \in Worker, FinishCreate(w)
  PROVE  StageSteps
<1> DEFINE row == [request[w].row EXCEPT !.status = "open", !.number = nextNumber]
<1>1. request[w].row \in TicketRow
  BY DEF TInv, IInv, TypeOK, Request
<1>2. CASE NoEffect(w)
  BY <1>2, DataStages DEF NoEffect
<1>3. ASSUME NEW t \in Ticket, ~Exists(t), tickets' = [tickets EXCEPT ![t] = row],
             UNCHANGED slices
      PROVE  StageSteps
  <2>1. row.status = "open"
    BY <1>1 DEF TicketRow
  <2>2. SlicesKept
    BY <1>3 DEF SlicesKept
  <2> HIDE DEF row
  <2>3. /\ \A u \in Ticket : u # t => Stage(u)' = Stage(u)
        /\ tickets'[t] = row
    BY <1>3, <2>2, RowStage
  <2>4. Stage(t) = "absent" /\ Stage(t)' = "open"
    BY <1>3, <2>1, <2>3 DEF Stage, Exists
  <2>5. QED
    BY <2>3, <2>4 DEF StageSteps, Moves
<1>4. QED
  BY <1>2, <1>3 DEF FinishCreate

LEMMA PromoteStages ==
  ASSUME TInv, NEW w \in Worker, PromoteTicket(w)
  PROVE  StageSteps
<1>1. PICK t \in Ticket : t = request[w].ticket
  BY ServingFaithful DEF PromoteTicket, TInv
<1> DEFINE row == tickets[t]
<1>2. row \in TicketRow
  BY DEF TInv, IInv, TypeOK
<1>3. CASE NoEffect(w)
  BY <1>3, DataStages DEF NoEffect
<1>4. ASSUME NEW a, Promotable(row, a), NEW s \in Slice, slices[s].state = "absent",
             slices' = [slices EXCEPT ![s] = NewSlice(a, row.number, t)],
             tickets' = [tickets EXCEPT ![t] = [WithStatus(row, "promoted") EXCEPT !.slice = s]]
      PROVE  StageSteps
  <2> DEFINE new == [WithStatus(row, "promoted") EXCEPT !.slice = s]
             made == NewSlice(a, row.number, t)
  <2>1. new.status = "promoted" /\ new.slice = s /\ new.number = row.number
    BY <1>2 DEF WithStatus, TicketRow
  <2>2. made.number = row.number
    BY DEF NewSlice
  <2>3. slices'[s] = made /\ \A x \in Slice : x # s => slices'[x] = slices[x]
    BY <1>4 DEF TInv, IInv, TypeOK
  <2>4. SlicesKept
    BY <1>4, <2>3 DEF SlicesKept, Live
  <2>5. tickets' = [tickets EXCEPT ![t] = new]
    BY <1>4
  <2> HIDE DEF new, made
  <2>6. /\ \A u \in Ticket : u # t => Stage(u)' = Stage(u)
        /\ tickets'[t] = new
    BY <2>4, <2>5, RowStage
  <2>7. Stage(t) = "open"
    BY <1>4 DEF Stage, Promotable
  <2>8. Stage(t)' = "origin"
    BY <2>1, <2>2, <2>3, <2>6, NoneAssumption DEF Stage, OriginTickets, Exists
  <2>9. QED
    BY <2>6, <2>7, <2>8 DEF StageSteps, Moves
<1>5. QED
  BY <1>1, <1>3, <1>4 DEF PromoteTicket, LockedRow

LEMMA CreateSliceStages ==
  ASSUME TInv, NEW w \in Worker, CreateSlice(w)
  PROVE  StageSteps
<1>1. PICK a \in areas, s \in Slice :
        /\ slices[s].state = "absent"
        /\ slices' = [slices EXCEPT ![s] = NewSlice(a, nextNumber, None)]
  BY DEF CreateSlice
<1>2. \A x \in Slice : Live(x) => slices'[x] = slices[x]
  BY <1>1 DEF TInv, IInv, TypeOK, Live
<1>3. \A u \in Ticket : Stage(u)' = Stage(u)
  BY <1>2, LinksAreLive, StageKept DEF CreateSlice
<1>4. QED
  BY <1>3 DEF StageSteps

LEMMA DeleteAreaStages ==
  ASSUME TInv, NEW w \in Worker, DeleteArea(w)
  PROVE  StageSteps
<1>1. PICK a \in areas :
        LET lost == {s \in Slice : Live(s) /\ slices[s].area = a} IN
        /\ slices' = [s \in Slice |->
                        IF s \in lost THEN DeletedRow ELSE slices[s]]
        /\ tickets' = [t \in Ticket |->
                        [tickets[t] EXCEPT
                            !.area = IF @ = a THEN None ELSE @,
                            !.slice = IF @ \in lost THEN None ELSE @]]
  BY DEF DeleteArea
<1> DEFINE lost == {s \in Slice : Live(s) /\ slices[s].area = a}
           stranded == {t \in Ticket : tickets[t].slice \in lost}
<1>2. \A s \in Slice \ lost : slices'[s] = slices[s]
  BY <1>1
<1>3. \A t \in Ticket : /\ tickets[t] \in TicketRow
                        /\ tickets'[t] = [tickets[t] EXCEPT
                              !.area = IF @ = a THEN None ELSE @,
                              !.slice = IF @ \in lost THEN None ELSE @]
  BY <1>1 DEF TInv, IInv, TypeOK
<1>4. \A s \in lost : s \in Slice /\ s # None
  BY NoneAssumption
<1> HIDE DEF lost
<1>5. \A t \in Ticket :
        /\ tickets'[t].status = tickets[t].status
        /\ tickets'[t].number = tickets[t].number
        /\ tickets'[t].slice = IF tickets[t].slice \in lost THEN None ELSE tickets[t].slice
  BY <1>3 DEF TicketRow
<1>6. ASSUME NEW t \in stranded
      PROVE  Stage(t) \in {"origin", "absorbed"} /\ Stage(t)' = "stranded"
  <2>1. t \in Ticket /\ tickets[t].slice # None /\ tickets[t].status = "promoted"
    BY <1>4, LinksAreLive
  <2>2. Stage(t) \in {"origin", "absorbed"}
    BY <2>1 DEF Stage
  <2>3. tickets'[t].status = "promoted" /\ tickets'[t].slice = None
    BY <1>5, <2>1
  <2>4. QED
    BY <2>2, <2>3 DEF Stage
<1>7. ASSUME NEW t \in Ticket \ stranded
      PROVE  Stage(t)' = Stage(t)
  <2>1. /\ tickets'[t].status = tickets[t].status
        /\ tickets'[t].number = tickets[t].number
        /\ tickets'[t].slice = tickets[t].slice
    BY <1>5
  <2>2. tickets[t].slice # None => slices'[tickets[t].slice] = slices[tickets[t].slice]
    BY <1>2, LinksAreLive
  <2>3. QED
    BY <2>1, <2>2 DEF Stage, OriginTickets, Exists
<1>8. stranded \in SUBSET Ticket
  OBVIOUS
<1> HIDE DEF stranded
<1>9. QED
  BY <1>6, <1>7, <1>8 DEF StageSteps

LEMMA EveryStageStep ==
  ASSUME TInv, [Next]_vars, [NoStaleSave /\ UpdatesAreTriage]_vars
  PROVE  StageSteps
<1>1. CASE UNCHANGED vars
  <2>1. UNCHANGED data
    BY <1>1 DEF vars, data
  <2>2. QED
    BY <2>1, DataStages
<1>2. ASSUME NEW w \in Worker, Handle(w), NoStaleSave, UpdatesAreTriage
      PROVE  StageSteps
  <2>1. CASE LoadTicket(w) \/ BeginCreate(w) \/ NoEffect(w)
    BY <2>1, DataStages DEF LoadTicket, BeginCreate, NoEffect
  <2>2. CASE FinishCreate(w) \/ CreateSlice(w) \/ PromoteTicket(w) \/ DeleteArea(w)
    BY <2>2, CreateStages, CreateSliceStages, PromoteStages, DeleteAreaStages
  <2>3. CASE Saves(w) /\ ~NoEffect(w)
    <3>1. Fresh(w)
      BY <1>2, <2>3 DEF NoStaleSave
    <3>2. QED
      BY <1>2, <2>3, <3>1, EditStages, UpdateStages, DismissStages, ReopenStages,
         AbsorbStages, ReleaseStages
      DEF Saves
  <2>4. QED
    BY <1>2, <2>1, <2>2, <2>3 DEF Handle, Saves
<1>3. QED
  BY <1>1, <1>2 DEF Next

LEMMA StepsImplement ==
  ASSUME StageSteps
  PROVE  [Lifecycle!Next]_Stages
<1> USE DEF Stages
<1>1. CASE \A u \in Ticket : Stage(u)' = Stage(u)
  BY <1>1
<1>2. ASSUME NEW t \in Ticket, <<Stage(t), Stage(t)'>> \in Moves,
             \A u \in Ticket : u # t => Stage(u)' = Stage(u)
      PROVE  Lifecycle!Next
  <2>1. PICK from, to : from = Stage(t) /\ to = Stage(t)'
    OBVIOUS
  <2>2. <<from, to>> \in Moves /\ Stages[t] = from
    BY <1>2, <2>1
  <2>3. Stages' = [Stages EXCEPT ![t] = to]
    BY <1>2, <2>1
  <2>4. <<from, to>> \in Moves /\ Stages[t] = from /\ Stages' = [Stages EXCEPT ![t] = to]
    BY <2>2, <2>3
  <2>5. Lifecycle!Move(t, from, to)
    BY <2>4 DEF Lifecycle!Move
  <2>6. QED
    BY <2>4, <2>5
    DEF Moves, Lifecycle!Next, Lifecycle!Capture, Lifecycle!Promote, Lifecycle!Absorb,
        Lifecycle!Release, Lifecycle!Resolve, Lifecycle!Reopen
<1>3. ASSUME NEW lost \in SUBSET Ticket,
             \A u \in lost : Stage(u) \in {"origin", "absorbed"} /\ Stage(u)' = "stranded",
             \A u \in Ticket \ lost : Stage(u)' = Stage(u)
      PROVE  Lifecycle!Next
  <2>1. Lifecycle!Strand(lost)
    BY <1>3 DEF Lifecycle!Strand
  <2>2. QED
    BY <2>1 DEF Lifecycle!Next
<1>4. QED
  BY <1>1, <1>2, <1>3 DEF StageSteps

\* Updates that keep to triage leave the status of linked tickets alone.
LEMMA TriageKeepsLinks ==
  ASSUME TInv, [NoStaleSave /\ UpdatesAreTriage]_vars
  PROVE  [Orderly]_vars
<1>1. ASSUME UpdatesAreTriage, NEW w \in Worker, UpdateTicket(w)
      PROVE  \/ tickets[request[w].ticket].slice = None
             \/ tickets'[request[w].ticket].status = tickets[request[w].ticket].status
  <2>1. request[w].ticket \in Ticket
    BY <1>1, ServingFaithful DEF UpdateTicket, TInv
  <2>2. tickets[request[w].ticket].status = "promoted"
          \/ tickets[request[w].ticket].slice = None
    BY <2>1 DEF TInv, LinksSound, LinkedArePromoted
  <2>3. QED
    BY <1>1, <2>2 DEF UpdatesAreTriage, Triaged
<1>2. QED
  BY <1>1 DEF Orderly, UpdatesKeepLinks

\* With no stale save, and updates that keep to triage, the rows, links and
\* workers of Tickets implement the lifecycle that triage promises for each
\* ticket.
THEOREM LifecycleImplemented ==
  Spec /\ [][NoStaleSave /\ UpdatesAreTriage]_vars => ImplementsLifecycle
<1>1. Init => Lifecycle!Init
  BY DEF Init, Lifecycle!Init, Stage, NoTicketRow
<1>2. TInv /\ [NoStaleSave /\ UpdatesAreTriage]_vars => [Orderly]_vars
  BY TriageKeepsLinks
<1>3. Init => TInv
  BY InitOrderly
<1>4. TInv /\ [Next]_vars /\ [Orderly]_vars => TInv'
  BY StepOrderly
<1>5. TInv /\ [Next]_vars /\ [NoStaleSave /\ UpdatesAreTriage]_vars => [Lifecycle!Next]_Stages
  BY EveryStageStep, StepsImplement
<1>6. QED
  BY <1>1, <1>2, <1>3, <1>4, <1>5, PTL DEF Spec, ImplementsLifecycle, Lifecycle!Spec, Stages


-----------------------------------------------------------------------------
(* Two ways to be orderly *)

\* No two workers have the same ticket in memory.
Apart ==
    \A v, w \in Worker :
        /\ v # w
        /\ request[v].kind = "loaded"
        /\ request[w].kind = "loaded"
        => request[v].ticket # request[w].ticket

\* A loaded row is the stored one, but for the link of a promoted ticket whose
\* slice has been deleted since.
Settled(w) ==
    \/ Fresh(w)
    \/ /\ request[w].row.status = tickets[request[w].ticket].status
       /\ request[w].row.status = "promoted"
       /\ tickets[request[w].ticket].slice = None
       /\ request[w].row.slice \in Slice
       /\ slices[request[w].row.slice].state = "deleted"

RowsSettled == \A w \in Worker : request[w].kind = "loaded" => Settled(w)

\* Whatever of a settled row is out of date, no service writes it back.
LEMMA SettledSavesFresh ==
    ASSUME TInv, RowsSettled, NEW w \in Worker, Saves(w)
    PROVE  NoEffect(w) \/ Fresh(w)
<1>1. Settled(w)
  BY DEF RowsSettled, Saves, EditTicket, UpdateTicket, DismissTicket, ReopenTicket,
         AbsorbTicket, ReleaseTicket, Serving
<1>2. SUFFICES ASSUME ~Fresh(w)
               PROVE  NoEffect(w)
  OBVIOUS
<1>3. /\ request[w].row.status = "promoted"
      /\ request[w].row.slice \in Slice
      /\ ~Live(request[w].row.slice)
  BY <1>1, <1>2 DEF Settled, Live
<1>4. request[w].row.slice # None
  BY <1>3, NoneAssumption
<1>5. request[w].row \in TicketRow
  BY DEF TInv, IInv, TypeOK, Request
<1>6. CASE EditTicket(w)
  BY <1>3, <1>4, <1>6 DEF EditTicket, Save, SaveRow, ReferencesHold
<1>7. CASE UpdateTicket(w)
  <2>1. PICK status \in Status, a \in areas \cup {request[w].row.area} :
          LET row == [request[w].row EXCEPT !.area = a] IN
          \/ status = row.status /\ Save(w, row)
          \/ status \notin {row.status, "promoted"} /\ ApplyStatus(w, row, status)
          \/ status # row.status /\ status = "promoted" /\ NoEffect(w)
    BY <1>7 DEF UpdateTicket
  <2> DEFINE row == [request[w].row EXCEPT !.area = a]
  <2>2. row.slice = request[w].row.slice /\ WithStatus(row, status).slice = request[w].row.slice
    BY <1>5 DEF WithStatus, TicketRow
  <2>3. ~ReferencesHold(row) /\ ~ReferencesHold(WithStatus(row, status))
    BY <2>2, <1>3, <1>4 DEF ReferencesHold
  <2>4. CASE Save(w, row)
    BY <2>3, <2>4 DEF Save, SaveRow
  <2>5. CASE ApplyStatus(w, row, status)
    BY <2>3, <2>5 DEF ApplyStatus, SaveRow
  <2> QED
    BY <2>1, <2>4, <2>5
<1>8. CASE DismissTicket(w)
  BY <1>3, <1>8 DEF DismissTicket
<1>9. CASE ReopenTicket(w)
  BY <1>3, <1>9 DEF ReopenTicket, Reopens
<1>10. CASE AbsorbTicket(w)
  BY <1>3, <1>10 DEF AbsorbTicket
<1>11. CASE ReleaseTicket(w)
  BY <1>3, <1>11 DEF ReleaseTicket, MayRelease
<1> QED
  BY <1>6, <1>7, <1>8, <1>9, <1>10, <1>11 DEF Saves

\* What a worker does to the data outside area deletion leaves other tickets,
\* and slices that have been deleted, as they are.
LEMMA OthersUntouched ==
    ASSUME TInv, Apart, NEW w \in Worker, Handle(w), ~DeleteArea(w),
           NEW v \in Worker, v # w, request[v].kind = "loaded"
    PROVE  /\ tickets'[request[v].ticket] = tickets[request[v].ticket]
           /\ \A s \in Slice : slices[s].state = "deleted" => slices'[s] = slices[s]
<1>1. PICK u \in Ticket : u = request[v].ticket /\ Exists(u)
  BY DEF TInv, IInv, RequestsSound
<1>2. /\ tickets \in [Ticket -> TicketRow]
      /\ slices \in [Slice -> SliceRow]
  BY DEF TInv, IInv, TypeOK
<1>3. request[w].kind = "loaded" => request[w].ticket # u
  BY <1>1 DEF Apart
<1>4. ASSUME NoEffect(w)
      PROVE  tickets' = tickets /\ slices' = slices
  BY <1>4 DEF NoEffect, data
<1>5. ASSUME request[w].kind = "loaded", NEW row, NEW status, SaveRow(w, row, status)
      PROVE  tickets'[u] = tickets[u] /\ slices' = slices
  BY <1>5, <1>1, <1>2, <1>3, <1>4 DEF SaveRow
<1>6. CASE LoadTicket(w) \/ BeginCreate(w)
  BY <1>6, <1>1 DEF LoadTicket, BeginCreate, data
<1>7. CASE FinishCreate(w)
  BY <1>7, <1>1, <1>2, <1>4 DEF FinishCreate
<1>8. CASE CreateSlice(w)
  BY <1>8, <1>1, <1>2 DEF CreateSlice
<1>9. CASE EditTicket(w)
  BY <1>9, <1>1, <1>5 DEF EditTicket, Save, Serving
<1>10. CASE UpdateTicket(w)
  BY <1>10, <1>1, <1>4, <1>5 DEF UpdateTicket, Save, ApplyStatus, Serving
<1>11. CASE DismissTicket(w)
  BY <1>11, <1>1, <1>4, <1>5 DEF DismissTicket, ApplyStatus, Serving
<1>12. CASE ReopenTicket(w)
  BY <1>12, <1>1, <1>4, <1>5 DEF ReopenTicket, ApplyStatus, Serving
<1>13. CASE AbsorbTicket(w)
  BY <1>13, <1>1, <1>4, <1>5 DEF AbsorbTicket, ApplyStatus, Serving
<1>14. CASE ReleaseTicket(w)
  BY <1>14, <1>1, <1>4, <1>5 DEF ReleaseTicket, ApplyStatus, Serving
<1>15. CASE PromoteTicket(w)
  <2>1. request[w].kind = "loaded"
    BY <1>15 DEF PromoteTicket, Serving
  <2>2. CASE NoEffect(w)
    BY <2>2, <1>1, <1>4
  <2>3. CASE ~NoEffect(w)
    <3>1. PICK a : \E s \in Slice :
            /\ slices[s].state = "absent"
            /\ slices' = [slices EXCEPT ![s] =
                             NewSlice(a, LockedRow(w).number, request[w].ticket)]
            /\ tickets' = [tickets EXCEPT ![request[w].ticket] =
                             [WithStatus(LockedRow(w), "promoted") EXCEPT !.slice = s]]
      BY <1>15, <2>3, Zenon DEF PromoteTicket
    <3> QED
      BY <3>1, <1>1, <1>2, <1>3, <2>1
  <2> QED
    BY <2>2, <2>3
<1> QED
  BY <1>6, <1>7, <1>8, <1>9, <1>10, <1>11, <1>12, <1>13, <1>14, <1>15 DEF Handle

\* A worker only ever changes its own request, and what it loads is current.
LEMMA OwnRequest ==
    ASSUME TInv, NEW w \in Worker, Handle(w), NEW v \in Worker, request'[v].kind = "loaded"
    PROVE  \/ v # w /\ request'[v] = request[v]
           \/ /\ LoadTicket(w)
              /\ request'[v].row = tickets[request'[v].ticket]
              /\ tickets' = tickets
<1>1. request \in [Worker -> Request]
  BY DEF TInv, IInv, TypeOK
<1>2. ASSUME Respond(w)
      PROVE  v # w /\ request'[v] = request[v]
  BY <1>1, <1>2 DEF Respond, Idle
<1>3. CASE LoadTicket(w)
  <2>1. PICK t \in Ticket : request' = [request EXCEPT ![w] =
                        [kind |-> "loaded", ticket |-> t, row |-> tickets[t]]]
    BY <1>3 DEF LoadTicket
  <2>2. tickets' = tickets
    BY <1>3 DEF LoadTicket, data
  <2> QED
    BY <1>1, <1>3, <2>1, <2>2
<1>4. CASE BeginCreate(w)
  <2>1. PICK row : request' = [request EXCEPT ![w] =
                        [kind |-> "create", ticket |-> None, row |-> row]]
    BY <1>4 DEF BeginCreate
  <2> QED
    BY <1>1, <2>1
<1>5. CASE ~LoadTicket(w) /\ ~BeginCreate(w)
  <2>1. ASSUME NEW row, NEW status, SaveRow(w, row, status)
        PROVE  Respond(w)
    BY <2>1 DEF SaveRow, NoEffect
  <2>2. Respond(w)
    <3>1. CASE FinishCreate(w)
      BY <3>1 DEF FinishCreate, NoEffect
    <3>2. CASE CreateSlice(w) \/ DeleteArea(w)
      BY <3>2 DEF CreateSlice, DeleteArea
    <3>3. CASE EditTicket(w) \/ UpdateTicket(w)
      BY <3>3, <2>1 DEF EditTicket, UpdateTicket, Save, ApplyStatus, NoEffect
    <3>4. CASE DismissTicket(w) \/ ReopenTicket(w)
      BY <3>4, <2>1 DEF DismissTicket, ReopenTicket, ApplyStatus, NoEffect
    <3>5. CASE AbsorbTicket(w) \/ ReleaseTicket(w)
      BY <3>5, <2>1 DEF AbsorbTicket, ReleaseTicket, ApplyStatus, NoEffect
    <3>6. CASE PromoteTicket(w)
      BY <3>6 DEF PromoteTicket, NoEffect
    <3> QED
      BY <1>5, <3>1, <3>2, <3>3, <3>4, <3>5, <3>6 DEF Handle
  <2> QED
    BY <1>2, <2>2
<1> QED
  BY <1>3, <1>4, <1>5

LEMMA DeleteAreaSettles ==
    ASSUME TInv, NEW w \in Worker, DeleteArea(w),
           NEW v \in Worker, request[v].kind = "loaded", Settled(v),
           request'[v] = request[v]
    PROVE  Settled(v)'
<1>1. PICK u \in Ticket : u = request[v].ticket
  BY DEF TInv, IInv, RequestsSound
<1>2. PICK a \in areas :
        LET lost == {s \in Slice : Live(s) /\ slices[s].area = a} IN
        /\ slices' = [s \in Slice |-> IF s \in lost THEN DeletedRow ELSE slices[s]]
        /\ tickets' = [t \in Ticket |->
                        [tickets[t] EXCEPT
                            !.area = IF @ = a THEN None ELSE @,
                            !.slice = IF @ \in lost THEN None ELSE @]]
  BY DEF DeleteArea
<1> DEFINE lost == {s \in Slice : Live(s) /\ slices[s].area = a}
<1>3. tickets[u] \in TicketRow /\ \A s \in Slice : slices[s] \in SliceRow
  BY DEF TInv, IInv, TypeOK
<1>4. /\ tickets'[u].status = tickets[u].status
      /\ tickets'[u].slice = IF tickets[u].slice \in lost THEN None ELSE tickets[u].slice
  BY <1>2, <1>3 DEF TicketRow
<1>5. \A s \in Slice : s \in lost \/ slices[s].state = "deleted" => slices'[s].state = "deleted"
  BY <1>2, <1>3 DEF DeletedRow, NoSliceRow
<1>6. tickets[u].slice # None => tickets[u].status = "promoted"
  BY DEF TInv, LinksSound, LinkedArePromoted
<1>7. lost \subseteq Slice
  OBVIOUS
<1> HIDE DEF lost
<1>8. CASE Fresh(v)
  BY <1>1, <1>4, <1>5, <1>6, <1>7, <1>8, NoneAssumption DEF Fresh, Settled
<1>9. CASE ~Fresh(v)
  <2>1. tickets[u].slice = None /\ tickets'[u].slice = None
    BY <1>1, <1>4, <1>9 DEF Settled
  <2> QED
    BY <1>1, <1>4, <1>5, <1>9, <2>1 DEF Settled
<1> QED
  BY <1>8, <1>9

LEMMA HandleSettles ==
    ASSUME TInv, RowsSettled, Apart, NEW w \in Worker, Handle(w)
    PROVE  RowsSettled'
<1> SUFFICES ASSUME NEW v \in Worker, request'[v].kind = "loaded"
             PROVE  Settled(v)'
  BY DEF RowsSettled
<1>1. \/ v # w /\ request'[v] = request[v]
      \/ /\ LoadTicket(w)
         /\ request'[v].row = tickets[request'[v].ticket]
         /\ tickets' = tickets
  BY OwnRequest
<1>2. CASE request'[v].row = tickets[request'[v].ticket] /\ tickets' = tickets
  BY <1>2 DEF Settled, Fresh
<1>3. CASE v # w /\ request'[v] = request[v]
  <2>1. request[v].kind = "loaded" /\ Settled(v)
    BY <1>3 DEF RowsSettled
  <2>2. CASE DeleteArea(w)
    BY <1>3, <2>1, <2>2, DeleteAreaSettles
  <2>3. CASE ~DeleteArea(w)
    <3>1. /\ tickets'[request[v].ticket] = tickets[request[v].ticket]
          /\ \A s \in Slice : slices[s].state = "deleted" => slices'[s] = slices[s]
      BY <1>3, <2>1, <2>3, OthersUntouched
    <3> QED
      BY <1>3, <2>1, <3>1 DEF Settled, Fresh
  <2> QED
    BY <2>2, <2>3
<1> QED
  BY <1>1, <1>2, <1>3

\* Workers that keep apart save no stale row, and leave the invariant to the
\* updates.
LEMMA ApartStep ==
    ASSUME TInv, RowsSettled, Apart, [Next]_vars
    PROVE  [NoStaleSave]_vars /\ RowsSettled'
<1>1. [NoStaleSave]_vars
  BY SettledSavesFresh DEF NoStaleSave
<1>2. CASE UNCHANGED vars
  BY <1>1, <1>2 DEF vars, RowsSettled, Settled, Fresh
<1>3. CASE Next
  BY <1>1, <1>3, HandleSettles DEF Next
<1> QED
  BY <1>2, <1>3

LEMMA InitSettled == Init => RowsSettled
  BY DEF Init, Idle, RowsSettled

\* Workers that never have the same ticket in memory never write back a status
\* or a link that has changed since they read it, whatever areas are deleted
\* under them: the services refuse a promoted row whose slice is gone.
THEOREM SeparateTicketsSaveFresh ==
    Spec /\ []Apart /\ [][UpdatesKeepLinks]_vars => [][NoStaleSave]_vars
<1>1. Init => TInv /\ RowsSettled
  BY InitOrderly, InitSettled
<1>2. TInv /\ RowsSettled /\ Apart /\ [Next]_vars => [NoStaleSave]_vars /\ RowsSettled'
  BY ApartStep
<1>3. [NoStaleSave]_vars /\ [UpdatesKeepLinks]_vars => [Orderly]_vars
  BY DEF Orderly
<1>4. TInv /\ [Next]_vars /\ [Orderly]_vars => TInv'
  BY StepOrderly
<1> QED
  BY <1>1, <1>2, <1>3, <1>4, PTL DEF Spec

\* A server that takes one request at a time, and one that only creates,
\* promotes and deletes, is orderly while nothing calls update_ticket.  So the
\* theorems above hold of a web server with one worker, and RefFollowsWork and
\* its companions of any number of workers that promote at the same time.
THEOREM SerialServersAreOrderly ==
    ASSUME "update" \notin Operation,
           \/ \A v, w \in Worker : v = w
           \/ Operation \cap {"edit", "dismiss", "reopen", "absorb", "release"} = {}
    PROVE  Spec => [][Orderly]_vars /\ [][UpdatesAreTriage]_vars
<1>1. [UpdatesKeepLinks]_vars /\ [UpdatesAreTriage]_vars
  BY DEF UpdatesKeepLinks, UpdatesAreTriage, UpdateTicket, Serving
<1>2. CASE \A v, w \in Worker : v = w
  <2>1. Apart
    BY <1>2 DEF Apart
  <2>2. [NoStaleSave]_vars /\ [UpdatesKeepLinks]_vars => [Orderly]_vars
    BY DEF Orderly
  <2> QED
    BY <1>1, <2>1, <2>2, SeparateTicketsSaveFresh, PTL
<1>3. CASE Operation \cap {"edit", "dismiss", "reopen", "absorb", "release"} = {}
  <2>1. [Orderly]_vars
    BY <1>1, <1>3 DEF Orderly, NoStaleSave, Saves, EditTicket, UpdateTicket, DismissTicket,
                      ReopenTicket, AbsorbTicket, ReleaseTicket, Serving
  <2> QED
    BY <1>1, <2>1, PTL
<1> QED
  BY <1>2, <1>3
=============================================================================
