------------------------------ MODULE Tickets ------------------------------
(***************************************************************************)
(* Triage of one org's tickets: the services in core/services/tickets.py,  *)
(* the number allocator and create_slice they share with slices, and the   *)
(* area deletion that cascades into both tables.                           *)
(*                                                                         *)
(* A request is served by a Worker (a gunicorn thread or an MCP tool       *)
(* call).  It first loads the ticket with an autocommit SELECT and later   *)
(* calls a service on that in-memory row.  Nothing is locked in between    *)
(* (ATOMIC_REQUESTS is off), and Model.save() writes every column back, so *)
(* the service works on a row that may be stale.  Only promote_ticket      *)
(* reads the row again, under SELECT ... FOR UPDATE.                       *)
(*                                                                         *)
(* Each service's own transaction is one step: the row locks it takes (the *)
(* org row for a number, the ticket row for a promotion) serialise it with *)
(* the other writers of those rows, and a rollback changes nothing.        *)
(* Titles, bodies, ranks, actors and timestamps are abstracted away; a     *)
(* timestamp column keeps whether it is set.                               *)
(***************************************************************************)
EXTENDS Naturals, FiniteSets

CONSTANTS
    Worker,     \* the workers serving requests; one of them is a serial server
    Ticket,     \* primary keys of core_ticket (never reused)
    Slice,      \* primary keys of core_slice (never reused)
    Area,       \* primary keys of the areas that exist at the start
    Key,        \* external keys agents send with create_ticket
    Operation,  \* the operations requests may ask for
    None        \* Python's None / SQL's NULL

AllOperations == {"create", "edit", "update", "dismiss", "reopen", "promote",
                  "absorb", "release", "create_slice", "delete_area"}

ASSUME NoneAssumption == None \notin Ticket \cup Slice \cup Area \cup Key
ASSUME OperationAssumption == Operation \subseteq AllOperations

Status == {"open", "promoted", "dismissed", "duplicate"}
ResolvedStatus == Status \ {"open"}

TicketRow == [status : Status \cup {"absent"}, number : Nat,
              area : Area \cup {None}, slice : Slice \cup {None},
              resolved : BOOLEAN, key : Key \cup {None}]

SliceRow == [state : {"absent", "live", "deleted"}, number : Nat,
             area : Area \cup {None}, origin : Ticket \cup {None}]

Request == [kind : {"idle", "create", "loaded"}, ticket : Ticket \cup {None},
            row : TicketRow]

NoTicketRow == [status |-> "absent", number |-> 0, area |-> None,
                slice |-> None, resolved |-> FALSE, key |-> None]
NoSliceRow == [state |-> "absent", number |-> 0, area |-> None, origin |-> None]
DeletedRow == [NoSliceRow EXCEPT !.state = "deleted"]

VARIABLES
    tickets,     \* tickets[t]: the row of t; status "absent" before INSERT
    slices,      \* slices[s]: the row of s; origin is a ghost, the ticket
                 \* whose promotion created s
    areas,       \* the areas that have not been deleted
    nextNumber,  \* Org.next_slice_number
    log,         \* log[t]: the status the activity log last reported for t
    request      \* request[w]: what worker w has in memory

data == <<tickets, slices, areas, nextNumber, log>>
vars == <<tickets, slices, areas, nextNumber, log, request>>

TypeOK ==
    /\ tickets \in [Ticket -> TicketRow]
    /\ slices \in [Slice -> SliceRow]
    /\ areas \subseteq Area
    /\ nextNumber \in Nat
    /\ log \in [Ticket -> Status \cup {"absent"}]
    /\ request \in [Worker -> Request]

Exists(t) == tickets[t].status # "absent"
Live(s) == slices[s].state = "live"

\* Bound: the INSERT of a request that finds no primary key left fails.
TicketLeft == \E t \in Ticket : ~Exists(t)
SliceLeft == \E s \in Slice : slices[s].state = "absent"

-----------------------------------------------------------------------------
(* Database constraints and lookups *)

\* Mutant: the columns lose their foreign keys.
ReferencesUnchecked(row) == TRUE

\* The foreign keys of a ticket row, checked when its transaction commits.
ReferencesHold(row) ==
    /\ row.area \in areas \cup {None}
    /\ row.slice # None => Live(row.slice)

\* Mutant: create_ticket() neither looks the key up nor has a constraint on it.
KeyUnchecked(key) == TRUE

\* The lookup by external key, and uniq_ticket_external_key_per_org.
KeyFree(key) == key # None => \A t \in Ticket : Exists(t) => tickets[t].key # key

\* uniq_slice_number_per_org
SliceNumberFree(n) == \A s \in Slice : Live(s) => slices[s].number # n

\* origin_ticket(slice): the linked ticket that gave the slice its number.
OriginTickets(s) ==
    {t \in Ticket : /\ Exists(t)
                    /\ tickets[t].slice = s
                    /\ tickets[t].number = slices[s].number}

\* resolve_ref(ref): the slice with that number, else where the ticket went.
ResolveRef(n) ==
    LET made == {s \in Slice : Live(s) /\ slices[s].number = n}
        captured == {t \in Ticket : Exists(t) /\ tickets[t].number = n}
    IN  IF made # {} THEN made
        ELSE {IF tickets[t].slice = None THEN t ELSE tickets[t].slice : t \in captured}

-----------------------------------------------------------------------------
(* The request lifecycle of a worker *)

Idle == [kind |-> "idle", ticket |-> None, row |-> NoTicketRow]

Respond(w) == request' = [request EXCEPT ![w] = Idle]

\* The handler answers without having written anything: the service returned
\* early, raised InvalidValue, or its transaction was rolled back.
NoEffect(w) == Respond(w) /\ UNCHANGED data

Serving(w, operation) == operation \in Operation /\ request[w].kind = "loaded"

\* get_ticket(): the row in memory from here on.
LoadTicket(w) ==
    /\ request[w].kind = "idle"
    /\ \E t \in Ticket :
        /\ Exists(t)
        /\ request' = [request EXCEPT ![w] =
                        [kind |-> "loaded", ticket |-> t, row |-> tickets[t]]]
    /\ UNCHANGED data

\* ticket.save(): every column of the in-memory row replaces the stored one,
\* unless a foreign key fails.  status is what the log says of t afterwards.
SaveRow(w, row, status) ==
    LET t == request[w].ticket IN
    \/ /\ ReferencesHold(row)
       /\ tickets' = [tickets EXCEPT ![t] = row]
       /\ log' = [log EXCEPT ![t] = status]
       /\ Respond(w)
       /\ UNCHANGED <<slices, areas, nextNumber>>
    \/ ~ReferencesHold(row) /\ NoEffect(w)

Save(w, row) == SaveRow(w, row, log[request[w].ticket])

\* Mutants: a status change that forgets resolved_at, or stores no known status.
StatusLeavingTimestamp(row, status) == [row EXCEPT !.status = status]
StatusOutsideChoices(row, status) ==
    [row EXCEPT !.status = IF status = "open" THEN "open" ELSE "closed",
                !.resolved = status \in ResolvedStatus]

\* _apply_status(): status and resolved_at change together...
WithStatus(row, status) ==
    [row EXCEPT !.status = status, !.resolved = status \in ResolvedStatus]

\* Mutant: the change is saved without its activity event.
ApplyStatusSilently(w, row, status) == Save(w, WithStatus(row, status))
\* ... and the save and its activity event commit together.
ApplyStatus(w, row, status) == SaveRow(w, WithStatus(row, status), status)

-----------------------------------------------------------------------------
(* Creation *)

\* create_ticket(), up to a lookup by external key that finds nothing (a hit
\* returns the row it found).  Web captures send no key.
BeginCreate(w) ==
    /\ "create" \in Operation
    /\ request[w].kind = "idle"
    /\ TicketLeft
    /\ \E key \in Key \cup {None}, a \in areas \cup {None} :
        /\ KeyFree(key)
        /\ request' = [request EXCEPT ![w] =
                        [kind |-> "create", ticket |-> None,
                         row |-> [NoTicketRow EXCEPT !.area = a, !.key = key]]]
    /\ UNCHANGED data

\* create_ticket()'s transaction: number, INSERT, event.
FinishCreate(w) ==
    LET row == [request[w].row EXCEPT !.status = "open", !.number = nextNumber] IN
    /\ request[w].kind = "create"
    /\ \/ /\ KeyFree(row.key) /\ ReferencesHold(row)
          /\ \E t \in Ticket :
              /\ ~Exists(t)
              /\ tickets' = [tickets EXCEPT ![t] = row]
              /\ log' = [log EXCEPT ![t] = "open"]
          /\ nextNumber' = nextNumber + 1
          /\ Respond(w)
          /\ UNCHANGED <<slices, areas>>
       \/ ~(KeyFree(row.key) /\ ReferencesHold(row) /\ TicketLeft) /\ NoEffect(w)

NewSlice(a, n, t) == [state |-> "live", number |-> n, area |-> a, origin |-> t]

\* Mutant: allocate_number() does not store the advanced counter.
CreateSliceKeepingCounter(w) ==
    /\ "create_slice" \in Operation
    /\ request[w].kind = "idle"
    /\ SliceNumberFree(nextNumber)
    /\ \E a \in areas, s \in Slice :
        /\ slices[s].state = "absent"
        /\ slices' = [slices EXCEPT ![s] = NewSlice(a, nextNumber, None)]
    /\ Respond(w)
    /\ UNCHANGED <<tickets, areas, nextNumber, log>>

\* create_slice() for a slice that starts without a ticket.
CreateSlice(w) ==
    /\ "create_slice" \in Operation
    /\ request[w].kind = "idle"
    /\ SliceNumberFree(nextNumber)
    /\ \E a \in areas, s \in Slice :
        /\ slices[s].state = "absent"
        /\ slices' = [slices EXCEPT ![s] = NewSlice(a, nextNumber, None)]
    /\ nextNumber' = nextNumber + 1
    /\ Respond(w)
    /\ UNCHANGED <<tickets, areas, log>>

-----------------------------------------------------------------------------
(* Triage *)

\* Autosave of a title or a body: update_ticket() without a status.
EditTicket(w) == Serving(w, "edit") /\ Save(w, request[w].row)

\* The MCP tool update_ticket: any status but "promoted", and an area.
UpdateTicket(w) ==
    /\ Serving(w, "update")
    /\ \E status \in Status, a \in areas \cup {request[w].row.area} :
        LET row == [request[w].row EXCEPT !.area = a] IN
        \/ status = row.status /\ Save(w, row)
        \/ status \notin {row.status, "promoted"} /\ ApplyStatus(w, row, status)
        \/ status # row.status /\ status = "promoted" /\ NoEffect(w)

\* resolve_ticket(ticket, "dismissed"), the only resolution the web asks for.
DismissTicket(w) ==
    LET row == request[w].row IN
    /\ Serving(w, "dismiss")
    /\ \/ row.status = "open" /\ ApplyStatus(w, row, "dismissed")
       \/ row.status # "open" /\ NoEffect(w)

\* Mutant: reopen_ticket() also reopens a promoted ticket.
ReopensAnything(status) == status # "open"
\* reopen_ticket(): only a dismissed or duplicate ticket goes back.
Reopens(status) == status \notin {"open", "promoted"}

ReopenTicket(w) ==
    LET row == request[w].row IN
    /\ Serving(w, "reopen")
    /\ \/ Reopens(row.status) /\ ApplyStatus(w, row, "open")
       \/ ~Reopens(row.status) /\ NoEffect(w)

\* Mutant: promote_ticket() trusts the row the handler loaded.
LoadedRow(w) == request[w].row
\* The row promote_ticket() works on: read again under the row lock.
LockedRow(w) == tickets[request[w].ticket]

\* A linked ticket already has its slice, only open ones get a new one, and the
\* INSERT still has to satisfy the area's foreign key and the unique number.
Promotable(row, a) ==
    /\ row.slice = None
    /\ row.status = "open"
    /\ a \in areas
    /\ SliceNumberFree(row.number)

\* promote_ticket() with the area the request chose, or else the ticket's own.
PromoteTicket(w) ==
    LET t == request[w].ticket
        row == LockedRow(w)
    IN
    /\ Serving(w, "promote")
    /\ \E chosen \in Area \cup {None} :
        LET a == IF chosen = None THEN row.area ELSE chosen IN
        \/ /\ Promotable(row, a)
           /\ \E s \in Slice :
               /\ slices[s].state = "absent"
               /\ slices' = [slices EXCEPT ![s] = NewSlice(a, row.number, t)]
               /\ tickets' = [tickets EXCEPT ![t] =
                                [WithStatus(row, "promoted") EXCEPT !.slice = s]]
           /\ log' = [log EXCEPT ![t] = "promoted"]
           /\ Respond(w)
           /\ UNCHANGED <<areas, nextNumber>>
        \/ ~(Promotable(row, a) /\ SliceLeft) /\ NoEffect(w)

\* absorb_ticket() into a slice that still exists when the link is saved.
AbsorbTicket(w) ==
    LET row == request[w].row IN
    /\ Serving(w, "absorb")
    /\ \E into \in {s \in Slice : Live(s)} :
        \/ /\ row.slice # into /\ row.status = "open"
           /\ ApplyStatus(w, [row EXCEPT !.slice = into], "promoted")
        \/ (row.slice = into \/ row.status # "open") /\ NoEffect(w)

\* Mutant: release_ticket() does not ask whether the ticket is the origin.
MayReleaseOrigin(t, row) == row.slice # None /\ Live(row.slice)

\* release_ticket(): the link in memory, its origin looked up in the database.
MayRelease(t, row) ==
    /\ row.slice # None
    /\ Live(row.slice)
    /\ t \notin OriginTickets(row.slice)

ReleaseTicket(w) ==
    LET row == request[w].row IN
    /\ Serving(w, "release")
    /\ \/ /\ MayRelease(request[w].ticket, row)
          /\ ApplyStatus(w, [row EXCEPT !.slice = None], "open")
       \/ ~MayRelease(request[w].ticket, row) /\ NoEffect(w)

-----------------------------------------------------------------------------
\* delete_area(): slices go with the area (CASCADE); the tickets stay and lose
\* both references (SET_NULL), in the one transaction of Collector.delete().
DeleteArea(w) ==
    /\ "delete_area" \in Operation
    /\ request[w].kind = "idle"
    /\ \E a \in areas :
        LET lost == {s \in Slice : Live(s) /\ slices[s].area = a} IN
        /\ areas' = areas \ {a}
        /\ slices' = [s \in Slice |->
                        IF s \in lost THEN DeletedRow ELSE slices[s]]
        /\ tickets' = [t \in Ticket |->
                        [tickets[t] EXCEPT
                            !.area = IF @ = a THEN None ELSE @,
                            !.slice = IF @ \in lost THEN None ELSE @]]
    /\ Respond(w)
    /\ UNCHANGED <<nextNumber, log>>

-----------------------------------------------------------------------------
Init ==
    /\ tickets = [t \in Ticket |-> NoTicketRow]
    /\ slices = [s \in Slice |-> NoSliceRow]
    /\ areas = Area
    /\ nextNumber = 1
    /\ log = [t \in Ticket |-> "absent"]
    /\ request = [w \in Worker |-> Idle]

Handle(w) ==
    \/ LoadTicket(w)
    \/ BeginCreate(w)
    \/ FinishCreate(w)
    \/ CreateSlice(w)
    \/ EditTicket(w)
    \/ UpdateTicket(w)
    \/ DismissTicket(w)
    \/ ReopenTicket(w)
    \/ PromoteTicket(w)
    \/ AbsorbTicket(w)
    \/ ReleaseTicket(w)
    \/ DeleteArea(w)

Next == \E w \in Worker : Handle(w)

Spec == Init /\ [][Next]_vars

-----------------------------------------------------------------------------
(* What holds however many workers interleave *)

\* No write, however stale the row it saves, leaves a ticket pointing at a
\* slice or an area that has been deleted (domain.py, on_delete=SET_NULL).
NoDanglingReference ==
    \A t \in Ticket :
        /\ tickets[t].area \in areas \cup {None}
        /\ tickets[t].slice # None => Live(tickets[t].slice)

\* A ref names one piece of work: two live rows share a number only when one
\* is a ticket and the other the slice its promotion created, even though
\* tickets and slices draw on one counter and a slice may inherit a number.
RefNamesOneWork ==
    /\ \A t1, t2 \in Ticket :
        Exists(t1) /\ Exists(t2) /\ tickets[t1].number = tickets[t2].number => t1 = t2
    /\ \A s1, s2 \in Slice :
        Live(s1) /\ Live(s2) /\ slices[s1].number = slices[s2].number => s1 = s2
    /\ \A t \in Ticket, s \in Slice :
        Exists(t) /\ Live(s) /\ tickets[t].number = slices[s].number => slices[s].origin = t

\* "external_key makes re-runs idempotent" (create_ticket), concurrent retries
\* of the same key included.
OneTicketPerKey ==
    \A t1, t2 \in Ticket :
        tickets[t1].key # None /\ tickets[t1].key = tickets[t2].key => t1 = t2

\* Every stored and every in-memory ticket has resolved_at set exactly when its
\* status is a resolved one, so no stale save can trip the CHECK constraint.
ResolvedAgrees ==
    /\ \A t \in Ticket : tickets[t].resolved <=> tickets[t].status \in ResolvedStatus
    /\ \A w \in Worker : request[w].row.resolved <=> request[w].row.status \in ResolvedStatus

-----------------------------------------------------------------------------
(* What holds when no stale row is written back *)

\* A ref follows the work: resolve_ref() of any ticket's number answers the
\* slice the ticket is linked to, or the ticket itself while it has none.
RefFollowsWork ==
    \A t \in Ticket :
        Exists(t) => ResolveRef(tickets[t].number) =
                        {IF tickets[t].slice = None THEN t ELSE tickets[t].slice}

\* Everything in the Inbox can still be promoted: no slice holds the number an
\* unlinked open ticket would hand on (release_ticket and reopen_ticket refuse
\* origins for this reason).
InboxIsPromotable ==
    \A t \in Ticket :
        tickets[t].status = "open" /\ tickets[t].slice = None
            => SliceNumberFree(tickets[t].number)

\* A repeated promotion is answered with the slice the first one made; it never
\* reaches the INSERT and its unique constraint (promote_ticket's docstring).
PromotionNeverClashes ==
    \A w \in Worker :
        LET row == LockedRow(w) IN
        request[w].kind = "loaded" /\ row.slice = None /\ row.status = "open"
            => SliceNumberFree(row.number)

\* The activity log tells the truth: the last status it reports for a ticket is
\* the ticket's status.
LogAgreesWithRow == \A t \in Ticket : log[t] = tickets[t].status

\* A ticket whose slice carries its number stays promoted as long as that slice
\* lives ("This ENDS the Ticket's lifecycle", promote_ticket).
PromotionIsFinal ==
    [][\A s \in Slice : \A t \in OriginTickets(s) :
        tickets[t].status = "promoted" /\ Live(s)'
            => tickets'[t].status = "promoted" /\ tickets'[t].slice = s]_vars

\* The triage lifecycle the services promise, ticket by ticket.
Stage(t) ==
    LET row == tickets[t] IN
    IF row.status # "promoted" THEN row.status
    ELSE IF row.slice = None THEN "stranded"
    ELSE IF t \in OriginTickets(row.slice) THEN "origin"
    ELSE "absorbed"

Lifecycle == INSTANCE TicketLifecycle WITH stage <- [t \in Ticket |-> Stage(t)]

\* Seen one ticket at a time, a server that finishes each request before the
\* next takes only the lifecycle's steps.
ImplementsLifecycle == Lifecycle!Spec
=============================================================================
