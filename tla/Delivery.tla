------------------------------ MODULE Delivery ------------------------------
(***************************************************************************)
(* The work of one org after triage: areas, slices, plans and bites as the *)
(* pages (web/views) and the MCP tools (core/mcp/server.py) change them    *)
(* through the services, the activity those changes leave, and the         *)
(* Get-started checklist derived from them.                                *)
(*                                                                         *)
(* As in Tickets, a request loads a row in one autocommit statement and    *)
(* hands that row, which may be stale by then, to a service.  The services *)
(* differ in what they save:                                               *)
(*   - update_slice, update_bite and update_plan call save(): an UPDATE of *)
(*     every column and, when the row is gone, an INSERT of it;            *)
(*   - the others save named columns, and fail when the row is gone.       *)
(* A service's transaction is one step.  Services without a transaction    *)
(* are one step that may stop after any of their statements.               *)
(*                                                                         *)
(* Titles, bodies, ranks, assignees and timestamps are abstracted away: a  *)
(* spec keeps whether it is empty, completed_at whether it is set, the     *)
(* tags whether "someday" is among them.                                   *)
(***************************************************************************)
EXTENDS Naturals, FiniteSets, Sequences

CONSTANTS
    Worker,       \* the workers serving requests
    Area, Slice, Plan, Bite,   \* primary keys (never reused)
    Key,          \* external keys agents send with create_slice
    None,         \* Python's None, SQL's NULL, an empty key
    Seeds,        \* the databases the runs start from
    MaxRequests   \* Bound: requests that may change the work

RowState == {"absent", "live", "deleted"}
SliceStatuses == {"planned", "building", "shipped", "dropped"}
BiteStatuses == {"todo", "doing", "done", "dropped"}
Actor == {"human", "agent"}

SliceRow == [state : RowState, area : Area \cup {None}, status : SliceStatuses,
             spec : BOOLEAN, completed : BOOLEAN, key : Key \cup {None}]
PlanRow == [state : RowState, slice : Slice \cup {None}]
BiteRow == [state : RowState, plan : Plan \cup {None}, status : BiteStatuses]

\* The tables.  reported[s] is the status the activity log last gave for s,
\* announced the areas and bites it calls deleted, connected whether it has an
\* event of an agent; completed and dismissed are the org's onboarding flags.
Database == [area : [Area -> RowState], slice : [Slice -> SliceRow],
             plan : [Plan -> PlanRow], bite : [Bite -> BiteRow],
             someday : SUBSET Slice,
             reported : [Slice -> SliceStatuses \cup {None}],
             announced : SUBSET (Area \cup Bite),
             connected : BOOLEAN, completed : BOOLEAN, dismissed : BOOLEAN]

NoSlice == [state |-> "absent", area |-> None, status |-> "planned",
            spec |-> FALSE, completed |-> FALSE, key |-> None]
NoPlan == [state |-> "absent", slice |-> None]
NoBite == [state |-> "absent", plan |-> None, status |-> "todo"]

LiveArea(d, a) == a \in Area /\ d.area[a] = "live"
LiveSlices(d) == {s \in Slice : d.slice[s].state = "live"}
LivePlans(d) == {p \in Plan : d.plan[p].state = "live"}
LiveBites(d) == {b \in Bite : d.bite[b].state = "live"}
SlicesOf(d, a) == {s \in LiveSlices(d) : d.slice[s].area = a}
PlansOf(d, s) == {p \in LivePlans(d) : d.plan[p].slice = s}
BitesOf(d, p) == {b \in LiveBites(d) : d.bite[b].plan = p}
SliceBites(d, s) == {b \in LiveBites(d) : d.bite[b].plan \in PlansOf(d, s)}

\* The foreign keys, all of them ON DELETE CASCADE.
NoOrphansIn(d) ==
    /\ \A s \in LiveSlices(d) : LiveArea(d, d.slice[s].area)
    /\ \A p \in LivePlans(d) : d.plan[p].slice \in LiveSlices(d)
    /\ \A b \in LiveBites(d) : d.bite[b].plan \in LivePlans(d)

CompletedIn(row) == row.completed <=> row.status = "shipped"

ASSUME NoneAssumption == None \notin Area \cup Slice \cup Plan \cup Bite \cup Key
ASSUME FiniteAssumption == IsFiniteSet(Slice) /\ IsFiniteSet(Plan) /\ IsFiniteSet(Bite)
ASSUME BoundAssumption == MaxRequests \in Nat
ASSUME SeedAssumption ==
    \A d \in Seeds :
        /\ d \in Database /\ NoOrphansIn(d)
        /\ \A s \in Slice : CompletedIn(d.slice[s])
        /\ \A s \in LiveSlices(d) : d.reported[s] = d.slice[s].status
        /\ \A s \in Slice : d.slice[s].state = "absent" => d.slice[s] = NoSlice
        /\ \A s, t \in LiveSlices(d) :
               s # t => d.slice[s].key # d.slice[t].key \/ d.slice[s].key = None
        /\ \A a \in Area : d.area[a] # "deleted"
        /\ \A b \in Bite : d.bite[b].state # "deleted"
        /\ d.announced = {} /\ ~d.completed /\ ~d.dismissed

VARIABLES
    db,          \* the tables
    request,     \* request[w]: what worker w has in memory
    served,      \* how many requests that may change the work have begun
    overlapped,  \* ghost: a request has begun while another one was served
    checklist    \* ghost: what the pages have shown of the checklist so far

vars == <<db, request, served, overlapped, checklist>>

Idle == [kind |-> "idle", id |-> None, row |-> None]

Request ==
    {Idle} \cup [kind : {"area"}, id : Area, row : {None}]
           \cup [kind : {"slice", "rerun", "promoted"}, id : Slice, row : SliceRow]
           \cup [kind : {"tags"}, id : Slice, row : SliceRow, someday : BOOLEAN]
           \cup [kind : {"keyed"}, id : Area, row : SliceRow]
           \cup [kind : {"plan"}, id : Plan, row : PlanRow]
           \cup [kind : {"bite"}, id : Bite, row : BiteRow]
           \cup [kind : {"page"}, id : {None}, row : {None}]

TypeOK ==
    /\ db \in Database
    /\ request \in [Worker -> Request]
    /\ served \in 0..MaxRequests
    /\ overlapped \in BOOLEAN
    /\ checklist \in {"unseen", "gone", "returned"}

-----------------------------------------------------------------------------
(* Serving a request *)

\* A worker takes a request up, having run its first query.
Take(w, loaded) ==
    /\ request[w].kind = "idle"
    /\ request' = [request EXCEPT ![w] = loaded]
    /\ overlapped' = (overlapped \/ \E v \in Worker \ {w} : request[v].kind # "idle")
    /\ UNCHANGED <<db, checklist>>

Begin(w, loaded) ==
    /\ served < MaxRequests
    /\ served' = served + 1
    /\ Take(w, loaded)

\* ... and ends it: new is committed if every statement succeeded, and the
\* transaction is rolled back if one failed.
Attempt(w, ok, new) ==
    /\ db' = IF ok THEN new ELSE db
    /\ request' = [request EXCEPT ![w] = Idle]
    /\ UNCHANGED <<served, overlapped, checklist>>

Serving(w, kind) == request[w].kind = kind

\* get_area(), get_area_by_slug(), get_slice(), get_plan(), get_bite(): 404
\* unless the row and its chain of parents exist.
LoadArea(w) ==
    \E a \in Area : LiveArea(db, a) /\ Begin(w, [kind |-> "area", id |-> a, row |-> None])
LoadSlice(w) ==
    \E s \in LiveSlices(db) :
        Begin(w, [kind |-> "slice", id |-> s, row |-> db.slice[s]])
LoadPlan(w) ==
    \E p \in LivePlans(db) :
        Begin(w, [kind |-> "plan", id |-> p, row |-> db.plan[p]])

LoadBite(w) ==
    \E b \in LiveBites(db) :
        Begin(w, [kind |-> "bite", id |-> b, row |-> db.bite[b]])

\* slice_tags() reads the tags after the slice.
LoadTags(w) ==
    /\ Serving(w, "slice")
    /\ request' = [request EXCEPT ![w] =
           [kind |-> "tags", id |-> request[w].id, row |-> request[w].row,
            someday |-> request[w].id \in db.someday]]
    /\ UNCHANGED <<db, served, overlapped, checklist>>

\* record_activity(): the first event of an agent connects it.
Heard(actor) == db.connected \/ actor = "agent"

\* A request that loads nothing first.
Answer(w, new) ==
    /\ served < MaxRequests
    /\ request[w].kind = "idle"
    /\ db' = new
    /\ served' = served + 1
    /\ overlapped' = (overlapped \/ \E v \in Worker \ {w} : request[v].kind # "idle")
    /\ UNCHANGED <<request, checklist>>

\* Bound: an INSERT that finds no primary key left fails.
Fresh(rows) == {x \in DOMAIN rows : rows[x].state = "absent"}
FreshAreas == {a \in Area : db.area[a] = "absent"}
NextKey(fresh) == CHOOSE x \in fresh : TRUE
NextKeys(fresh, n) ==
    CHOOSE pk \in [1..n -> fresh] : \A i, j \in 1..n : pk[i] = pk[j] => i = j

-----------------------------------------------------------------------------
(* Areas *)

\* create_area(): the INSERT, then the event; the server may fail in between.
CreateArea(w, actor) ==
    \E told \in BOOLEAN :
        Answer(w, IF FreshAreas = {} THEN db ELSE
                  [db EXCEPT !.area[NextKey(FreshAreas)] = "live",
                             !.connected = @ \/ (told /\ actor = "agent")])

\* What goes with an area, a plan or a bite.
WithoutBites(d, gone) ==
    [d EXCEPT !.bite = [b \in Bite |-> IF b \in gone
                        THEN [NoBite EXCEPT !.state = "deleted", !.plan = d.bite[b].plan]
                        ELSE d.bite[b]]]

WithoutPlans(d, gone) ==
    [WithoutBites(d, {b \in LiveBites(d) : d.bite[b].plan \in gone}) EXCEPT
        !.plan = [p \in Plan |-> IF p \in gone
                  THEN [NoPlan EXCEPT !.state = "deleted"] ELSE d.plan[p]]]

\* Mutant: the rows of the area's slices stay.
CascadeOfPlansOnly(d, a) ==
    [WithoutPlans(d, {p \in LivePlans(d) : d.plan[p].slice \in SlicesOf(d, a)}) EXCEPT
        !.area[a] = "deleted"]

WithoutArea(d, a) ==
    [WithoutPlans(d, {p \in LivePlans(d) : d.plan[p].slice \in SlicesOf(d, a)}) EXCEPT
        !.area[a] = "deleted",
        !.slice = [s \in Slice |-> IF s \in SlicesOf(d, a)
                   THEN [NoSlice EXCEPT !.state = "deleted"] ELSE d.slice[s]],
        !.someday = @ \ SlicesOf(d, a)]

\* delete_area(): the event commits, then the deletion unless it fails.  Once
\* the area is gone, deleting it again only repeats the event.
DeleteArea(w) ==
    LET a == request[w].id
        told == [db EXCEPT !.announced = @ \cup {a}]
    IN  \E failed \in BOOLEAN :
            Attempt(w, TRUE, IF failed \/ ~LiveArea(db, a) THEN told ELSE WithoutArea(told, a))

-----------------------------------------------------------------------------
(* Slices *)

\* The tags after slice_.tags.set(), or as they were.
Retag(s, tags) ==
    CASE tags = "keep" -> db.someday
      [] tags = "someday" -> db.someday \cup {s}
      [] tags = "other" -> db.someday \ {s}

\* Mutant: completed_at is set when a slice ships and never cleared.
StatusKeepingCompleted(row, status) ==
    [row EXCEPT !.status = status, !.completed = @ \/ status = "shipped"]

\* _apply_status()
WithStatus(row, status) ==
    [row EXCEPT !.status = status, !.completed = status = "shipped"]

\* Mutant: the status of a new slice is not checked.
InsertUnchecked(w, row, status, tags, actor) ==
    LET s == NextKey(Fresh(db.slice)) IN
    Attempt(w, LiveArea(db, row.area) /\ Fresh(db.slice) # {},
            [db EXCEPT !.slice[s] = [WithStatus(row, status) EXCEPT !.state = "live"],
                       !.reported[s] = status])

\* create_slice(), from the allocation of the number on: one transaction.
Insertable(row, status) ==
    status \in SliceStatuses /\ LiveArea(db, row.area) /\ Fresh(db.slice) # {}
NewRow(row, status) == [WithStatus(row, status) EXCEPT !.state = "live"]
WithSlice(row, status, tags, actor) ==
    LET s == NextKey(Fresh(db.slice)) IN
    [db EXCEPT !.slice[s] = NewRow(row, status), !.someday = Retag(s, tags),
               !.reported[s] = status, !.connected = Heard(actor)]

InsertSlice(w, row, status, tags, actor) ==
    Attempt(w, Insertable(row, status), WithSlice(row, status, tags, actor))

\* update_slice(): the whole in-memory row is saved, tags and event with it.
UpdateSlice(w, spec, status, tags, actor) ==
    LET s == request[w].id
        old == request[w].row
        edited == [old EXCEPT !.spec = IF spec = "keep" THEN @ ELSE spec = "text"]
        told == status \notin {"keep", old.status}
    IN  Attempt(w, status \in SliceStatuses \cup {"keep"} /\ LiveArea(db, old.area),
            [db EXCEPT !.slice[s] = IF status = "keep" THEN edited ELSE WithStatus(edited, status),
                       !.someday = Retag(s, tags),
                       !.reported[s] = IF told THEN status ELSE @,
                       !.connected = @ \/ (told /\ actor = "agent")])

\* Mutant: the status is saved together with every other column.
SetStatusSavingAll(w, status) == UpdateSlice(w, "keep", status, "keep", "human")

\* Mutant: the status is set without an event.
SetStatusSilently(w, status) ==
    Attempt(w, status \in SliceStatuses /\ db.slice[request[w].id].state = "live",
            [db EXCEPT !.slice[request[w].id] = WithStatus(@, status)])

\* set_slice_status(): saves status and completed_at; the event reads the area
\* the row in memory points to.
SetSliceStatus(w, status) ==
    LET s == request[w].id
        old == request[w].row
        told == status # old.status
    IN  Attempt(w, /\ status \in SliceStatuses /\ db.slice[s].state = "live"
                   /\ told => LiveArea(db, old.area),
            [db EXCEPT !.slice[s] = WithStatus(@, status),
                       !.reported[s] = IF told THEN status ELSE @])

\* Mutant: the area is saved together with every other column.
SetAreaSavingAll(w, a) ==
    LET s == request[w].id
        old == request[w].row
    IN  Attempt(w, LiveArea(db, old.area) /\ LiveArea(db, a),
            [db EXCEPT !.slice[s] = [old EXCEPT !.area = a]])

\* set_slice_area(): saves the area (and the rank).
SetSliceArea(w, a) ==
    LET s == request[w].id IN
    Attempt(w, /\ LiveArea(db, request[w].row.area) /\ LiveArea(db, a)
               /\ db.slice[s].state = "live",
            [db EXCEPT !.slice[s].area = a])

-----------------------------------------------------------------------------
(* Plans and bites *)

\* create_plan(): the INSERT, then the event.
CreatePlan(w, actor) ==
    LET p == NextKey(Fresh(db.plan)) IN
    \E told \in BOOLEAN :
        Attempt(w, request[w].id \in LiveSlices(db) /\ Fresh(db.plan) # {},
                [db EXCEPT !.plan[p] = [state |-> "live", slice |-> request[w].id],
                           !.connected = @ \/ (told /\ actor = "agent")])

\* update_plan(): save(), then the event, if anything changed.
UpdatePlan(w, actor) ==
    \E changed, told \in BOOLEAN :
        Attempt(w, changed /\ request[w].row.slice \in LiveSlices(db),
                [db EXCEPT !.plan[request[w].id] = request[w].row,
                           !.connected = @ \/ (told /\ actor = "agent")])

\* delete_plan()
DeletePlan(w) ==
    Attempt(w, request[w].id \in LivePlans(db), WithoutPlans(db, {request[w].id}))

\* create_bite(), once for each item of add_bites() until one of them fails.
AddBites(w, statuses, actor) ==
    \E n \in 0..Len(statuses) :
        /\ \A i \in 1..n : statuses[i] \in BiteStatuses
        /\ n <= Cardinality(Fresh(db.bite))
        /\ LET pk == NextKeys(Fresh(db.bite), n) IN
            Attempt(w, n > 0 /\ request[w].id \in LivePlans(db),
                 [db EXCEPT !.bite = [b \in Bite |->
                      IF \E i \in 1..n : pk[i] = b
                      THEN [state |-> "live", plan |-> request[w].id,
                            status |-> statuses[CHOOSE i \in 1..n : pk[i] = b]]
                      ELSE db.bite[b]],
                  !.connected = Heard(actor)])

\* update_bite(): the whole in-memory row is saved.
UpdateBite(w, status, actor) ==
    LET old == request[w].row
        told == status \notin {"keep", old.status}
    IN  Attempt(w, status \in BiteStatuses \cup {"keep"} /\ old.plan \in LivePlans(db),
            [db EXCEPT !.bite[request[w].id] =
                           [old EXCEPT !.status = IF status = "keep" THEN @ ELSE status],
                       !.connected = @ \/ (told /\ actor = "agent")])

\* set_bite_status(): saves the status.
SetBiteStatus(w, status) ==
    Attempt(w, request[w].id \in LiveBites(db),
            [db EXCEPT !.bite[request[w].id].status = status])

\* delete_bite(): the event commits (it reads the bite's plan), then the deletion.
DeleteBite(w) ==
    LET b == request[w].id
        told == [db EXCEPT !.announced = @ \cup {b}]
    IN  \E failed \in BOOLEAN :
            Attempt(w, request[w].row.plan \in LivePlans(db),
                    IF failed THEN told ELSE WithoutBites(told, {b} \cap LiveBites(db)))

-----------------------------------------------------------------------------
(* Pages: the handlers of web/views that change the work *)

AreaCreateView(w) == CreateArea(w, "human")
AreaDeleteView(w) == Serving(w, "area") /\ DeleteArea(w)

\* area_slice_create(): the posted status may be any string.
AreaSliceCreateView(w) ==
    /\ Serving(w, "area")
    /\ \E status \in SliceStatuses \cup {"bad"}, spec \in BOOLEAN, tags \in {"keep", "someday"} :
        InsertSlice(w, [NoSlice EXCEPT !.area = request[w].id, !.spec = spec],
                    status, tags, "human")

\* ticket_promote(), promote_ticket(): a new planned slice, or the one the
\* ticket already has, or neither if the ticket was dismissed.  (What becomes
\* of the ticket is Tickets' subject.)
TicketPromoteView(w) ==
    LET row == [NoSlice EXCEPT !.area = request[w].id] IN
    /\ Serving(w, "area")
    /\ \/ \E s \in LiveSlices(db) :
              /\ request' = [request EXCEPT ![w] =
                     [kind |-> "promoted", id |-> s, row |-> db.slice[s]]]
              /\ UNCHANGED db
       \/ /\ Insertable(row, "planned")
          /\ request' = [request EXCEPT ![w] =
                 [kind |-> "promoted", id |-> NextKey(Fresh(db.slice)),
                  row |-> NewRow(row, "planned")]]
          /\ db' = WithSlice(row, "planned", "keep", "human")
       \/ Attempt(w, FALSE, db)
    /\ UNCHANGED <<served, overlapped, checklist>>

\* ... then, in a transaction of its own, the status asked for, unless the
\* server fails first.
TicketPromoteStatus(w) ==
    /\ Serving(w, "promoted")
    /\ \/ Attempt(w, TRUE, db)
       \/ \E status \in SliceStatuses :
             status # request[w].row.status /\ SetSliceStatus(w, status)

SliceStatusView(w) ==
    /\ Serving(w, "slice")
    /\ \E status \in SliceStatuses \cup {"bad"} : SetSliceStatus(w, status)

\* slice_move(): a drop in the same column changes no status.
SliceMoveView(w) ==
    /\ Serving(w, "slice")
    /\ \E status \in SliceStatuses \cup {"bad"} :
        \/ status # request[w].row.status /\ SetSliceStatus(w, status)
        \/ status = request[w].row.status /\ Attempt(w, TRUE, db)

SliceEditView(w) ==
    /\ Serving(w, "slice")
    /\ \E spec \in {"keep", "blank", "text"} : UpdateSlice(w, spec, "keep", "keep", "human")

SliceReassignView(w) ==
    /\ Serving(w, "slice")
    /\ \E a \in Area : SetSliceArea(w, a)

\* slice_tags(): the names read before, with one added or removed.
SliceTagsView(w) ==
    /\ Serving(w, "tags")
    /\ \/ \E tags \in {"someday", "other"} : UpdateSlice(w, "keep", "keep", tags, "human")
       \/ UpdateSlice(w, "keep", "keep",
                      IF request[w].someday THEN "someday" ELSE "other", "human")

PlanCreateView(w) == Serving(w, "slice") /\ CreatePlan(w, "human")
PlanEditView(w) == Serving(w, "plan") /\ UpdatePlan(w, "human")
PlanDeleteView(w) == Serving(w, "plan") /\ DeletePlan(w)

BiteCreateView(w) == Serving(w, "plan") /\ AddBites(w, <<"todo">>, "human")
BiteToggleView(w) ==
    /\ Serving(w, "bite")
    /\ SetBiteStatus(w, IF request[w].row.status = "done" THEN "todo" ELSE "done")
BiteBodyView(w) == Serving(w, "bite") /\ UpdateBite(w, "keep", "human")
BiteEditView(w) == Serving(w, "bite") /\ UpdateBite(w, "keep", "human")
BiteDeleteView(w) == Serving(w, "bite") /\ DeleteBite(w)

-----------------------------------------------------------------------------
(* Agents: the tools of core/mcp/server.py that change the work *)

CreateAreaTool(w) == CreateArea(w, "agent")
PromoteTicketTool(w) ==
    /\ Serving(w, "area")
    /\ \/ InsertSlice(w, [NoSlice EXCEPT !.area = request[w].id], "planned", "keep", "agent")
       \/ Attempt(w, TRUE, db)
AddNoteTool(w) ==
    /\ Serving(w, "slice")
    /\ Attempt(w, LiveArea(db, request[w].row.area), [db EXCEPT !.connected = TRUE])

CreatePlanTool(w) == Serving(w, "slice") /\ CreatePlan(w, "agent")
UpdatePlanTool(w) == Serving(w, "plan") /\ UpdatePlan(w, "agent")

\* Mutant: create_slice() does not look its key up.
LookUpNothing(key) == {}
\* The slice create_slice() finds by its external key.
WithKey(key) == {s \in LiveSlices(db) : key # None /\ db.slice[s].key = key}

\* create_slice(): the lookup.  Nothing makes the key unique in the table.
CreateSliceTool(w) ==
    /\ Serving(w, "area")
    /\ \E key \in Key \cup {None} :
        LET found == WithKey(key) IN
        /\ request' = [request EXCEPT ![w] =
               IF found = {}
               THEN [kind |-> "keyed", id |-> request[w].id,
                     row |-> [NoSlice EXCEPT !.area = request[w].id, !.key = key]]
               ELSE [kind |-> "rerun", id |-> NextKey(found),
                     row |-> db.slice[NextKey(found)]]]
        /\ UNCHANGED <<db, served, overlapped, checklist>>

\* ... and the INSERT, or the update of the slice found: never its status, and
\* its spec only if one was sent.
CreateSliceInsert(w) ==
    /\ Serving(w, "keyed")
    /\ \E status \in SliceStatuses \cup {"bad"}, spec \in BOOLEAN, tags \in {"keep", "someday"} :
        InsertSlice(w, [request[w].row EXCEPT !.spec = spec], status, tags, "agent")
CreateSliceRerun(w) ==
    /\ Serving(w, "rerun")
    /\ \E spec \in {"keep", "text"}, tags \in {"keep", "someday", "other"} :
        UpdateSlice(w, spec, "keep", tags, "agent")

UpdateSliceTool(w) ==
    /\ Serving(w, "slice")
    /\ \E spec \in {"keep", "blank", "text"}, status \in SliceStatuses \cup {"keep", "bad"},
          tags \in {"keep", "someday", "other"} :
        UpdateSlice(w, spec, status, tags, "agent")

AddBitesTool(w) ==
    /\ Serving(w, "plan")
    /\ \E statuses \in {<<s>> : s \in BiteStatuses \cup {"bad"}}
                       \cup {<<"todo", "done">>, <<"done", "dropped">>, <<"todo", "bad">>} :
        AddBites(w, statuses, "agent")

UpdateBiteTool(w) ==
    /\ Serving(w, "bite")
    /\ \E status \in BiteStatuses \cup {"keep", "bad"} : UpdateBite(w, status, "agent")

-----------------------------------------------------------------------------
(* The Get-started checklist *)

\* onboarding_state(): the five steps.
OnboardingSteps(d) ==
    << \E a \in Area : LiveArea(d, a), LiveSlices(d) # {}, LivePlans(d) # {},
       LiveBites(d) # {}, d.connected >>
OnboardingDone(d) == \A i \in 1..5 : OnboardingSteps(d)[i]

\* The context processor onboarding() ends early once a flag is set ...
PageWithoutChecklist(w) ==
    /\ request[w].kind = "idle"
    /\ db.completed \/ db.dismissed
    /\ UNCHANGED vars

\* ... judged on the org the middleware loaded.
LoadPage(w) ==
    /\ ~db.completed /\ ~db.dismissed
    /\ Take(w, [kind |-> "page", id |-> None, row |-> None])
    /\ UNCHANGED served

\* Mutant: completion is shown but not stored.
RenderForgetfully(w) ==
    /\ Serving(w, "page")
    /\ db' = db
    /\ checklist' = IF OnboardingDone(db) THEN "gone"
                    ELSE IF checklist = "gone" THEN "returned" ELSE checklist
    /\ request' = [request EXCEPT ![w] = Idle]
    /\ UNCHANGED <<served, overlapped>>

\* The rest of onboarding(): a complete checklist is stored as completed and
\* not shown, an incomplete one is shown.
RenderPage(w) ==
    /\ Serving(w, "page")
    /\ db' = [db EXCEPT !.completed = @ \/ OnboardingDone(db)]
    /\ checklist' = IF OnboardingDone(db) THEN "gone"
                    ELSE IF checklist = "gone" THEN "returned" ELSE checklist
    /\ request' = [request EXCEPT ![w] = Idle]
    /\ UNCHANGED <<served, overlapped>>

DismissOnboarding(w) ==
    /\ request[w].kind = "idle"
    /\ db' = [db EXCEPT !.dismissed = TRUE]
    /\ checklist' = IF checklist = "returned" THEN "returned" ELSE "gone"
    /\ overlapped' = (overlapped \/ \E v \in Worker \ {w} : request[v].kind # "idle")
    /\ UNCHANGED <<request, served>>

-----------------------------------------------------------------------------
Init ==
    /\ db \in Seeds
    /\ request = [w \in Worker |-> Idle]
    /\ served = 0
    /\ overlapped = FALSE
    /\ checklist = "unseen"

Load(w) == LoadArea(w) \/ LoadSlice(w) \/ LoadPlan(w) \/ LoadBite(w) \/ LoadTags(w)

AreaStep(w) == AreaCreateView(w) \/ CreateAreaTool(w) \/ AreaDeleteView(w)

SliceStep(w) ==
    \/ AreaSliceCreateView(w) \/ TicketPromoteView(w) \/ TicketPromoteStatus(w)
    \/ PromoteTicketTool(w) \/ CreateSliceTool(w) \/ CreateSliceInsert(w) \/ CreateSliceRerun(w)
    \/ SliceStatusView(w) \/ SliceMoveView(w) \/ SliceEditView(w) \/ SliceReassignView(w)
    \/ SliceTagsView(w) \/ UpdateSliceTool(w) \/ AddNoteTool(w)

PlanStep(w) ==
    \/ PlanCreateView(w) \/ CreatePlanTool(w)
    \/ PlanEditView(w) \/ UpdatePlanTool(w) \/ PlanDeleteView(w)

BiteStep(w) ==
    \/ BiteCreateView(w) \/ AddBitesTool(w) \/ BiteToggleView(w) \/ BiteBodyView(w)
    \/ BiteEditView(w) \/ UpdateBiteTool(w) \/ BiteDeleteView(w)

PageStep(w) ==
    PageWithoutChecklist(w) \/ LoadPage(w) \/ RenderPage(w) \/ DismissOnboarding(w)

Next == \E w \in Worker :
    Load(w) \/ AreaStep(w) \/ SliceStep(w) \/ PlanStep(w) \/ BiteStep(w) \/ PageStep(w)

Spec == Init /\ [][Next]_vars

-----------------------------------------------------------------------------
(* Properties *)

\* completed_at is set exactly while a slice is shipped, in the table and in
\* every row a worker holds, so no full-row save can part the two columns
\* (_apply_status, update_slice, set_slice_status).
CompletedAgrees ==
    /\ \A s \in Slice : CompletedIn(db.slice[s])
    /\ \A w \in Worker : request[w].kind \in {"slice", "tags", "rerun", "keyed", "promoted"}
                            => CompletedIn(request[w].row)

\* No slice, plan or bite outlives what it belongs to, although requests that
\* loaded it before an area or a plan was deleted still save it (delete_area
\* and delete_plan cascade; the foreign keys refuse the rest).
NoOrphans == NoOrphansIn(db)

\* The activity log tells what happened to the rows.  It announces every area
\* that is gone, even if the server failed half way through a deletion.  While
\* requests do not overlap, it announces every bite deleted by itself, and the
\* last status it gave for a slice is the slice's status, whichever service
\* changed it (delete_area, delete_bite, create_slice, update_slice,
\* set_slice_status).
LogTellsWhatHappened ==
    /\ \A a \in Area : db.area[a] = "deleted" => a \in db.announced
    /\ ~overlapped =>
           /\ \A s \in LiveSlices(db) : db.reported[s] = db.slice[s].status
           /\ \A b \in Bite : db.bite[b].state = "deleted" /\ db.bite[b].plan \in LivePlans(db)
                                  => b \in db.announced

\* While requests do not overlap, an external key names one slice: a re-run of
\* an agent updates in place (create_slice; only its lookup says so).
OneSlicePerKey ==
    ~overlapped => \A s, t \in LiveSlices(db) :
        s # t /\ db.slice[s].key # None => db.slice[s].key # db.slice[t].key

\* "Deleting an Area after finishing never resurrects the checklist": once the
\* pages have shown it complete, or it was dismissed, and while requests do not
\* overlap, no page shows it again (onboarding, dismiss_onboarding).
ChecklistNeverReturns == ~overlapped => checklist # "returned"

\* What the request goes by is still so in the tables.
Holds(r) ==
    /\ r.kind \in {"slice", "tags", "rerun", "promoted"} =>
          /\ db.slice[r.id].state = "live"
          /\ db.slice[r.id].status = r.row.status
          /\ db.slice[r.id].key = r.row.key
    /\ r.kind = "plan" => db.plan[r.id].state = "live"
    /\ r.kind = "bite" => db.bite[r.id].state = "live"
    /\ r.kind = "keyed" => \A s \in LiveSlices(db) :
                              r.row.key # None => db.slice[s].key # r.row.key
    /\ r.kind = "page" => ~db.completed /\ ~db.dismissed

\* slice_set_status() asked for the status its request read: no event.
SetSameStatus(w) == Serving(w, "slice") /\ SetSliceStatus(w, request[w].row.status)

\* The steps that write what an earlier query of their request read, or decide by
\* it.  The others write columns of their own, or read again in the transaction.
Saves(w) ==
    \/ CreateSliceInsert(w) \/ CreateSliceRerun(w) \/ SliceEditView(w) \/ UpdateSliceTool(w)
    \/ SliceTagsView(w) \/ SetSameStatus(w) \/ PlanEditView(w) \/ UpdatePlanTool(w)
    \/ BiteBodyView(w) \/ BiteEditView(w) \/ UpdateBiteTool(w) \/ RenderPage(w)

StatusesTold(d) == \A s \in LiveSlices(d) : d.reported[s] = d.slice[s].status

BitesTold(d) == \A b \in Bite : d.bite[b].state = "deleted" =>
    /\ d.bite[b].plan \in LivePlans(d) => b \in d.announced
    /\ d.bite[b].plan \in Plan /\ d.plan[d.bite[b].plan].state # "absent"

KeysApart(d) == \A s, t \in LiveSlices(d) :
    s # t /\ d.slice[s].key # None => d.slice[s].key # d.slice[t].key

InOrder(d) == StatusesTold(d) /\ BitesTold(d) /\ KeysApart(d)

NothingReturns(d, new) ==
    /\ \A s \in Slice : d.slice[s].state = "deleted" => new.slice[s].state = "deleted"
    /\ \A p \in Plan : d.plan[p].state = "deleted" => new.plan[p].state = "deleted"
    /\ \A b \in Bite : d.bite[b].state = "deleted" => new.bite[b].state = "deleted"

\* Nothing has been left untold or doubled, and the checklist has not come back.
Calm == InOrder(db) /\ checklist # "returned"
StaysCalm == Calm' /\ NothingReturns(db, db')

\* However requests overlap, nothing but a stale save does harm.  A step that
\* brings a deleted slice, plan or bite back, leaves a status or the deletion of
\* a bite untold, gives two slices one external key or shows the checklist again
\* is a step of Saves whose request no longer holds what the tables hold: the
\* whole-row saves of update_slice, update_plan and update_bite, create_slice
\* after its lookup, a status set to the one in memory, and the onboarding
\* context processor.  The status buttons, moves, toggles, promotions and
\* deletions do none of it, however old the row they loaded.
OnlyStaleSavesHarm ==
    [][Calm => StaysCalm \/ \E w \in Worker : Saves(w) /\ ~Holds(request[w])]_vars

\* The status buttons and the toggle take back nothing else, however old the
\* row they loaded: a slice keeps its area and spec, and no bite comes back
\* (set_slice_status and set_bite_status save named columns).
StatusSaveKeepsTheRest ==
    [][\A w \in Worker :
          /\ SliceStatusView(w) \/ SliceMoveView(w) =>
                 \A s \in Slice : /\ db'.slice[s].area = db.slice[s].area
                                  /\ db'.slice[s].spec = db.slice[s].spec
                                  /\ db'.slice[s].state = db.slice[s].state
          /\ BiteToggleView(w) => LiveBites(db') = LiveBites(db)]_vars

=============================================================================
