# Formal model of tuck-it

tuck-it is a Django application in which people and coding agents share one
tracker per organisation: tickets are captured into an Inbox and triaged into
slices, slices carry plans and bites, and a dashboard shows what changes. People
use server-rendered pages (htmx); agents use MCP tools. Both end in the same
service functions under `src/tuckit/core/services/`.

This directory holds TLA+ modules translated from that code, TLC configurations
that check them on small instances, and TLAPS proofs of the results that matter
most. `PROJECT.json` maps each definition to the lines it models and lists the
components, runs, mutants, hazards, findings and theorems.

## 1. Inventory

### How the program runs

Requests are served by threads or processes of a WSGI/ASGI server; MCP tools run
in threads through `sync_to_async`. `ATOMIC_REQUESTS` is off. A handler therefore
is a sequence of autocommit statements, with `transaction.atomic()` only inside
some services. Typically it

1. checks membership (`TenantMiddleware`, or the token of an MCP call),
2. loads rows (`get_ticket`, `get_slice`, `_member_in_org`),
3. calls a service on those in-memory rows, which decides on them and saves.

`Model.save()` writes every column unless `update_fields` is given. The database
is SQLite (one writing transaction at a time, `FOR UPDATE` ignored) or Postgres
(concurrent transactions, READ COMMITTED). Nothing runs in the background.

### Components

| Component | State | Operations | Interacts with | What makes it correct |
|---|---|---|---|---|
| Ticket triage (`services/tickets.py`) | `core_ticket`: status, number, area, slice, resolved_at, external_key | create, edit, update, resolve, reopen, promote, absorb, release | slices, areas, activity log | promotion is final and idempotent; the Inbox can be promoted; a key makes one ticket; log and rows agree |
| Numbers and refs (`slices.allocate_number`, `resolve.py`, `refs.py`) | `Org.next_slice_number` | allocate, resolve | tickets, slices | a ref names one piece of work and follows it |
| Areas (`areas.py`) | `core_area` | create, rename, reorder, delete (cascade) | slices (CASCADE), tickets (SET_NULL) | no dangling references; slugs unique |
| Slices, plans, bites (`slices.py`, `plans.py`, `bites.py`) | rows, statuses, ranks, tags, assignee | create, update, status, move, reorder, delete | activity log, state | completed_at agrees with status; nothing outlives its parent or comes back; a status button takes back nothing else; the log tells every status and deletion |
| State (`state.py`) | none (projections), `OrgMember.home_seen_at` | board, roadmap, home, attention, watermark | slices, plans, bites, log | every slice is in exactly one column; five pieces of code that sort and count slices agree; nothing unseen is marked seen |
| Activity log (`activity.py`) | `core_activityevent` | append, cursor, events since | all services, live feed | append-only, increasing cursor |
| Live dashboard (`views/live.py`, `live.js`) | the tab's cursor, timer, request, typing | poll, announce, refresh | activity log, htmx, user | nothing skipped, nothing twice, the poller never dies |
| Org membership (`orgs.py`, settings views) | `core_org`, `core_orgmember` | create, delete, change role, remove, leave | invitations, every view | every org has an owner; nobody leaves their last org |
| Invitations and seats (`invitations.py`, `entitlements.py`) | `core_invitation` | invite, accept, cancel | membership | seat limit; single use |
| Accounts, social sign-in | users, social identities | register, sign in, link | invitations | an address has one account; every account can be entered; a binding to an existing account is vouched for |
| OAuth, connected apps, API tokens | codes, token pairs | authorize, exchange, rotate, disconnect, look up | MCP | a code or refresh token is used once; a disconnected app stays out; a revoked token stays revoked |
| MCP server | none | tools over the services | all services | as the services |
| Ranking (`ranking_helpers.py`) | rank strings | append, insert between | areas, slices, bites, tickets | order is what was asked for |
| Onboarding | sticky flags on `core_org` | derive, dismiss | areas, slices, bites | completion is never taken back |
| Migrations, admin, commands, templates | – | – | – | not modelled |

### Hard behaviours

* **Stale rows.** A handler decides on a row it loaded earlier and saves all of
  it. Every property of triage has to be read against this.
* **Check, then write.** Owners, seats, memberships, keys and sibling ranks are
  read in one statement and acted on in another.
* **A shared number space** between tickets and slices, in which promotion
  reuses a number and area deletion frees it again on the slice's side only.
* **A cursor over ids** whose visibility order is the database's business.
* **An asynchronous tab**: timers, requests, visibility changes, lost answers
  and a user who types, in any order.

* **Half-done work.** Several services are two or three autocommit statements
  (event then deletion, access token then refresh token, promotion then status),
  and the server may fail between them.
* **Rows that come back.** `save()` of a row that is gone inserts it again.

`PROJECT.json` lists 39 hazards at the lines where they bite.

## 2. Modules

```
TicketLifecycle         abstract: what triage promises about one ticket
      ^ implements (Tickets!ImplementsLifecycle)
Tickets                 tickets, slices, areas, counter, log, workers
  MCTickets             operations per surface, symmetry, a view
  TicketsProof          what survives stale saves
    TriageProof         what holds without them, and the refinement
LiveFeed                writers, poll endpoint, one tab
  LiveFeedProof         inductive invariant and theorems
Membership              orgs, members, invitations, handlers
  MCMembership          symmetry
  MembershipProof       inductive invariant and theorems
Delivery                areas, slices, plans, bites, log, checklist, workers
  DeliveryProof         what survives stale saves
    SerialDeliveryProof what holds without them, or in order
  Board                 stages, boards, Home, tools: projections of Delivery
    MCDelivery          three databases to start from, symmetry
    BoardProof          the projections agree (extends DeliveryProof too)
Connection              abstract: one life per authorisation and API token
      ^ implements (Access!ImplementsConnection)
Access                  accounts, identities, apps, codes, tokens, workers
  MCAccess              three databases to start from, symmetry
  AccessProof           inductive invariant, theorems, refinement
```

### Tickets

`tickets`, `slices`, `areas` and `nextNumber` are the tables; `log[t]` is the
status the activity log last reported for a ticket; `request[w]` is what worker
`w` has in memory. A request is two steps: `LoadTicket` (or `BeginCreate`, whose
key lookup is a statement of its own) and the service. A service is one step
because the writes of each are one transaction; a rollback is `NoEffect`. A
service other than `promote_ticket` works on `request[w].row`; `promote_ticket`
reads the row again under `SELECT ... FOR UPDATE` (`LockedRow`). `SaveRow` writes
every column and fails on a foreign key, as the database does.

`slices[s].origin` is a ghost: which ticket's promotion created the slice. The
code has no such column and derives it by number (`OriginTickets`); the ghost
lets `RefNamesOneWork` say that a number is shared only for that reason.

One worker gives a server that finishes each request before the next; several
interleave load and save. `Operation` says what the requests may ask for:
`WebOperations` leaves out the MCP tool `update_ticket`, the only way to set the
status of a promoted ticket.

`TicketLifecycle` is the abstract machine per ticket; the refinement mapping is
`Stage(t)`, which tells an origin (the slice carries its number) from an absorbed
ticket and from one stranded by the deletion of an area.

### LiveFeed

`nextId`, `pending` and `committed` are the log: an id is drawn at INSERT and
visible after COMMIT. `SingleWriter` says whether two writing transactions may be
open at once. `page`, `cursor`, `timer`, `poll` are the variables of `live.js`;
`refresh` is htmx's request for `#main-content` with the one queued behind it.
`shown`, `reported` and `missed` are sets of events: what the screen reflects,
what toasts announced, and what was announced while a refresh was skipped or
failed. `known` is a ghost: what was committed when the starting cursor was read.
The two reads of `live()` are two steps, and a poll may fail before, between or
after them. htmx's request queue (one request at a time, the last one asked for
waits) is that of the copy the repository serves (`vendor/htmx.min.js`), of the
answers only their arrival matters (`RenderRefresh` stands for any screen's view).
The database's commits are external and modelled from how the code relies on them.

### Membership

`orgs`, `members`, `invitations` are the tables and `request[w]` what a handler
has read. Each statement of a handler is a step: load, authorise, count, write.
An `Officer` runs `member_role`, `member_remove`, `org_leave` or `org_delete`; an
`Inviter` runs `invite_create`. Creating an org and accepting an invitation are
transactions of their own and one step each; cancelling is one `DELETE`, and which
admin asks for it makes no difference. `MemberRow.via` (the
invitation a row was made from) stands for the row's primary key: it tells a row
from the one the same user gets on coming back. A posted role may be any string
(`PostedRole`, with "unknown" for every string that is no role).
`change_member_role` refuses it, but `invite_create` hands it to
`create_invitation`, which does not compare it with the choices of the form, and
`accept_invitation` copies it to the member: an invitation can make an owner, or a
member of no known role, and the properties hold with both. `InvitationWithout` is
the cascade of a deleted org.

### Delivery

`db` is one record of tables: what the log reported for each slice and announced
as deleted, whether an agent has ever acted, and the two onboarding flags of the
org among them. `request[w]` holds the row a handler loaded. Handlers of
`web/views` and tools of `core/mcp/server.py` are actions of their own; they share
operators named after the services (`UpdateSlice`, `SetSliceStatus`, `AddBites`).
A service's transaction is one step. A service without one is a step that may
stop after any of its statements, as `\E told`, `\E failed` or `\E n` say.

What a service saves decides what a stale row can do, so the model keeps it:
`update_slice`, `update_plan` and `update_bite` write every column and insert the
row again if it is gone; `set_slice_status`, `set_slice_area` and
`set_bite_status` write named columns and fail if it is gone. `ticket_promote` is
two actions, the promotion and the status that follows in a transaction of its
own; what becomes of the ticket is `Tickets`' subject. The context processor of a
page is two (`LoadPage`, `RenderPage`): it judges the five onboarding steps after
it has read the org's flags.

Two ghosts help to state properties. `overlapped` becomes true for good when a
request begins while another is served: a property guarded by `~overlapped` is a
promise to a server that serves one request at a time, checked in the same state
space. `checklist` is what the pages have shown.

`Saves` lists the steps that write, or decide by, what an earlier query of their
request read, and `Holds` says that this is still what the tables hold. With them
`OnlyStaleSavesHarm` speaks of requests that do overlap: a row that comes back, a
status or a deleted bite left untold, a doubled key, a checklist shown again - each
can only come of such a step, with a row that is stale.

### Board

Operators only: no variable and no action. `SliceStage` is the rule of
`slice_stage`; `StageCounts` the Python queries, `AnnotatedCounts` the SQL
annotation over the join `JoinedRows`; on top of them the org's and the areas'
boards, the areas overview, the sidebar, Home, `get_project_state`, `list_slices`
and the Markdown of a slice. The properties compare them in every database that
Delivery reaches.

What these pages read of other tables is a parameter. `archived` is the set of
archived areas: only the admin sets it, and `list_areas` and `get_project_state`
leave those out unless the area is asked for. `open` is the number of open tickets
(rows of `Tickets`), for which `your_turn` adds a single row that Home's snapshot
counts. The properties hold for every set of areas and every number of
`InboxSizes`. `list_slices` returns the first `limit` rows by rank; with the ranks
left out, `QuerySlices` is the set of answers it may give, all of the slices if
there is no limit or fewer slices. Its filters by text and assignee are left out.

### Access

`db` is again the tables: users, social identities, the browsers with a sign-in
under way, registered clients, codes, access and refresh tokens, API tokens. A
refresh token is named by its access token. A statement outside a transaction is
a step: issuing a pair is two (`IssueAccess`, `IssueRefresh`) with failures in
between, disconnecting is one that collects the tokens and one that deletes them,
an agent's call is the lookup and then the stamp of `last_used_at`, which saves
that column only. Consuming a code and rotating a refresh token lock their row
and are one step each. `RegisterLookUp` stands for the sign-up page, which minds
`REGISTRATION_OPEN`, and for `register_invited`, which does not. `Expire` lets time pass for one row. `access[t].grant` is a
ghost: the code the token goes back to. `torn` marks tokens whose request failed
half way, `disconnected` the apps put out and not connected since.

`Connection` is the abstract machine: an authorisation goes from none to offered,
redeeming, connected and over, and never back; an API token is created once and
deleted once. The refinement mapping is `Phase(g)`.

## 3. Runs

| Run | Question | Bounds | Result |
|---|---|---|---|
| `tickets_serial` | Do served-in-turn requests keep refs, Inbox, log and lifecycle right? | 1 worker, 2 tickets, 3 slices, 2 areas, 1 key | holds |
| `tickets_concurrent` | What survives stale saves? | 2 workers, 2 tickets, 2 slices, 1 area, all operations | holds |
| `promotion_retry` | Do retries find the first result? | 3 workers, 2 tickets, 2 slices, 2 areas, 1 key | holds |
| `tickets_agent` | Is the Inbox still promotable with MCP updates? | 1 worker, 2 tickets, 3 slices, 2 areas | violated |
| `tickets_race` | Is a promotion final with two web workers? | 2 workers, 2 tickets, 3 slices, 2 areas | violated |
| `live_sqlite` | Are changes announced once, all of them, and shown? | 3 events, one writer at a time | holds |
| `live_postgres` | Does every change raise the cursor? | 2 events, concurrent writers | violated |
| `live_typing` | Is typing never clobbered? | 1 event | violated |
| `membership_serial` | Owners, seats, invitations, last org | 1 officer, 1 inviter, 2 users, 2 orgs, 2 invitations, 2 seats | holds |
| `delivery` | What do pages and agents do to each other's work, and do all projections agree? | 2 workers, 2 of each row, 1 key, 3 requests, 3 databases | holds (460,660 states) |
| `access` | Is one authorisation one connection, one identity one account? | 2 workers, 2 addresses, identities, apps, orgs, codes, 4 tokens, 1 API token, 4 requests, 3 databases | holds (2,433,398 states) |
| `membership_race` | Is there always an owner with two officers? | 2 officers, 2 users, 1 org, 1 invitation | violated |

**Why these bounds.** The ticket properties relate at most two tickets and two
slices; a third slice lets one be created, lost with its area and replaced, and
two areas let one slice be lost while another stays. Rows are created once and
keys never reused, as in the database, so the number of primary keys bounds the
run and the counter without any further constraint; a request that finds none
left fails (`TicketLeft`, `SliceLeft`). Stale rows need two workers;
the retry run uses three, so that a lookup, a first promotion and an area
deletion can overlap. `tickets_concurrent` and `promotion_retry` leave
`log` out of the state with a VIEW: no action reads it and their properties do
not either. In `LiveFeed`,
three events give one before, one during and one after a read; `MaxEvent` bounds
ids only. Two users suffice for every role race because each involves the
remaining owner and the one who goes. Two invitations and two seats fill an org
and overfill it. Symmetry sets are permutations of primary keys and handlers,
used only with invariants and safety properties; the liveness run has none.

`delivery` and `access` start from several databases (`Seeds`), so that a few
requests reach what would otherwise take a dozen to set up: an empty org, a slice
under construction with a connected agent, shipped and planned work in two areas;
a new site, an app connected to two orgs with one token expired, a user about to
connect one. `SeedAssumption` says what a seed must satisfy. `MaxRequests` bounds
the requests that may change anything (pages that only look at the checklist are
not counted): three allow a row to be loaded, removed under its reader and judged
by a third, or two overlapping requests in a database that a first one prepared;
four let a code be exchanged, its token rotated, used and disconnected. New rows
get a primary key by `CHOOSE`; the keys are therefore not symmetric and only the
workers are. `delivery` asks `list_slices` with a limit of one (`ListLimit`; the
tool's default is 50), so that two slices exceed it, and judges Home with an empty
Inbox and with two open tickets.

**Deadlock.** Only the membership runs switch the check off: once all orgs are
deleted and all primary keys used up nobody can do anything. `delivery` and
`access` run with it on: past the bound on requests a page can still be loaded and
a sign-in begun or cancelled, so a deadlock would be a request that cannot end.

**What the violated runs show.**

* `tickets_agent`: the MCP tool `update_ticket` reopens a promoted ticket and
  leaves its slice link. Absorbing it elsewhere and releasing it puts a ticket
  into the Inbox whose number its first slice still holds, so it can never be
  promoted. `reopen_ticket` and `release_ticket` refuse exactly this.
* `tickets_race`: an autosave of a title loaded before a promotion and saved
  after it writes back status, link and timestamp; the promotion is undone on the
  ticket's side while its slice lives.
* `live_postgres`: `latest_activity_id()` is documented as strictly increasing
  with every change. A transaction that drew a lower id may commit after one with
  a higher id, and a tab that holds the higher cursor never hears of it.
* `live_typing`: the check for a typing user is made before an asynchronous
  request, the swap comes after it.
* `membership_race`: removal decides on a role loaded earlier and demotion on a
  count made earlier; together they leave an org without an owner.

**Fairness.** Only `LiveFeed` states any: weak fairness of the poller (a timer
that is armed fires, the server does its two reads, the continuation of an
answered `fetch` runs), of rendering the refresh and of swapping it. A browser
and a server that are up give this much. Writers, page loads, the user, failed
polls and failed refreshes are under no obligation. `EveryChangeReported` needs
the poller's fairness only; it assumes in its premise that the tab eventually
stays visible and that polls eventually stop failing; `live.js` promises nothing
otherwise. `AnnouncedGetsShown` needs only that a refresh that is out is rendered
and swapped in; it promises the screen, or a typing user or failed request in the
way. Both are about tabs on which nobody navigates: `page` stays open.

## 4. Proofs

TLC finds no counterexample in the small instances; the following hold for every
value of the constants.

**TicketsProof.** `IInv` is the conjunction of the type invariant, the four
properties below, and three strengthenings they are not inductive without:

* `NumbersAllocated`: every number in use is below the counter, so a fresh one
  collides with nothing;
* `AbsentRowsBlank`: rows that do not exist carry no number or key that could
  collide;
* `RequestsSound`: a row in memory agrees with the stored row of its ticket in
  what no operation changes (number and key), so writing it back, however old it
  is, changes neither.

The last one is the heart: a stale save may undo a status or a link (that is the
finding `tickets_race`), but never a number or a key. One lemma per operation
shows that it keeps `IInv`; the operations that end in a full-row save share
`SaveKeepsIInv`. From `Init => IInv` and `IInv /\ [Next]_vars => IInv'` follow:

* `TypeCorrect` – the type invariant;
* `ReferencesAreLive` – `NoDanglingReference`;
* `RefsAreUnambiguous` – `RefNamesOneWork`;
* `KeysAreIdempotent` – `OneTicketPerKey`;
* `ResolutionIsTimestamped` – `ResolvedAgrees`.

Assumed of the constants: `None` is no ticket, slice, area or key, and
`Operation` is a set of known operations. Nothing is assumed finite.

**TriageProof.** The stronger properties are false when a save writes back a
status or a link that has changed since it was read (finding `tickets_race`), or
when `update_ticket` gives a linked ticket another status (finding
`tickets_agent`). `Orderly` excludes these two steps and nothing else: it is a
formula about steps (`NoStaleSave`, `UpdatesKeepLinks`), and the theorems have the
form `Spec /\ [][Orderly]_vars => ...`, for any number of workers and all
operations. `TInv` adds to `IInv`:

* `CreatesUnlinked`: a ticket under creation has no link;
* `OriginsLinked`: the origin of a live slice is promoted, linked to it and has
  its number – what every property below comes down to;
* `LinkedArePromoted` and `LogAgreesWithRow`.

Every operation changes one row, whose effect is `RowOrderly`, or is a deletion of
an area, which takes links and slices together. Theorems: `RefsFollowTheWork`,
`InboxStaysPromotable`, `PromotionsNeverClash`, `LogFollowsTheRow`,
`PromotionEndsTheTicket`, and `LifecycleImplemented`, the refinement of
`TicketLifecycle`: `StageSteps` lists what a step may do to the stages, one lemma
per operation shows it, `StepsImplement` turns it into the abstract machine's
actions. The refinement asks of `update_ticket` that it keeps to triage
(`UpdatesAreTriage`), which includes leaving linked tickets alone.

Two theorems say who meets the premise. `SeparateTicketsSaveFresh`: workers that
never hold the same ticket at once. Their rows can still go stale, since deleting
an area clears the link of a promoted ticket; `Settled` says that this is all that
can differ, and every service refuses such a row or fails on its foreign key.
`SerialServersAreOrderly`: without `update_ticket`, one worker, or any number of
workers that only promote, create and delete areas – the servers of
`tickets_serial` and `promotion_retry`.

**LiveFeedProof.** `IInv` is the type invariant, `PollerSound` (how cursor,
announced events, the events of an answer and the timer fit together in each
state of the poller), and, under `SingleWriter`, `OrderedLog` (what is still
pending is newer than what is committed). Theorems:

* `SqliteSkipsNothing` – `SingleWriter => NothingSkipped`; without the premise
  it is false, which is the finding `live_postgres`;
* `EventsAreReportedOnce` – `ReportedOnce`, with any number of writers;
* `AnswersAreNonEmpty` – `live()` may take `events[-1]`, on either database; the
  poller's progress rests on it;
* `PollerStaysAlive` – `PollerAlive`;
* `TypeCorrect` – the type invariant;
* `ScreenCatchesUp` – `AnnouncedIsShown`, with `ScreenSound`: what a refresh that
  is out or queued will bring to the screen.

That the maximum of a non-empty bounded set is one of its elements
(`MaxOfBounded`) is proved from the library's well-founded induction on its
complement order.

The two liveness properties are proved as well. `FairPoller` and `FairRefresher`
are the fairness of the run with the guards of the fair actions written out.
`EveryChangeIsReported` follows an unheard event through the stages of a poll
(`InTheWay`, `Scheduled`, `Asked`, `Noticed`, `Answered`): a step of the poller
takes it from each to the next or announces it, and every other step leaves it
where it is. `AnnouncementsReachTheScreen` does the same with the refresh
(`Overtaken`, `Requesting`, `Arriving`). `FairTabsCatchUp` draws both from
`FairSpec`, under the one premise `GuardsEnable`: where the guards hold, the fair
actions are enabled. That premise is the only thing not proved, ENABLED being
beyond the prover; TLC, which computes ENABLED, checks both properties from
`FairSpec` itself.

**MembershipProof.** `IInv` says of the rows that members and pending invitations
belong to live orgs, and of the requests what each has read at each step. It
holds for any number of handlers, and gives `TypeCorrect` and
`InvitationsAreSpent`. What owners, seats and leavers need besides is stated of
one org or one user at a time, and handlers elsewhere do not count:

* `OneOfficerKeepsAnOwner`: while the role changes, removals and leaves of org `o`
  are served one at a time, `o` has an owner. `ThroneSound(o)`: the row its handler
  holds is the stored one as long as that row is there, and a request cleared to
  take ownership away leaves another owner. `OwnersRemain` says it of all orgs;
  with two handlers in one org it is false (finding `membership_race`).
* `OvershootIsBounded`: while at most `n` forms inviting to `o` are served at once,
  members and pending invitations exceed the seats by at most `n - 1`, and not at
  all if `n` is one (`SeatsAreLimited`). The bound is tight. A form counts pending
  invitations first and members second; one that would have been refused may go on
  because a member left, so a single inequality is not inductive. `SeatSound(o, n)`
  has one for every `j`: what is taken, plus the forms that would insert if `j`
  more seats were free, is at most `SeatLimit + j + n - 1`.
* `LeaversKeepAnOrg`: any number of handlers; only what ends another membership of
  the same user between the count and the DELETE is excluded
  (`LeaversUndisturbed`).

The run has one handler of each kind, which meets all three premises.

**DeliveryProof.** `IInv` is the type invariant, `NoOrphans`, `CompletedAgrees` and
`RowsLive`: a row about to be saved was live when it was loaded. The last is why
inserting a deleted row again leaves no orphans: it is the parent's foreign key
that refuses, and no save writes the mark of a deletion. Theorems: `TypeCorrect`,
`NothingIsOrphaned`, `CompletionIsTimestamped` and the action property
`StatusSavesOnlyStatus`, all with any number of overlapping requests.

**SerialDeliveryProof.** Two things hold however requests overlap (`Ordered`):
every area that is gone was announced, and a checklist that is gone has its reason
stored. The rest is `Calm`: each status and each bite deleted by itself is told,
keys are apart, the checklist has not come back. It fails in one way only.
`Saves` names the steps that write, or decide by, what an earlier query of their
request read: the edits that save a whole row, `create_slice` after its lookup,
`slice_set_status` when asked for the status in memory (the table may hold another
by then, and no event is written), and the page that shows the checklist.
`NothingStale` says that such a step finds what it read still so (`Holds`), or
fails. `FreshSavesAreFaithful`: under that premise, with any number of overlapping
requests, `Calm` holds and no step brings a slice, plan or bite back.
`HarmIsStale` is `OnlyStaleSavesHarm`, the same fact step by step and without the
premise: a step that does harm is one of `Saves` for which `Holds` fails. The other
services need no guard; among them `ticket_promote`, `slice_reassign`,
`bite_toggle` and all deletions. While nothing has overlapped the one request that is
served holds what the tables hold (`Lone`), so the premise is met
(`SerialStepsAreFresh`), and the theorems about a server that serves requests in
turn follow: `LogIsFaithful`, `KeysNameOneSlice`, `ChecklistGoesOnce`.

**BoardProof.** Nothing is inductive here: the properties follow from what
DeliveryProof establishes of every reachable database. The work is in the
cardinalities: `CountsAreConsistent` shows that counting distinct bites and plans
over the join, however it fans out, is counting them, and that `list_slices` under
any limit answers that many rows of the area or all of them; `HomeIsConsistent`
that the row for open tickets adds one to the day's count and that a slice is
listed once in the areas shown, for every set of archived ones. Theorems:
`ReadyMeansFinished`, `BoardLosesNothing`, `CountsAreConsistent`,
`HomeIsConsistent`.

**AccessProof.** `IInv` is the type invariant, the three properties of the run and
what makes them inductive: a request that exchanged a code is the only one, and
the code is gone without a token yet (`ExchangesSound`); whoever is about to be
linked has an account and a verified address (`LinksSound`); while nothing has
overlapped, a disconnection has collected every token its app has
(`DisconnectsSound`). Theorems: `TypeCorrect`, `OneAuthorisationOnePair`,
`NoHalfAccount`, `DisconnectionHolds`, and `ConnectionImplemented`, the refinement
of `Connection`. `DisconnectedAppsStayOut` needs no order: whatever overlaps, an app
whose disconnection is over has no token left (`StaysOut`), unless one was issued to
it between the collection of its tokens and their deletion (`NothingSlips`). Requests
of other apps do not count, and several disconnections of the same app may run at
once (`CollectsAll`).

**Assumptions.** Beyond naming (`None` is no row, operations are known, bounds are
numbers): the seeds are databases in good order (`SeedAssumption`); in Delivery,
there are finitely many slices, plans and bites, and in Membership finitely many
users and invitations (`FiniteAssumption` in each, needed to count them); in Board,
`None` is no column name (`StringAssumption`) and the limits are numbers, the tool's
not zero (`LimitAssumption`). TLC evaluates each on its run. Nothing else is assumed finite, and `MaxRequests` may be any
number.

**Model-checked only.** That the guards of the fair actions imply ENABLED
(`GuardsEnable`, above). Every property of a passing run is proved, under the
premises named above.

## 5. Not modelled

* Titles, bodies, Markdown, templates and serialisers: no property depends on
  them. A spec is whether it is empty, the tags whether "someday" is one of them.
* Ranks. They are strings of the `fractional_indexing` library and would have to
  be modelled character by character; order within a list is left out everywhere,
  and with it reordering. Two appends that read the same last sibling get the same
  rank (a listed hazard without a property).
* Home's watermark `home_seen_at` against concurrent agent events: it compares
  wall-clock times, which the model does not keep.
* Renaming, slugs, assignees: they change names and members that no guard reads.
  Archiving is done in the admin only; Board takes the archived areas as given.
* Transactions that deadlock, time out or lose the connection after a commit:
  to the data the first two are rollbacks, and a lost answer is a repeated
  request, which any worker may make.
* Deleting an org while its work is under way: all rows go at once.
* Creating areas in `Tickets`, which starts with all of them (`Delivery` creates
  them).
* The `TUCKIT_ENTITLEMENTS_HOOK` itself: `SeatLimit` is its answer, fixed during
  a run. A limit lowered below the seats in use is not considered. Likewise the
  hook that may refuse a token is a choice in `Access`.
* Redirect URIs, PKCE and hashes: `Exchange` asks whether they fit. Password
  login, password change and account deletion.
* Migrations, admin, commands, settings and the web shell, for the reasons given
  in `PROJECT.json`.

## 6. Plan

Everything planned first is done: triage, live feed, membership, delivery with its
projections, access, and the proofs of all their properties. What would
come next, in order of weight:

1. Ranks over an abstract dense order instead of the library's strings: ties of
   concurrent appends, and insertion between equal neighbours.
2. Home's watermark with a logical clock: an agent event between the computation
   of what is new and the advance of the watermark.
3. `Tickets` and `Delivery` as one composition: they share slices and areas, and
   each models of the other's rows only what it reads.
4. Tags and assignees as rows, with their own uniqueness and cascades.
