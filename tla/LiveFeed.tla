------------------------------ MODULE LiveFeed ------------------------------
(***************************************************************************)
(* The live dashboard: writers appending to an org's activity log, the     *)
(* poll endpoint (web/views/live.py, core/services/activity.py) and one    *)
(* browser tab running static/web/live.js.                                 *)
(*                                                                         *)
(* An event's id is drawn when its row is inserted and the row becomes     *)
(* visible when its transaction commits.  SQLite admits one writing        *)
(* transaction at a time, Postgres any number, so there ids may become     *)
(* visible in another order than they were drawn.                          *)
(*                                                                         *)
(* Intervals and back-off only say when the timer fires, so the timer is   *)
(* armed or not.  A screen is the set of events its content reflects.      *)
(***************************************************************************)
EXTENDS Naturals, FiniteSets, FiniteSetsExt

CONSTANTS
    SingleWriter,  \* TRUE on SQLite, FALSE on Postgres
    MaxEvent       \* bound: ids drawn in a behaviour

ASSUME SingleWriterAssumption == SingleWriter \in BOOLEAN
ASSUME MaxEventAssumption == MaxEvent \in Nat

EventId == 1..MaxEvent

VARIABLES
    nextId,     \* the id sequence of core_activityevent
    pending,    \* events inserted by transactions that are still open
    committed,  \* the rows other connections see
    page,       \* the tab: not yet loaded, its content computed, or running
    known,      \* ghost: the rows committed when the starting cursor was read
    shown,      \* events reflected by the content of #main-content
    cursor,     \* live.js: cursor
    reported,   \* events live.js has announced in toasts
    missed,     \* announced events whose refresh was skipped or failed
    visible,    \* ~document.hidden
    typing,     \* typingInMain()
    timer,      \* live.js: a timeout is scheduled
    poll,       \* live.js: inFlight, and how far the server is with the request
    refresh     \* the htmx request for #main-content, and the one queued behind

log == <<nextId, pending, committed>>
tab == <<page, known>>
user == <<visible, typing>>
screen == <<shown, missed, refresh>>
vars == <<log, tab, user, screen, cursor, reported, timer, poll>>

NoPoll == [state |-> "none", events |-> {}]
NoRefresh == [state |-> "none", content |-> {}, queued |-> FALSE]

TypeOK ==
    /\ nextId \in 1..(MaxEvent + 1)
    /\ pending \subseteq EventId /\ committed \subseteq EventId
    /\ page \in {"closed", "rendered", "open"}
    /\ known \subseteq EventId /\ shown \subseteq EventId
    /\ cursor \in EventId \cup {0}
    /\ reported \subseteq EventId /\ missed \subseteq EventId
    /\ visible \in BOOLEAN /\ typing \in BOOLEAN /\ timer \in BOOLEAN
    /\ poll \in [state : {"none", "sent", "newer", "nothing", "answered"},
                 events : SUBSET EventId]
    /\ refresh \in [state : {"none", "sent", "rendered"}, content : SUBSET EventId,
                    queued : BOOLEAN]

-----------------------------------------------------------------------------
(* Writers *)

\* record_activity(): the INSERT draws the next id.
Insert ==
    /\ nextId \in EventId
    /\ SingleWriter => pending = {}
    /\ pending' = pending \cup {nextId}
    /\ nextId' = nextId + 1
    /\ UNCHANGED <<committed, tab, user, screen, cursor, reported, timer, poll>>

Commit ==
    /\ \E e \in pending : /\ pending' = pending \ {e}
                          /\ committed' = committed \cup {e}
    /\ UNCHANGED <<nextId, tab, user, screen, cursor, reported, timer, poll>>

\* A rolled-back INSERT returns its id on SQLite and burns it on Postgres.
RollBack ==
    /\ \E e \in pending : /\ pending' = pending \ {e}
                          /\ nextId' = IF SingleWriter THEN e ELSE nextId
    /\ UNCHANGED <<committed, tab, user, screen, cursor, reported, timer, poll>>

-----------------------------------------------------------------------------
(* Reading the log *)

\* latest_activity_id()
LatestActivityId == IF committed = {} THEN 0 ELSE Max(committed)

\* The test of live(): is there anything newer than the client's cursor?
Newer(since) == LatestActivityId > since

\* events_since()
EventsSince(since) == {e \in committed : e > since}

\* Mutant: the cursor names the first event still to come.
CursorAfter(events) == Max(events) + 1
\* "cursor": events[-1]["id"]
CursorOf(events) == Max(events)

-----------------------------------------------------------------------------
(* Loading the page *)

\* The view evaluates its querysets before it renders...
RenderPage ==
    /\ page = "closed"
    /\ page' = "rendered"
    /\ shown' = committed
    /\ UNCHANGED <<log, known, user, missed, refresh, cursor, reported, timer, poll>>

\* Mutant: the page carries no starting cursor.
OpenPageAtZero ==
    /\ page = "rendered"
    /\ page' = "open"
    /\ known' = committed
    /\ timer' = visible
    /\ UNCHANGED <<log, cursor, user, screen, reported, poll>>

\* ... the context processor live_cursor() reads the log after that, and
\* live.js starts from its answer.
OpenPage ==
    /\ page = "rendered"
    /\ page' = "open"
    /\ known' = committed
    /\ cursor' = LatestActivityId
    /\ timer' = visible
    /\ UNCHANGED <<log, user, screen, reported, poll>>

-----------------------------------------------------------------------------
(* Polling *)

\* The timeout fires: poll().  A hidden tab, or one whose request is still out,
\* only calls schedule().
TimerFires ==
    /\ timer
    /\ IF poll.state # "none" \/ ~visible
       THEN timer' = visible /\ UNCHANGED poll
       ELSE timer' = FALSE /\ poll' = [NoPoll EXCEPT !.state = "sent"]
    /\ UNCHANGED <<log, tab, user, screen, cursor, reported>>

\* live(): latest_activity_id() decides between 204 and reading the events.
ServerChecks ==
    /\ poll.state = "sent"
    /\ poll' = [poll EXCEPT !.state = IF Newer(cursor) THEN "newer" ELSE "nothing"]
    /\ UNCHANGED <<log, tab, user, screen, cursor, reported, timer>>

\* live(): events_since(), a second query that sees what was committed since.
ServerFetches ==
    /\ poll.state = "newer"
    /\ poll' = [state |-> "answered", events |-> EventsSince(cursor)]
    /\ UNCHANGED <<log, tab, user, screen, cursor, reported, timer>>

\* The last .then(): inFlight = false; schedule().  The mutant forgets schedule().
PollStops == poll' = NoPoll /\ UNCHANGED timer
PollEnds == poll' = NoPoll /\ timer' = visible

\* Mutant: a request issued while another is out is dropped.
DroppedIfBusy ==
    IF refresh.state = "none" THEN [NoRefresh EXCEPT !.state = "sent"] ELSE refresh

\* htmx.ajax("GET", ...): one request at a time, the last one asked for waits.
Requested ==
    IF refresh.state = "none" THEN [NoRefresh EXCEPT !.state = "sent"]
    ELSE [refresh EXCEPT !.queued = TRUE]

\* A 200 answer arrives: advance, announce, and refresh unless the user types.
TakeEvents ==
    /\ poll.state = "answered"
    /\ poll.events # {}
    /\ cursor' = CursorOf(poll.events)
    /\ reported' = reported \cup poll.events
    /\ IF typing
       THEN missed' = missed \cup poll.events /\ UNCHANGED refresh
       ELSE refresh' = Requested /\ UNCHANGED missed
    /\ PollEnds
    /\ UNCHANGED <<log, tab, user, shown>>

\* A 204 arrives.
TakeNothing ==
    /\ poll.state = "nothing"
    /\ PollEnds
    /\ UNCHANGED <<log, tab, user, screen, cursor, reported>>

\* A transient network or server error, before or after the server's reads.
PollFails ==
    /\ poll.state # "none"
    /\ PollEnds
    /\ UNCHANGED <<log, tab, user, screen, cursor, reported>>

-----------------------------------------------------------------------------
(* Refreshing #main-content *)

\* The server computes the content of the screen.
RenderRefresh ==
    /\ refresh.state = "sent"
    /\ refresh' = [refresh EXCEPT !.state = "rendered", !.content = committed]
    /\ UNCHANGED <<log, tab, user, shown, missed, cursor, reported, timer, poll>>

\* Mutant: the queued request is forgotten.
RefreshOverForGood == refresh' = NoRefresh
\* When a request is over the queued one, if any, is issued.
RefreshOver ==
    refresh' = IF refresh.queued THEN [NoRefresh EXCEPT !.state = "sent"] ELSE NoRefresh

\* htmx swaps #main-content, whatever the user is doing by now.
SwapRefresh ==
    /\ refresh.state = "rendered"
    /\ shown' = refresh.content
    /\ missed' = missed \ refresh.content
    /\ RefreshOver
    /\ UNCHANGED <<log, tab, user, cursor, reported, timer, poll>>

\* The request fails; live.js does not ask again.
RefreshFails ==
    /\ refresh.state # "none"
    /\ missed' = missed \cup (reported \ shown)
    /\ RefreshOver
    /\ UNCHANGED <<log, tab, user, shown, cursor, reported, timer, poll>>

-----------------------------------------------------------------------------
(* The user *)

\* Mutant: live.js does not listen to visibilitychange.
TurnSilently ==
    /\ visible' = ~visible
    /\ UNCHANGED <<timer, log, tab, typing, screen, cursor, reported, poll>>

\* The tab is hidden, or shown again: the visibilitychange listener reschedules.
TurnTab ==
    /\ visible' = ~visible
    /\ timer' = (timer \/ (visible' /\ page = "open"))
    /\ UNCHANGED <<log, tab, typing, screen, cursor, reported, poll>>

StartOrStopTyping ==
    /\ page = "open"
    /\ typing' = ~typing
    /\ UNCHANGED <<log, tab, visible, screen, cursor, reported, timer, poll>>

-----------------------------------------------------------------------------
Init ==
    /\ nextId = 1 /\ pending = {} /\ committed = {}
    /\ page = "closed"
    /\ known = {} /\ shown = {} /\ cursor = 0 /\ reported = {} /\ missed = {}
    /\ visible = TRUE /\ typing = FALSE /\ timer = FALSE
    /\ poll = NoPoll
    /\ refresh = NoRefresh

Writer == Insert \/ Commit \/ RollBack
Poller == TimerFires \/ ServerChecks \/ ServerFetches \/ TakeEvents \/ TakeNothing
Refresher == RenderRefresh \/ SwapRefresh \/ RefreshFails

Next ==
    \/ Writer
    \/ RenderPage \/ OpenPage
    \/ Poller \/ PollFails
    \/ Refresher
    \/ TurnTab \/ StartOrStopTyping

\* Timers fire, the server answers and the browser runs the continuations it
\* owes.  Writers, users and failures are under no obligation.
Fairness == WF_vars(Poller) /\ WF_vars(RenderRefresh) /\ WF_vars(SwapRefresh)

Spec == Init /\ [][Next]_vars
FairSpec == Spec /\ Fairness

-----------------------------------------------------------------------------
\* "a change anywhere in the org strictly increases it" (latest_activity_id):
\* a poller that compares cursors notices every change.
ChangeRaisesCursor ==
    [][committed' # committed => LatestActivityId' > LatestActivityId]_vars

\* The cursor never passes an event that was neither in the log when the page
\* took its starting cursor nor announced since.
NothingSkipped ==
    page = "open" => {e \in committed : e <= cursor} \subseteq known \cup reported

\* No event is announced twice, nor one from before the page load, although
\* answers get lost and events slip in between the two reads of live().
ReportedOnce == poll.events \cap (reported \cup known) = {}

\* "events is non-empty here" (live.py), so events[-1] is safe to read.
AnswerNonEmpty == poll.state = "answered" => poll.events # {}

\* A visible tab always has a poll out or a timer that will send one, however
\* hiding, showing, timeouts and late answers interleave.
PollerAlive == page = "open" /\ visible => timer \/ poll.state # "none"

\* Once no refresh is under way the screen shows all that was announced, except
\* what met a typing user or a failed request.
AnnouncedIsShown == refresh.state = "none" => reported \subseteq shown \cup missed

\* A tab that stays visible, with polls that eventually stop failing, announces
\* every change made after it was opened.
EveryChangeReported ==
    (<>[]visible /\ <>[][~PollFails]_vars) =>
        \A e \in EventId : [](page = "open" /\ e \in committed => <>(e \in known \cup reported))

\* What a toast announces reaches the screen, or meets a typing user or a failed
\* request, however many batches arrive while earlier refreshes are under way.
AnnouncedGetsShown == \A e \in EventId : [](e \in reported => <>(e \in shown \cup missed))

\* "Never clobber in-progress typing" (live.js).
NeverClobbersTyping == [][typing => shown' = shown]_vars
=============================================================================
