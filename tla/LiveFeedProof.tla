---------------------------- MODULE LiveFeedProof ----------------------------
(***************************************************************************)
(* Theorems about LiveFeed, for every number of events and both databases. *)
(***************************************************************************)
EXTENDS LiveFeed, WellFoundedInduction, TLAPS

\* The poller runs only on a loaded page; all it announced is behind the cursor
\* and all it is about to announce is ahead of it and in the log for good.
PollerSound ==
    /\ timer \/ poll.state # "none" => page = "open"
    /\ page # "open" => reported = {}
    /\ \A e \in known \cup reported : e <= cursor
    /\ \A e \in poll.events : e > cursor /\ e \in committed
    /\ poll.state # "answered" => poll.events = {}
    /\ poll.state = "newer" => \E e \in committed : e > cursor
    /\ AnswerNonEmpty
    /\ PollerAlive

\* With one writer at a time ids become visible in the order they are drawn, so
\* whatever is still to come is ahead of the cursor and an answer has no gaps.
OrderedLog ==
    /\ \A p \in pending : nextId = p + 1
    /\ \A e \in committed : e < nextId /\ \A p \in pending : e < p
    /\ cursor < nextId /\ \A p \in pending : cursor < p
    /\ \A e \in committed, f \in poll.events : e > cursor /\ e <= f => e \in poll.events
    /\ NothingSkipped

IInv == TypeOK /\ PollerSound /\ (SingleWriter => OrderedLog)

-----------------------------------------------------------------------------
(* The maximum of a bounded set *)

Below == {p \in Nat \X Nat : p[1] < p[2]}

LEMMA BelowWellFounded == IsWellFoundedOn(Below, Nat)
  BY NatLessThanWellFounded DEF OpToRel, Below

\* Max is defined by CHOOSE: a bounded set of numbers has a greatest element,
\* the one with the smallest gap to the bound.
LEMMA MaxOfBounded ==
  ASSUME NEW S, NEW n \in Nat, S \subseteq Nat, S # {}, \A x \in S : x <= n
  PROVE  Max(S) \in S /\ \A x \in S : x <= Max(S)
<1> DEFINE Gaps == {n - x : x \in S}
<1>1. \A x \in S : x \in Nat /\ n - x \in Nat
  OBVIOUS
<1>2. Gaps \subseteq Nat /\ Gaps # {}
  BY <1>1
<1>3. PICK gap \in Gaps : \A g \in Gaps : <<g, gap>> \notin Below
  BY ONLY <1>2, BelowWellFounded, WFMin
<1>4. PICK m \in S : gap = n - m
  BY <1>3
<1>5. \A x \in S : m >= x
  <2>1. SUFFICES ASSUME NEW x \in S, ~(m >= x) PROVE FALSE
    OBVIOUS
  <2>2. n - x \in Gaps /\ n - x < n - m /\ n - x \in Nat /\ n - m \in Nat
    BY <1>1, <2>1
  <2>3. QED
    BY <1>3, <1>4, <2>2 DEF Below
<1>6. Max(S) \in S /\ \A x \in S : Max(S) >= x
  BY <1>5 DEF Max
<1>7. QED
  BY <1>6

LEMMA MaxOfEvents ==
  ASSUME NEW S, S \subseteq EventId, S # {}
  PROVE  Max(S) \in S /\ \A x \in S : x <= Max(S)
<1>1. S \subseteq Nat /\ \A x \in S : x <= MaxEvent
  BY MaxEventAssumption DEF EventId
<1>2. QED
  BY <1>1, MaxOfBounded, MaxEventAssumption

LEMMA LatestSound ==
  ASSUME TypeOK
  PROVE  /\ LatestActivityId \in EventId \cup {0}
         /\ \A e \in committed : e <= LatestActivityId
         /\ LatestActivityId # 0 => LatestActivityId \in committed
  BY MaxOfEvents DEF TypeOK, LatestActivityId

-----------------------------------------------------------------------------
(* Writers *)

LEMMA InsertKeepsIInv ==
  ASSUME IInv, Insert
  PROVE  IInv'
<1>1. TypeOK'
  BY MaxEventAssumption DEF IInv, TypeOK, Insert, tab, user, screen, EventId
<1>2. PollerSound'
  BY DEF IInv, Insert, PollerSound, AnswerNonEmpty, PollerAlive, tab, user
<1>3. SingleWriter => OrderedLog'
  BY MaxEventAssumption
  DEF IInv, TypeOK, Insert, OrderedLog, NothingSkipped, tab, EventId
<1>4. QED
  BY <1>1, <1>2, <1>3 DEF IInv

LEMMA CommitKeepsIInv ==
  ASSUME IInv, Commit
  PROVE  IInv'
<1>1. PICK e \in pending : pending' = pending \ {e} /\ committed' = committed \cup {e}
  BY DEF Commit
<1>2. UNCHANGED <<nextId, page, known, visible, typing, shown, missed, refresh, cursor,
                  reported, timer, poll>>
  BY DEF Commit, tab, user, screen
<1>3. TypeOK'
  BY <1>1, <1>2 DEF IInv, TypeOK
<1>4. PollerSound'
  BY <1>1, <1>2 DEF IInv, PollerSound, AnswerNonEmpty, PollerAlive
<1>5. ASSUME SingleWriter
      PROVE  OrderedLog'
  <2>1. \A p \in pending : p = e
    BY <1>5, MaxEventAssumption DEF IInv, TypeOK, OrderedLog, EventId
  <2>2. e \in Nat /\ cursor \in Nat /\ cursor < e /\ \A f \in poll.events : f \in Nat /\ f < e
    BY <1>1, <1>5, MaxEventAssumption DEF IInv, TypeOK, PollerSound, OrderedLog, EventId
  <2>3. /\ pending' = {}
        /\ \A c \in committed' : c < nextId'
    BY <1>1, <1>2, <1>5, <2>1, <2>2, MaxEventAssumption
    DEF IInv, TypeOK, OrderedLog, EventId
  <2>4. \A c \in committed', f \in poll'.events : c > cursor' /\ c <= f => c \in poll'.events
    BY <1>1, <1>2, <1>5, <2>2 DEF IInv, OrderedLog
  <2>5. NothingSkipped'
    BY <1>1, <1>2, <1>5, <2>2 DEF IInv, OrderedLog, NothingSkipped
  <2>6. QED
    BY <1>2, <1>5, <2>3, <2>4, <2>5 DEF IInv, OrderedLog
<1>6. QED
  BY <1>3, <1>4, <1>5 DEF IInv

LEMMA RollBackKeepsIInv ==
  ASSUME IInv, RollBack
  PROVE  IInv'
<1>1. PICK e \in pending : /\ pending' = pending \ {e}
                           /\ nextId' = IF SingleWriter THEN e ELSE nextId
  BY DEF RollBack
<1>2. UNCHANGED <<committed, page, known, visible, typing, shown, missed, refresh, cursor,
                  reported, timer, poll>>
  BY DEF RollBack, tab, user, screen
<1>3. e \in EventId /\ e \in 1..(MaxEvent + 1)
  BY MaxEventAssumption DEF IInv, TypeOK, EventId
<1>4. TypeOK'
  BY <1>1, <1>2, <1>3 DEF IInv, TypeOK
<1>5. PollerSound'
  BY <1>2 DEF IInv, PollerSound, AnswerNonEmpty, PollerAlive
<1>6. ASSUME SingleWriter
      PROVE  OrderedLog'
  <2>1. pending' = {}
    BY <1>1, <1>6, MaxEventAssumption DEF IInv, TypeOK, OrderedLog, EventId
  <2>2. QED
    BY <1>1, <1>2, <1>6, <2>1 DEF IInv, OrderedLog, NothingSkipped
<1>7. QED
  BY <1>4, <1>5, <1>6 DEF IInv

-----------------------------------------------------------------------------
(* The page *)

LEMMA RenderPageKeepsIInv ==
  ASSUME IInv, RenderPage
  PROVE  IInv'
<1>1. TypeOK'
  BY DEF IInv, TypeOK, RenderPage, log, user
<1>2. PollerSound'
  BY DEF IInv, RenderPage, PollerSound, AnswerNonEmpty, PollerAlive, log, user
<1>3. SingleWriter => OrderedLog'
  BY DEF IInv, RenderPage, OrderedLog, NothingSkipped, log
<1>4. QED
  BY <1>1, <1>2, <1>3 DEF IInv

LEMMA OpenPageKeepsIInv ==
  ASSUME IInv, OpenPage
  PROVE  IInv'
<1>1. /\ page = "rendered" /\ page' = "open"
      /\ known' = committed
      /\ cursor' = LatestActivityId
      /\ timer' = visible
      /\ UNCHANGED <<nextId, pending, committed, visible, typing, shown, missed, refresh,
                     reported, poll>>
  BY DEF OpenPage, log, user, screen
<1>2. /\ cursor' \in EventId \cup {0}
      /\ \A e \in committed : e <= cursor'
      /\ cursor' # 0 => cursor' \in committed
  BY <1>1, LatestSound DEF IInv
<1>3. TypeOK'
  BY <1>1, <1>2 DEF IInv, TypeOK
<1>4. reported = {} /\ poll.state = "none" /\ poll.events = {}
  BY <1>1 DEF IInv, PollerSound
<1>5. PollerSound'
  BY <1>1, <1>2, <1>4 DEF PollerSound, AnswerNonEmpty, PollerAlive
<1>6. ASSUME SingleWriter
      PROVE  OrderedLog'
  <2>1. cursor' < nextId /\ \A p \in pending : cursor' < p
    BY <1>2, <1>6, MaxEventAssumption DEF IInv, TypeOK, OrderedLog, EventId
  <2>2. QED
    BY <1>1, <1>4, <1>6, <2>1 DEF IInv, OrderedLog, NothingSkipped
<1>7. QED
  BY <1>3, <1>5, <1>6 DEF IInv

-----------------------------------------------------------------------------
(* Polling *)

LEMMA TimerFiresKeepsIInv ==
  ASSUME IInv, TimerFires
  PROVE  IInv'
<1>1. /\ timer
      /\ \/ timer' = visible /\ poll' = poll /\ (poll.state # "none" \/ ~visible)
         \/ poll.state = "none" /\ timer' = FALSE /\ poll' = [state |-> "sent", events |-> {}]
      /\ UNCHANGED <<nextId, pending, committed, page, known, visible, typing, shown, missed,
                     refresh, cursor, reported>>
  BY DEF TimerFires, NoPoll, log, tab, user, screen
<1>2. TypeOK'
  <2>1. poll' \in [state : {"none", "sent", "newer", "nothing", "answered"},
                   events : SUBSET EventId]
    BY <1>1 DEF IInv, TypeOK
  <2>2. visible \in BOOLEAN /\ (timer' = visible \/ timer' = FALSE)
    BY <1>1 DEF IInv, TypeOK
  <2>3. timer' \in BOOLEAN
    BY <2>2
  <2>4. QED
    BY <1>1, <2>1, <2>3 DEF IInv, TypeOK
<1>3. PollerSound'
  BY <1>1 DEF IInv, PollerSound, AnswerNonEmpty, PollerAlive
<1>4. SingleWriter => OrderedLog'
  BY <1>1 DEF IInv, OrderedLog, NothingSkipped
<1>5. QED
  BY <1>2, <1>3, <1>4 DEF IInv

LEMMA ServerChecksKeepsIInv ==
  ASSUME IInv, ServerChecks
  PROVE  IInv'
<1>1. /\ poll.state = "sent"
      /\ poll' = [poll EXCEPT !.state = IF Newer(cursor) THEN "newer" ELSE "nothing"]
      /\ UNCHANGED <<nextId, pending, committed, page, known, visible, typing, shown, missed,
                     refresh, cursor, reported, timer>>
  BY DEF ServerChecks, log, tab, user, screen
<1>2. /\ poll'.events = poll.events
      /\ poll'.state = IF Newer(cursor) THEN "newer" ELSE "nothing"
      /\ poll' \in [state : {"none", "sent", "newer", "nothing", "answered"},
                    events : SUBSET EventId]
  BY <1>1 DEF IInv, TypeOK
<1>3. Newer(cursor) => \E e \in committed : e > cursor
  BY LatestSound, MaxEventAssumption DEF IInv, TypeOK, Newer, EventId
<1>4. TypeOK'
  BY <1>1, <1>2 DEF IInv, TypeOK
<1>5. PollerSound'
  BY <1>1, <1>2, <1>3 DEF IInv, PollerSound, AnswerNonEmpty, PollerAlive
<1>6. SingleWriter => OrderedLog'
  BY <1>1, <1>2 DEF IInv, OrderedLog, NothingSkipped
<1>7. QED
  BY <1>4, <1>5, <1>6 DEF IInv

LEMMA ServerFetchesKeepsIInv ==
  ASSUME IInv, ServerFetches
  PROVE  IInv'
<1>1. /\ poll.state = "newer"
      /\ poll' = [state |-> "answered", events |-> {e \in committed : e > cursor}]
      /\ UNCHANGED <<nextId, pending, committed, page, known, visible, typing, shown, missed,
                     refresh, cursor, reported, timer>>
  BY DEF ServerFetches, EventsSince, log, tab, user, screen
<1>2. TypeOK'
  BY <1>1 DEF IInv, TypeOK
<1>3. PollerSound'
  BY <1>1 DEF IInv, PollerSound, AnswerNonEmpty, PollerAlive
<1>4. SingleWriter => OrderedLog'
  BY <1>1 DEF IInv, OrderedLog, NothingSkipped
<1>5. QED
  BY <1>2, <1>3, <1>4 DEF IInv

LEMMA RequestedTyped == TypeOK => Requested \in [state : {"none", "sent", "rendered"},
                                                 content : SUBSET EventId, queued : BOOLEAN]
  BY DEF TypeOK, Requested, NoRefresh

LEMMA TakeEventsKeepsIInv ==
  ASSUME IInv, TakeEvents
  PROVE  IInv'
<1>1. /\ poll.state = "answered" /\ poll.events # {}
      /\ cursor' = Max(poll.events)
      /\ reported' = reported \cup poll.events
      /\ poll' = [state |-> "none", events |-> {}]
      /\ timer' = visible
      /\ UNCHANGED <<nextId, pending, committed, page, known, visible, typing, shown>>
  BY DEF TakeEvents, CursorOf, PollEnds, NoPoll, log, tab, user
<1>2. \/ missed' = missed \cup poll.events /\ refresh' = refresh
      \/ missed' = missed /\ refresh' = Requested
  BY DEF TakeEvents
<1>3. poll.events \subseteq EventId
  BY DEF IInv, TypeOK
<1>4. cursor' \in poll.events /\ \A e \in poll.events : e <= cursor'
  BY <1>1, <1>3, MaxOfEvents
<1>5. TypeOK'
  BY <1>1, <1>2, <1>3, <1>4, RequestedTyped DEF IInv, TypeOK
<1>6. page = "open" /\ cursor < cursor' /\ \A e \in known \cup reported : e <= cursor
  BY <1>1, <1>4 DEF IInv, PollerSound
<1>7. cursor \in Nat /\ cursor' \in Nat /\ known \subseteq Nat /\ reported \subseteq Nat
  BY <1>3, <1>4, MaxEventAssumption DEF IInv, TypeOK, EventId
<1>8. PollerSound'
  BY <1>1, <1>4, <1>6, <1>7 DEF IInv, PollerSound, AnswerNonEmpty, PollerAlive
<1>9. ASSUME SingleWriter
      PROVE  OrderedLog'
  <2>1. cursor' \in committed
    BY <1>4 DEF IInv, PollerSound
  <2>2. NothingSkipped'
    <3>1. ASSUME NEW e \in committed, e <= cursor'
          PROVE  e \in known \cup reported'
      <4>1. CASE e <= cursor
        BY <1>1, <1>6, <1>9, <4>1 DEF IInv, OrderedLog, NothingSkipped
      <4>2. CASE e > cursor
        BY <1>1, <1>4, <1>9, <3>1, <4>2 DEF IInv, OrderedLog
      <4>3. e \in Nat
        BY MaxEventAssumption DEF IInv, TypeOK, EventId
      <4>4. QED
        BY <1>7, <4>1, <4>2, <4>3
    <3>2. QED
      BY <1>1, <3>1 DEF NothingSkipped
  <2>3. QED
    BY <1>1, <1>9, <2>1, <2>2 DEF IInv, OrderedLog
<1>10. QED
  BY <1>5, <1>8, <1>9 DEF IInv

\* The polls that change nothing but themselves.
LEMMA PollEndsKeepsIInv ==
  ASSUME IInv, poll.state # "none", PollEnds,
         UNCHANGED <<log, tab, user, screen, cursor, reported>>
  PROVE  IInv'
<1>1. /\ poll' = [state |-> "none", events |-> {}]
      /\ timer' = visible
      /\ UNCHANGED <<nextId, pending, committed, page, known, visible, typing, shown, missed,
                     refresh, cursor, reported>>
  BY DEF PollEnds, NoPoll, log, tab, user, screen
<1>2. TypeOK'
  BY <1>1 DEF IInv, TypeOK
<1>3. PollerSound'
  BY <1>1 DEF IInv, PollerSound, AnswerNonEmpty, PollerAlive
<1>4. SingleWriter => OrderedLog'
  BY <1>1 DEF IInv, OrderedLog, NothingSkipped
<1>5. QED
  BY <1>2, <1>3, <1>4 DEF IInv

-----------------------------------------------------------------------------
(* Refreshes and the user *)

\* A step that leaves the log and the poll alone, and the timer sound.
LEMMA ElsewhereKeepsIInv ==
  ASSUME IInv, TypeOK',
         UNCHANGED <<log, tab, cursor, reported, poll>>,
         timer' => page = "open",
         page = "open" /\ visible' => timer' \/ poll.state # "none"
  PROVE  IInv'
<1>1. UNCHANGED <<nextId, pending, committed, page, known, cursor, reported, poll>>
  BY DEF log, tab
<1>2. PollerSound'
  BY <1>1 DEF IInv, PollerSound, AnswerNonEmpty, PollerAlive
<1>3. SingleWriter => OrderedLog'
  BY <1>1 DEF IInv, OrderedLog, NothingSkipped
<1>4. QED
  BY <1>2, <1>3 DEF IInv

\* RefreshOver leaves a refresh of the right shape.
LEMMA RefreshOverTyped ==
  ASSUME TypeOK, RefreshOver
  PROVE  refresh' \in [state : {"none", "sent", "rendered"}, content : SUBSET EventId,
                       queued : BOOLEAN]
<1>1. NoRefresh \in [state : {"none", "sent", "rendered"}, content : SUBSET EventId,
                     queued : BOOLEAN]
  BY DEF NoRefresh
<1>2. [NoRefresh EXCEPT !.state = "sent"]
        \in [state : {"none", "sent", "rendered"}, content : SUBSET EventId, queued : BOOLEAN]
  BY DEF NoRefresh
<1>3. QED
  BY <1>1, <1>2 DEF RefreshOver

LEMMA RefresherKeepsIInv ==
  ASSUME IInv, Refresher
  PROVE  IInv'
<1>1. UNCHANGED <<log, tab, user, cursor, reported, timer, poll>>
  BY DEF Refresher, RenderRefresh, SwapRefresh, RefreshFails
<1>2. /\ refresh' \in [state : {"none", "sent", "rendered"}, content : SUBSET EventId,
                       queued : BOOLEAN]
      /\ shown' \subseteq EventId
      /\ missed' \subseteq EventId
  <2>1. CASE RenderRefresh
    BY <2>1 DEF RenderRefresh, IInv, TypeOK
  <2>2. CASE SwapRefresh
    <3>1. refresh.content \subseteq EventId /\ shown' = refresh.content /\ missed' \subseteq missed
      BY <2>2 DEF SwapRefresh, IInv, TypeOK
    <3>2. QED
      BY <2>2, <3>1, RefreshOverTyped DEF SwapRefresh, IInv, TypeOK
  <2>3. CASE RefreshFails
    BY <2>3, RefreshOverTyped DEF RefreshFails, IInv, TypeOK
  <2>4. QED
    BY <2>1, <2>2, <2>3 DEF Refresher
<1>3. TypeOK'
  BY <1>1, <1>2 DEF IInv, TypeOK, log, tab, user
<1>4. visible' = visible /\ timer' = timer
  BY <1>1 DEF user
<1>5. QED
  BY <1>1, <1>3, <1>4, ElsewhereKeepsIInv DEF IInv, PollerSound, PollerAlive

LEMMA TurnTabKeepsIInv ==
  ASSUME IInv, TurnTab
  PROVE  IInv'
<1>1. visible' \in BOOLEAN /\ timer' \in BOOLEAN
  BY DEF TurnTab
<1>2. TypeOK'
  BY <1>1 DEF IInv, TypeOK, TurnTab, log, tab, screen
<1>3. timer' <=> timer \/ (visible' /\ page = "open")
  BY DEF TurnTab
<1>4. UNCHANGED <<log, tab, cursor, reported, poll>>
  BY DEF TurnTab
<1>5. QED
  BY <1>2, <1>3, <1>4, ElsewhereKeepsIInv DEF IInv, PollerSound

LEMMA TypingKeepsIInv ==
  ASSUME IInv, StartOrStopTyping
  PROVE  IInv'
<1>1. typing' \in BOOLEAN /\ visible' = visible /\ timer' = timer
  BY DEF StartOrStopTyping
<1>2. TypeOK'
  BY <1>1 DEF IInv, TypeOK, StartOrStopTyping, log, tab, screen
<1>3. UNCHANGED <<log, tab, cursor, reported, poll>>
  BY DEF StartOrStopTyping
<1>4. QED
  BY <1>1, <1>2, <1>3, ElsewhereKeepsIInv DEF IInv, PollerSound, PollerAlive

-----------------------------------------------------------------------------
(* The specification *)

LEMMA InitKeepsIInv == Init => IInv
<1>. SUFFICES ASSUME Init PROVE IInv
  OBVIOUS
<1>1. TypeOK
  <2>1. NoPoll \in [state : {"none", "sent", "newer", "nothing", "answered"},
                    events : SUBSET EventId]
    BY DEF NoPoll
  <2>2. NoRefresh \in [state : {"none", "sent", "rendered"}, content : SUBSET EventId,
                       queued : BOOLEAN]
    BY DEF NoRefresh
  <2>3. 1 \in 1..(MaxEvent + 1)
    BY MaxEventAssumption
  <2>4. QED
    BY <2>1, <2>2, <2>3 DEF Init, TypeOK
<1>2. PollerSound
  BY DEF Init, PollerSound, AnswerNonEmpty, PollerAlive, NoPoll
<1>3. OrderedLog
  BY DEF Init, OrderedLog, NothingSkipped, NoPoll
<1>4. QED
  BY <1>1, <1>2, <1>3 DEF IInv

LEMMA NextKeepsIInv == IInv /\ [Next]_vars => IInv'
<1>. SUFFICES ASSUME IInv, [Next]_vars PROVE IInv'
  OBVIOUS
<1>1. CASE Writer
  BY <1>1, InsertKeepsIInv, CommitKeepsIInv, RollBackKeepsIInv DEF Writer
<1>2. CASE RenderPage
  BY <1>2, RenderPageKeepsIInv
<1>3. CASE OpenPage
  BY <1>3, OpenPageKeepsIInv
<1>4. CASE Poller
  <2>1. CASE TimerFires
    BY <2>1, TimerFiresKeepsIInv
  <2>2. CASE ServerChecks
    BY <2>2, ServerChecksKeepsIInv
  <2>3. CASE ServerFetches
    BY <2>3, ServerFetchesKeepsIInv
  <2>4. CASE TakeEvents
    BY <2>4, TakeEventsKeepsIInv
  <2>5. CASE TakeNothing
    BY <2>5, PollEndsKeepsIInv DEF TakeNothing
  <2>6. QED
    BY <1>4, <2>1, <2>2, <2>3, <2>4, <2>5 DEF Poller
<1>5. CASE PollFails
  BY <1>5, PollEndsKeepsIInv DEF PollFails
<1>6. CASE Refresher
  BY <1>6, RefresherKeepsIInv
<1>7. CASE TurnTab
  BY <1>7, TurnTabKeepsIInv
<1>8. CASE StartOrStopTyping
  BY <1>8, TypingKeepsIInv
<1>9. CASE UNCHANGED vars
  <2>1. UNCHANGED <<log, tab, user, screen, cursor, reported, timer, poll>>
    BY <1>9 DEF vars
  <2>2. TypeOK'
    BY <2>1 DEF IInv, TypeOK, log, tab, user, screen
  <2>3. visible' = visible /\ timer' = timer
    BY <2>1 DEF user
  <2>4. QED
    BY <2>1, <2>2, <2>3, ElsewhereKeepsIInv DEF IInv, PollerSound, PollerAlive
<1>10. QED
  BY <1>1, <1>2, <1>3, <1>4, <1>5, <1>6, <1>7, <1>8, <1>9 DEF Next

LEMMA Invariant == Spec => []IInv
  BY InitKeepsIInv, NextKeepsIInv, PTL DEF Spec

\* On SQLite no change is lost to the poller: an event behind the cursor was in
\* the log when the page read its starting cursor or has been announced.
THEOREM SqliteSkipsNothing == Spec => [](SingleWriter => NothingSkipped)
<1>1. IInv => (SingleWriter => NothingSkipped)
  BY DEF IInv, OrderedLog
<1>2. QED
  BY <1>1, Invariant, PTL

\* On either database no answer repeats what was announced or what was there
\* before the page was opened.
THEOREM EventsAreReportedOnce == Spec => []ReportedOnce
<1>1. ASSUME IInv
      PROVE  ReportedOnce
  <2>1. \A e \in poll.events : e \in Nat
    BY <1>1, MaxEventAssumption DEF IInv, TypeOK, EventId
  <2>2. cursor \in Nat
    BY <1>1, MaxEventAssumption DEF IInv, TypeOK, EventId
  <2>3. QED
    BY <1>1, <2>1, <2>2 DEF IInv, PollerSound, ReportedOnce
<1>2. QED
  BY <1>1, Invariant, PTL

\* On either database live() finds an event in its second query whenever the
\* first one promised it, so it never takes the last element of an empty list.
THEOREM AnswersAreNonEmpty == Spec => []AnswerNonEmpty
<1>1. IInv => AnswerNonEmpty
  BY DEF IInv, PollerSound
<1>2. QED
  BY <1>1, Invariant, PTL

\* A visible tab never stops polling.
THEOREM PollerStaysAlive == Spec => []PollerAlive
<1>1. IInv => PollerAlive
  BY DEF IInv, PollerSound
<1>2. QED
  BY <1>1, Invariant, PTL

\* Every reachable state of writers, server, tab and screen is well typed.
THEOREM TypeCorrect == Spec => []TypeOK
<1>1. IInv => TypeOK
  BY DEF IInv
<1>2. QED
  BY <1>1, Invariant, PTL

-----------------------------------------------------------------------------
(* The screen *)

\* What was announced is in the log.  Content that is about to be swapped in,
\* with no later request behind it, covers all of it: an event announced after
\* the content was computed has queued another request or counts as missed.
ScreenSound ==
    /\ reported \subseteq committed
    /\ AnnouncedIsShown
    /\ refresh.state = "rendered" /\ ~refresh.queued =>
          reported \subseteq refresh.content \cup missed

LEMMA QuietKeepsScreen ==
  ASSUME ScreenSound, committed \subseteq committed', UNCHANGED <<screen, reported>>
  PROVE  ScreenSound'
  BY DEF ScreenSound, AnnouncedIsShown, screen

LEMMA TakeEventsKeepsScreen ==
  ASSUME IInv, ScreenSound, TakeEvents
  PROVE  ScreenSound'
<1>1. /\ reported' = reported \cup poll.events
      /\ UNCHANGED <<shown, committed>>
  BY DEF TakeEvents, log
<1>2. reported' \subseteq committed'
  BY <1>1 DEF IInv, PollerSound, ScreenSound
<1>3. CASE typing
  <2>1. missed' = missed \cup poll.events /\ UNCHANGED refresh
    BY <1>3 DEF TakeEvents
  <2>2. QED
    BY <1>1, <1>2, <2>1 DEF ScreenSound, AnnouncedIsShown
<1>4. CASE ~typing
  <2>1. refresh' = Requested /\ UNCHANGED missed
    BY <1>4 DEF TakeEvents
  <2>2. refresh \in [state : {"none", "sent", "rendered"}, content : SUBSET EventId,
                     queued : BOOLEAN]
    BY DEF IInv, TypeOK
  <2>3. /\ refresh'.state # "none"
        /\ refresh'.state = "rendered" => refresh'.queued
    BY <2>1, <2>2 DEF Requested, NoRefresh
  <2>4. QED
    BY <1>2, <2>3 DEF ScreenSound, AnnouncedIsShown
<1>5. QED
  BY <1>3, <1>4

LEMMA RefresherKeepsScreen ==
  ASSUME IInv, ScreenSound, Refresher
  PROVE  ScreenSound'
<1>1. UNCHANGED <<reported, committed>>
  BY DEF Refresher, RenderRefresh, SwapRefresh, RefreshFails, log
<1>2. refresh \in [state : {"none", "sent", "rendered"}, content : SUBSET EventId,
                   queued : BOOLEAN]
  BY DEF IInv, TypeOK
<1>3. CASE RenderRefresh
  <2>1. refresh'.state = "rendered" /\ refresh'.content = committed
    BY <1>2, <1>3 DEF RenderRefresh
  <2>2. QED
    BY <1>1, <2>1 DEF ScreenSound, AnnouncedIsShown
<1>4. ASSUME RefreshOver
      PROVE  /\ refresh'.state # "rendered"
             /\ refresh'.state = "none" => ~refresh.queued
  BY <1>2, <1>4 DEF RefreshOver, NoRefresh
<1>5. CASE SwapRefresh
  <2>1. /\ refresh.state = "rendered" /\ RefreshOver
        /\ shown' = refresh.content /\ missed' = missed \ refresh.content
    BY <1>5 DEF SwapRefresh
  <2>2. ~refresh.queued => reported \subseteq shown' \cup missed'
    BY <2>1 DEF ScreenSound
  <2>3. QED
    BY <1>1, <1>4, <2>1, <2>2 DEF ScreenSound, AnnouncedIsShown
<1>6. CASE RefreshFails
  <2>1. RefreshOver /\ missed' = missed \cup (reported \ shown) /\ UNCHANGED shown
    BY <1>6 DEF RefreshFails
  <2>2. QED
    BY <1>1, <1>4, <2>1 DEF ScreenSound, AnnouncedIsShown
<1>7. QED
  BY <1>3, <1>5, <1>6 DEF Refresher

LEMMA NextKeepsScreen == IInv /\ ScreenSound /\ [Next]_vars => ScreenSound'
<1>. SUFFICES ASSUME IInv, ScreenSound, [Next]_vars PROVE ScreenSound'
  OBVIOUS
<1>1. CASE Writer
  BY <1>1, QuietKeepsScreen DEF Writer, Insert, Commit, RollBack
<1>2. CASE RenderPage
  <2>1. reported = {} /\ UNCHANGED <<reported, committed, missed, refresh>>
    BY <1>2 DEF IInv, PollerSound, RenderPage, log
  <2>2. QED
    BY <2>1 DEF ScreenSound, AnnouncedIsShown
<1>3. CASE OpenPage
  BY <1>3, QuietKeepsScreen DEF OpenPage, log
<1>4. CASE TakeEvents
  BY <1>4, TakeEventsKeepsScreen
<1>5. CASE TimerFires \/ ServerChecks \/ ServerFetches \/ TakeNothing \/ PollFails
  BY <1>5, QuietKeepsScreen
  DEF TimerFires, ServerChecks, ServerFetches, TakeNothing, PollFails, log
<1>6. CASE Refresher
  BY <1>6, RefresherKeepsScreen
<1>7. CASE TurnTab \/ StartOrStopTyping
  BY <1>7, QuietKeepsScreen DEF TurnTab, StartOrStopTyping, log
<1>8. CASE UNCHANGED vars
  BY <1>8, QuietKeepsScreen DEF vars, log
<1>9. QED
  BY <1>1, <1>2, <1>3, <1>4, <1>5, <1>6, <1>7, <1>8 DEF Next, Poller

LEMMA ScreenInvariant == Spec => []ScreenSound
<1>1. Init => ScreenSound
  BY DEF Init, ScreenSound, AnnouncedIsShown, NoRefresh
<1>2. QED
  BY <1>1, NextKeepsScreen, Invariant, PTL DEF Spec

\* However batches, refreshes, failures and typing interleave, a screen at rest
\* shows what the toasts announced, but for what met a typing user or a failure.
THEOREM ScreenCatchesUp == Spec => []AnnouncedIsShown
<1>1. ScreenSound => AnnouncedIsShown
  BY DEF ScreenSound
<1>2. QED
  BY <1>1, ScreenInvariant, PTL

-----------------------------------------------------------------------------
(* Progress *)

\* When the poller has something to do, as the guards of its actions say.
PollerReady ==
    \/ timer /\ poll.state = "none"
    \/ poll.state \in {"sent", "newer", "nothing"}
    \/ poll.state = "answered" /\ poll.events # {}

\* Weak fairness with the guards written out: who has something to do for good
\* does it.
FairPoller == <>[]PollerReady => []<><<Poller>>_vars
FairRefresher ==
    /\ <>[](refresh.state = "sent") => []<><<RenderRefresh>>_vars
    /\ <>[](refresh.state = "rendered") => []<><<SwapRefresh>>_vars

\* What the prover cannot show, ENABLED being beyond it.
GuardsEnable ==
    /\ PollerReady => ENABLED <<Poller>>_vars
    /\ refresh.state = "sent" => ENABLED <<RenderRefresh>>_vars
    /\ refresh.state = "rendered" => ENABLED <<SwapRefresh>>_vars

\* A change an open, visible tab has not heard of, and the way to its
\* announcement: it waits for a poll to end and a timer to fire, a request goes
\* out, the server sees that there is news, and the answer contains it.
Unheard(e) ==
    /\ page = "open" /\ visible
    /\ e \in committed /\ e \notin known \cup reported
InTheWay(e) == Unheard(e) /\ poll.state \in {"nothing", "answered"} /\ e \notin poll.events
Scheduled(e) == Unheard(e) /\ poll.state = "none" /\ timer
Asked(e) == Unheard(e) /\ poll.state = "sent"
Noticed(e) == Unheard(e) /\ poll.state = "newer"
Answered(e) == Unheard(e) /\ poll.state = "answered" /\ e \in poll.events

LEMMA UnheardIsUnderWay ==
  ASSUME IInv, NEW e \in EventId, Unheard(e)
  PROVE  InTheWay(e) \/ Scheduled(e) \/ Asked(e) \/ Noticed(e) \/ Answered(e)
<1>1. poll.state \in {"none", "sent", "newer", "nothing", "answered"}
  BY DEF IInv, TypeOK
<1>2. timer \/ poll.state # "none"
  BY DEF IInv, PollerSound, PollerAlive, Unheard
<1>3. CASE poll.state = "none"
  BY <1>2, <1>3 DEF Scheduled
<1>4. CASE poll.state \in {"nothing", "answered"}
  <2>1. poll.state = "nothing" => e \notin poll.events
    BY DEF IInv, PollerSound
  <2>2. QED
    BY <1>4, <2>1 DEF InTheWay, Answered
<1>5. QED
  BY <1>1, <1>3, <1>4 DEF Asked, Noticed

LEMMA UnheardKeepsPollerReady ==
  ASSUME IInv, NEW e \in EventId, Unheard(e)
  PROVE  PollerReady
<1>1. poll.state \in {"none", "sent", "newer", "nothing", "answered"}
  BY DEF IInv, TypeOK
<1>2. timer \/ poll.state # "none"
  BY DEF IInv, PollerSound, PollerAlive, Unheard
<1>3. QED
  BY <1>1, <1>2 DEF PollerReady, IInv, PollerSound, AnswerNonEmpty

\* An unheard event is ahead of the cursor.
LEMMA UnheardIsAhead ==
  ASSUME IInv, SingleWriter, NEW e \in EventId, Unheard(e)
  PROVE  e > cursor /\ Newer(cursor) /\ e \in EventsSince(cursor)
<1>1. e \in Nat /\ cursor \in Nat /\ LatestActivityId \in Nat /\ e <= LatestActivityId
  BY LatestSound, MaxEventAssumption DEF IInv, TypeOK, Unheard, EventId
<1>2. e > cursor
  BY <1>1 DEF IInv, OrderedLog, NothingSkipped, Unheard
<1>3. QED
  BY <1>1, <1>2 DEF Newer, EventsSince, Unheard

\* Only the poller moves an unheard event: who else acts leaves it where it is.
LEMMA OthersWait ==
  ASSUME IInv, NEW e \in EventId, Unheard(e), visible',
         Writer \/ RenderPage \/ OpenPage \/ Refresher \/ TurnTab \/ StartOrStopTyping
           \/ UNCHANGED vars
  PROVE  /\ e \in committed' /\ UNCHANGED <<page, known, visible, reported, cursor, poll>>
         /\ poll.state = "none" => timer'
<1>1. page # "rendered" /\ page # "closed"
  BY DEF Unheard
<1>2. CASE Writer
  BY <1>2 DEF Writer, Insert, Commit, RollBack, Unheard, tab, user, IInv, PollerSound,
              PollerAlive
<1>3. CASE Refresher
  BY <1>3 DEF Refresher, RenderRefresh, SwapRefresh, RefreshFails, Unheard, log, tab, user,
              IInv, PollerSound, PollerAlive
<1>4. CASE TurnTab
  BY <1>4 DEF TurnTab, Unheard, log, tab, IInv, TypeOK
<1>5. CASE StartOrStopTyping
  BY <1>5 DEF StartOrStopTyping, Unheard, log, tab, IInv, PollerSound, PollerAlive
<1>6. CASE UNCHANGED vars
  BY <1>6 DEF vars, Unheard, log, tab, user, IInv, PollerSound, PollerAlive
<1>7. QED
  BY <1>1, <1>2, <1>3, <1>4, <1>5, <1>6 DEF RenderPage, OpenPage

\* What the steps of the poller do to an unheard event.
LEMMA PollerMoves ==
  ASSUME IInv, SingleWriter, NEW e \in EventId, Unheard(e), Poller, visible'
  PROVE  \/ UNCHANGED vars
         \/ InTheWay(e) /\ (Scheduled(e) \/ e \in reported)'
         \/ Scheduled(e) /\ Asked(e)'
         \/ Asked(e) /\ Noticed(e)'
         \/ Noticed(e) /\ Answered(e)'
         \/ Answered(e) /\ (e \in reported)'
<1>1. CASE TimerFires
  <2>1. UNCHANGED <<log, tab, user, screen, cursor, reported>> /\ timer
    BY <1>1 DEF TimerFires
  <2>2. CASE poll.state # "none"
    <3>1. timer' = visible /\ UNCHANGED poll
      BY <1>1, <2>2 DEF TimerFires
    <3>2. timer' = timer
      BY <2>1, <3>1 DEF Unheard, IInv, TypeOK
    <3>3. QED
      BY <2>1, <3>1, <3>2 DEF vars
  <2>3. CASE poll.state = "none"
    <3>1. poll'.state = "sent"
      BY <1>1, <2>3 DEF TimerFires, NoPoll, Unheard
    <3>2. QED
      BY <2>1, <2>3, <3>1 DEF Scheduled, Asked, Unheard, log, tab, user
  <2>4. QED
    BY <2>2, <2>3
<1>2. CASE ServerChecks
  <2>1. poll.state = "sent" /\ poll'.state = "newer"
    BY <1>2, UnheardIsAhead DEF ServerChecks, IInv, TypeOK
  <2>2. QED
    BY <1>2, <2>1 DEF ServerChecks, Asked, Noticed, Unheard, log, tab, user
<1>3. CASE ServerFetches
  <2>1. poll.state = "newer" /\ poll'.state = "answered" /\ e \in poll'.events
    BY <1>3, UnheardIsAhead DEF ServerFetches
  <2>2. QED
    BY <1>3, <2>1 DEF ServerFetches, Noticed, Answered, Unheard, log, tab, user
<1>4. CASE TakeEvents \/ TakeNothing
  <2>1. /\ poll.state \in {"nothing", "answered"}
        /\ poll'.state = "none" /\ timer' = visible
        /\ UNCHANGED <<log, tab, user>>
    BY <1>4 DEF TakeEvents, TakeNothing, PollEnds, NoPoll
  <2>2. CASE e \in reported'
    <3>1. poll.state = "nothing" => e \notin poll.events
      BY DEF IInv, PollerSound
    <3>2. QED
      BY <2>1, <2>2, <3>1 DEF InTheWay, Answered
  <2>3. CASE e \notin reported'
    <3>1. e \notin poll.events
      BY <1>4, <2>3 DEF TakeEvents, TakeNothing, IInv, PollerSound
    <3>2. Scheduled(e)'
      BY <2>1, <2>3 DEF Scheduled, Unheard, log, tab, user
    <3>3. QED
      BY <2>1, <3>1, <3>2 DEF InTheWay
  <2>4. QED
    BY <2>2, <2>3
<1>5. QED
  BY <1>1, <1>2, <1>3, <1>4 DEF Poller

Heard(e) == e \in known \cup reported

\* A step that is neither hiding the tab nor a failure, by who takes it.
LEMMA StepOfWhom ==
  ASSUME [Next]_vars, [~PollFails]_vars, ~Poller
  PROVE  Writer \/ RenderPage \/ OpenPage \/ Refresher \/ TurnTab \/ StartOrStopTyping
           \/ UNCHANGED vars
  BY DEF Next

\* Every stage lasts until the poller acts, and then the next one is reached.
LEMMA StageLasts ==
  ASSUME IInv, SingleWriter, NEW e \in EventId, [Next]_vars, [~PollFails]_vars, visible'
  PROVE  /\ InTheWay(e) => (InTheWay(e) \/ Scheduled(e) \/ Heard(e))'
         /\ Scheduled(e) => (Scheduled(e) \/ Asked(e))'
         /\ Asked(e) => (Asked(e) \/ Noticed(e))'
         /\ Noticed(e) => (Noticed(e) \/ Answered(e))'
         /\ Answered(e) => (Answered(e) \/ Heard(e))'
<1>. SUFFICES ASSUME Unheard(e)
              PROVE  \/ /\ e \in committed'
                        /\ UNCHANGED <<page, known, visible, reported, cursor, poll>>
                        /\ poll.state = "none" => timer' \/ ~timer
                     \/ InTheWay(e) /\ (Scheduled(e) \/ e \in reported)'
                     \/ Scheduled(e) /\ Asked(e)'
                     \/ Asked(e) /\ Noticed(e)'
                     \/ Noticed(e) /\ Answered(e)'
                     \/ Answered(e) /\ (e \in reported)'
  BY DEF InTheWay, Scheduled, Asked, Noticed, Answered, Heard, Unheard
<1>1. CASE Poller
  <2>1. CASE UNCHANGED vars
    BY <2>1, OthersWait
  <2>2. QED
    BY <1>1, <2>1, PollerMoves
<1>2. CASE ~Poller
  BY <1>2, StepOfWhom, OthersWait
<1>3. QED
  BY <1>1, <1>2

LEMMA StageEnds ==
  ASSUME IInv, SingleWriter, NEW e \in EventId, <<Poller>>_vars, visible'
  PROVE  /\ InTheWay(e) => (Scheduled(e) \/ Heard(e))'
         /\ Scheduled(e) => Asked(e)'
         /\ Asked(e) => Noticed(e)'
         /\ Noticed(e) => Answered(e)'
         /\ Answered(e) => Heard(e)'
<1>. SUFFICES ASSUME Unheard(e)
              PROVE  \/ InTheWay(e) /\ (Scheduled(e) \/ e \in reported)'
                     \/ Scheduled(e) /\ Asked(e)'
                     \/ Asked(e) /\ Noticed(e)'
                     \/ Noticed(e) /\ Answered(e)'
                     \/ Answered(e) /\ (e \in reported)'
  BY DEF InTheWay, Scheduled, Asked, Noticed, Answered, Heard, Unheard
<1>1. QED
  BY PollerMoves

\* A tab that is open stays open, and what is committed stays in the log.
LEMMA OpenAndCommittedStay ==
  ASSUME NEW e \in EventId, page = "open", e \in committed, [Next]_vars
  PROVE  page' = "open" /\ e \in committed'
<1>1. CASE Writer \/ RenderPage \/ OpenPage \/ PollFails \/ TurnTab \/ StartOrStopTyping
  BY <1>1 DEF Writer, Insert, Commit, RollBack, RenderPage, OpenPage, PollFails, TurnTab,
              StartOrStopTyping, log, tab
<1>2. CASE Poller \/ Refresher
  BY <1>2 DEF Poller, TimerFires, ServerChecks, ServerFetches, TakeEvents, TakeNothing,
              Refresher, RenderRefresh, SwapRefresh, RefreshFails, log, tab
<1>3. CASE UNCHANGED vars
  BY <1>3 DEF vars, log, tab
<1>4. QED
  BY <1>1, <1>2, <1>3 DEF Next

\* On SQLite a tab that stays visible, with polls that eventually stop failing,
\* announces every change: a change that is not heard of keeps the poller busy,
\* and each of its steps brings the announcement nearer.
THEOREM EveryChangeIsReported ==
  ASSUME SingleWriter
  PROVE  Spec /\ FairPoller => EveryChangeReported
<1>. SUFFICES ASSUME NEW e \in EventId
              PROVE  Spec /\ FairPoller /\ <>[]visible /\ <>[][~PollFails]_vars
                       => [](page = "open" /\ e \in committed => <>Heard(e))
  BY DEF EveryChangeReported, Heard
<1>1. /\ IInv /\ [Next]_vars /\ [~PollFails]_vars /\ visible' =>
           /\ InTheWay(e) => (InTheWay(e) \/ Scheduled(e) \/ Heard(e))'
           /\ Scheduled(e) => (Scheduled(e) \/ Asked(e))'
           /\ Asked(e) => (Asked(e) \/ Noticed(e))'
           /\ Noticed(e) => (Noticed(e) \/ Answered(e))'
           /\ Answered(e) => (Answered(e) \/ Heard(e))'
  BY StageLasts
<1>2. IInv /\ <<Poller>>_vars /\ visible' =>
           /\ InTheWay(e) => (Scheduled(e) \/ Heard(e))'
           /\ Scheduled(e) => Asked(e)'
           /\ Asked(e) => Noticed(e)'
           /\ Noticed(e) => Answered(e)'
           /\ Answered(e) => Heard(e)'
  BY StageEnds
<1>3. IInv /\ Unheard(e) =>
           InTheWay(e) \/ Scheduled(e) \/ Asked(e) \/ Noticed(e) \/ Answered(e)
  BY UnheardIsUnderWay
<1>4. IInv /\ Unheard(e) => PollerReady
  BY UnheardKeepsPollerReady
<1>5. page = "open" /\ e \in committed /\ [Next]_vars => (page = "open" /\ e \in committed)'
  BY OpenAndCommittedStay
<1>6. page = "open" /\ e \in committed /\ visible => Unheard(e) \/ Heard(e)
  BY DEF Unheard, Heard
<1>7. QED
  BY <1>1, <1>2, <1>3, <1>4, <1>5, <1>6, Invariant, PTL DEF Spec, FairPoller

\* An announced event the screen owes its user, and the way there: the content
\* about to be swapped in is older than the event, so a request is queued; the
\* request is out; the content computed for it has the event.
Owed(e) == e \in reported /\ e \notin shown \cup missed
Overtaken(e) ==
    Owed(e) /\ refresh.state = "rendered" /\ refresh.queued /\ e \notin refresh.content
Requesting(e) == Owed(e) /\ refresh.state = "sent"
Arriving(e) == Owed(e) /\ refresh.state = "rendered" /\ e \in refresh.content
Settled(e) == e \in shown \cup missed

LEMMA OwedIsUnderWay ==
  ASSUME IInv, ScreenSound, NEW e \in EventId, e \in reported
  PROVE  Overtaken(e) \/ Requesting(e) \/ Arriving(e) \/ Settled(e)
  BY DEF IInv, TypeOK, ScreenSound, AnnouncedIsShown, Owed, Overtaken, Requesting, Arriving,
         Settled

\* The end of a refresh sends the queued request, if there is one.
LEMMA RefreshOverSends ==
  ASSUME RefreshOver, refresh.queued
  PROVE  refresh'.state = "sent"
  BY DEF RefreshOver, NoRefresh

LEMMA RefreshStepsMove ==
  ASSUME IInv, ScreenSound, NEW e \in EventId, Refresher
  PROVE  /\ Overtaken(e) => (Requesting(e) \/ Settled(e))'
         /\ Requesting(e) => (Arriving(e) \/ Settled(e))'
         /\ Arriving(e) => Settled(e)'
<1>. SUFFICES ASSUME Owed(e), refresh.state = "sent" \/ e \in refresh.content \/ refresh.queued
              PROVE  \/ Overtaken(e) /\ (Requesting(e) \/ Settled(e))'
                     \/ Requesting(e) /\ (Arriving(e) \/ Settled(e))'
                     \/ Arriving(e) /\ Settled(e)'
  BY DEF Overtaken, Requesting, Arriving
<1>1. reported' = reported /\ e \in committed
  BY DEF Refresher, RenderRefresh, SwapRefresh, RefreshFails, Owed, ScreenSound
<1>2. CASE RenderRefresh
  <2>1. /\ refresh.state = "sent" /\ UNCHANGED <<shown, missed>>
        /\ refresh'.state = "rendered" /\ refresh'.content = committed
    BY <1>2 DEF RenderRefresh, IInv, TypeOK
  <2>2. QED
    BY <1>1, <2>1 DEF Owed, Requesting, Arriving
<1>3. CASE SwapRefresh
  <2>1. /\ refresh.state = "rendered" /\ RefreshOver
        /\ shown' = refresh.content /\ missed' = missed \ refresh.content
    BY <1>3 DEF SwapRefresh
  <2>2. CASE e \in refresh.content
    BY <2>1, <2>2 DEF Arriving, Settled
  <2>3. CASE e \notin refresh.content
    BY <1>1, <2>1, <2>3, RefreshOverSends DEF Overtaken, Requesting, Owed
  <2>4. QED
    BY <2>2, <2>3
<1>4. CASE RefreshFails
  <2>1. refresh.state # "none" /\ e \in missed'
    BY <1>4 DEF RefreshFails, Owed
  <2>2. refresh.state \in {"sent", "rendered"}
    BY <2>1 DEF IInv, TypeOK
  <2>3. QED
    BY <2>1, <2>2 DEF Overtaken, Requesting, Arriving, Settled
<1>5. QED
  BY <1>2, <1>3, <1>4 DEF Refresher

\* Other steps leave the refresh that is out alone, but for queueing a request.
LEMMA OthersKeepRefresh ==
  ASSUME IInv, NEW e \in EventId, Owed(e), refresh.state # "none", [Next]_vars, ~Refresher
  PROVE  /\ e \in reported' /\ shown' = shown
         /\ refresh'.state = refresh.state /\ refresh'.content = refresh.content
         /\ refresh.queued => refresh'.queued
<1>1. page = "open"
  BY DEF Owed, IInv, PollerSound
<1>2. CASE TakeEvents
  <2>1. reported' = reported \cup poll.events /\ shown' = shown
    BY <1>2 DEF TakeEvents
  <2>2. refresh' = refresh \/ refresh' = [refresh EXCEPT !.queued = TRUE]
    BY <1>2 DEF TakeEvents, Requested
  <2>3. refresh \in [state : {"none", "sent", "rendered"}, content : SUBSET EventId,
                     queued : BOOLEAN]
    BY DEF IInv, TypeOK
  <2>4. QED
    BY <2>1, <2>2, <2>3 DEF Owed
<1>3. CASE Writer \/ OpenPage \/ TurnTab \/ StartOrStopTyping \/ PollFails
  BY <1>3 DEF Writer, Insert, Commit, RollBack, OpenPage, TurnTab, StartOrStopTyping,
              PollFails, Owed, screen
<1>4. CASE TimerFires \/ ServerChecks \/ ServerFetches \/ TakeNothing
  BY <1>4 DEF TimerFires, ServerChecks, ServerFetches, TakeNothing, Owed, screen
<1>5. CASE UNCHANGED vars
  BY <1>5 DEF vars, Owed, screen
<1>6. QED
  BY <1>1, <1>2, <1>3, <1>4, <1>5 DEF Next, Poller, RenderPage

LEMMA OwedLasts ==
  ASSUME IInv, ScreenSound, NEW e \in EventId, [Next]_vars
  PROVE  /\ Overtaken(e) => (Overtaken(e) \/ Requesting(e) \/ Settled(e))'
         /\ Requesting(e) => (Requesting(e) \/ Arriving(e) \/ Settled(e))'
         /\ Arriving(e) => (Arriving(e) \/ Settled(e))'
<1>1. CASE Refresher
  BY <1>1, RefreshStepsMove
<1>2. CASE ~Refresher
  BY <1>2, OthersKeepRefresh DEF Owed, Overtaken, Requesting, Arriving, Settled
<1>3. QED
  BY <1>1, <1>2

\* On either database, what a toast announces reaches the screen, unless it met
\* a typing user or a failed request: at most two more refreshes away.
THEOREM AnnouncementsReachTheScreen == Spec /\ FairRefresher => AnnouncedGetsShown
<1>. SUFFICES ASSUME NEW e \in EventId
              PROVE  Spec /\ FairRefresher => [](e \in reported => <>Settled(e))
  BY DEF AnnouncedGetsShown, Settled
<1>1. IInv /\ ScreenSound /\ [Next]_vars =>
           /\ Overtaken(e) => (Overtaken(e) \/ Requesting(e) \/ Settled(e))'
           /\ Requesting(e) => (Requesting(e) \/ Arriving(e) \/ Settled(e))'
           /\ Arriving(e) => (Arriving(e) \/ Settled(e))'
  BY OwedLasts
<1>2. IInv /\ ScreenSound /\ <<RenderRefresh>>_vars /\ Requesting(e) => (Arriving(e) \/ Settled(e))'
  BY RefreshStepsMove DEF Refresher
<1>3. IInv /\ ScreenSound /\ <<SwapRefresh>>_vars =>
           /\ Overtaken(e) => (Requesting(e) \/ Settled(e))'
           /\ Arriving(e) => Settled(e)'
  BY RefreshStepsMove DEF Refresher
<1>4. IInv /\ ScreenSound /\ e \in reported =>
           Overtaken(e) \/ Requesting(e) \/ Arriving(e) \/ Settled(e)
  BY OwedIsUnderWay
<1>5. /\ Requesting(e) => refresh.state = "sent"
      /\ Overtaken(e) \/ Arriving(e) => refresh.state = "rendered"
  BY DEF Requesting, Overtaken, Arriving
<1>6. QED
  BY <1>1, <1>2, <1>3, <1>4, <1>5, Invariant, ScreenInvariant, PTL DEF Spec, FairRefresher

\* The same under the fairness of the specification.
THEOREM FairTabsCatchUp ==
  ASSUME SingleWriter
  PROVE  FairSpec /\ []GuardsEnable => EveryChangeReported /\ AnnouncedGetsShown
<1>1. FairSpec /\ []GuardsEnable => Spec /\ FairPoller /\ FairRefresher
  BY PTL DEF FairSpec, Fairness, GuardsEnable, FairPoller, FairRefresher
<1>2. QED
  BY <1>1, EveryChangeIsReported, AnnouncementsReachTheScreen, PTL
=============================================================================
