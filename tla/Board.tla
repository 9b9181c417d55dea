-------------------------------- MODULE Board --------------------------------
(***************************************************************************)
(* What is read off the tables of Delivery: the stage of a slice, computed *)
(* in Python for one slice and in SQL for a list of them, and the pages    *)
(* and tools that are built from it - the org's board and the area boards, *)
(* the areas overview and the sidebar, Home, and get_project_state.        *)
(*                                                                         *)
(* Nothing here is stored.  Each definition is one query or projection;    *)
(* orders within a list are left out with the ranks.  The properties say   *)
(* that the projections agree with each other in every reachable database. *)
(***************************************************************************)
EXTENDS Delivery

CONSTANTS
    ShippedLimit,   \* Org.shipped_board_limit, in mode "count"
    ListLimit,      \* list_slices' limit: 50 unless the agent gives one
    InboxSizes      \* how many tickets may be open (rows of Tickets)
ASSUME LimitAssumption ==
    ShippedLimit \in Nat /\ ListLimit \in Nat \ {0} /\ InboxSizes \subseteq Nat

S == LiveSlices(db)
StatusOf(s) == db.slice[s].status
WithStatusIn(statuses) == {s \in S : StatusOf(s) \in statuses}
BiteStatus(b) == db.bite[b].status

-----------------------------------------------------------------------------
(* Stages *)

\* Mutant: done = total, with nothing said about zero.
StageWithoutZero(status, spec, plans, done, total) ==
    CASE status \in {"shipped", "dropped"} -> status
      [] OTHER -> IF ~spec THEN "needs_design" ELSE IF plans = 0 THEN "needs_plan"
                  ELSE IF done < total THEN "executing" ELSE "ready_to_ship"

\* slice_stage()
SliceStage(status, spec, plans, done, total) ==
    CASE status \in {"shipped", "dropped"} -> status
      [] OTHER -> IF ~spec THEN "needs_design"
                  ELSE IF plans = 0 THEN "needs_plan"
                  ELSE IF total = 0 THEN "needs_bites"
                  ELSE IF done < total THEN "executing"
                  ELSE "ready_to_ship"

\* bite_progress()
BiteProgress(s) ==
    LET counted == {b \in SliceBites(db, s) : BiteStatus(b) # "dropped"} IN
    <<Cardinality({b \in counted : BiteStatus(b) = "done"}), Cardinality(counted)>>

\* stage_counts(): <<plans, bites done, bites>>, asked for one slice.
StageCounts(s) ==
    <<Cardinality(PlansOf(db, s)), BiteProgress(s)[1], BiteProgress(s)[2]>>

\* The rows of slice LEFT JOIN plans LEFT JOIN bites.
JoinedRows(s) ==
    {r \in PlansOf(db, s) \X SliceBites(db, s) : db.bite[r[2]].plan = r[1]}
        \cup {<<p, None>> : p \in {q \in PlansOf(db, s) : BitesOf(db, q) = {}}}

\* Mutant: the counts lose distinct=True.
CountsWithFanOut(s) ==
    LET rows == JoinedRows(s)
        with(statuses) == {r \in rows : r[2] # None /\ BiteStatus(r[2]) \in statuses}
    IN  <<Cardinality(rows), Cardinality(with({"done"})),
          Cardinality(with(BiteStatuses \ {"dropped"}))>>

\* annotate_stage_counts(): the same three numbers, as distinct keys of a join.
AnnotatedCounts(s) ==
    LET rows == JoinedRows(s)
        bites(statuses) ==
            {r[2] : r \in {x \in rows : x[2] # None /\ BiteStatus(x[2]) \in statuses}}
    IN  <<Cardinality({r[1] : r \in rows}), Cardinality(bites({"done"})),
          Cardinality(bites(BiteStatuses \ {"dropped"}))>>

\* stage_of(), for an annotated slice and for a bare one.
StageFrom(s, counts) ==
    SliceStage(StatusOf(s), db.slice[s].spec, counts[1], counts[2], counts[3])
StageOf(s) == StageFrom(s, AnnotatedCounts(s))
StageOfOne(s) == StageFrom(s, StageCounts(s))

-----------------------------------------------------------------------------
(* The boards *)

StageBoardOrder == {"needs_design", "needs_plan", "executing", "ready_to_ship", "shipped"}
ASSUME StringAssumption == None \notin StageBoardOrder \cup {"someday"}

\* Mutant: an empty plan has no column.
ColumnWithoutFold(stage) == IF stage \in StageBoardOrder THEN stage ELSE None

\* stage_column()
StageColumn(stage) ==
    IF stage = "needs_bites" THEN "needs_plan"
    ELSE IF stage \in StageBoardOrder THEN stage ELSE None

\* cap_shipped(): how many of the shipped are shown.  The recent ones are; in
\* mode "days" it may be any number.
VisibleShipped(total) == IF total < ShippedLimit THEN total ELSE ShippedLimit

BoardOf(slices) ==
    LET stage == [s \in slices |-> StageOf(s)]
        column == [c \in StageBoardOrder |-> {s \in slices : StageColumn(stage[s]) = c}]
        shipped == Cardinality(column["shipped"])
    IN  [columns |-> [c \in StageBoardOrder \ {"shipped"} |-> column[c]],
         shipped_total |-> shipped,
         shipped_hidden |-> shipped - VisibleShipped(shipped),
         dropped_count |-> Cardinality({s \in slices : stage[s] = "dropped"})]

\* roadmap_board_view() and area_board_view()
RoadmapBoardView == BoardOf(S)
AreaBoardView(a) == BoardOf(SlicesOf(db, a))

\* roadmap(): the flat list behind a status link.
RoadmapState(status) == WithStatusIn({status})

\* How many slices a board accounts for.
OnBoard(board) ==
    Cardinality(UNION {board.columns[c] : c \in DOMAIN board.columns}) + board.shipped_total

-----------------------------------------------------------------------------
(* Areas *)

\* list_areas(), which the sidebar and the overview ask: areas not archived.
\* Area.archived is set in the admin only and no operation of Delivery reads or
\* writes it, so it is a parameter: the areas archived, of any state.
ListedAreas(archived) == {a \in Area : LiveArea(db, a)} \ archived

\* sidebar_areas(), area_rename(): COUNT(slices) FILTER (status <> 'dropped')
SidebarCount(a) == Cardinality({s \in SlicesOf(db, a) : StatusOf(s) # "dropped"})

\* areas(): the counts on an area's card.
AreaCard(a) ==
    LET count(status) == Cardinality({s \in SlicesOf(db, a) : StatusOf(s) = status}) IN
    [total |-> count("planned") + count("building") + count("shipped"),
     building |-> count("building"), shipped |-> count("shipped")]

-----------------------------------------------------------------------------
(* Home, and what agents read *)

\* home_state()
HomeState ==
    [building |-> WithStatusIn({"building"}), shipped |-> WithStatusIn({"shipped"}),
     planned_ct |-> Cardinality(WithStatusIn({"planned"})),
     someday_ct |-> Cardinality((S \ WithStatusIn({"shipped"})) \cap db.someday)]

\* A slice's row among those that wait for a human, and the one row for all
\* the tickets that wait for triage.
SliceRows(slices) == {[slice |-> s, tickets |-> 0] :
                        s \in {x \in slices : StageOf(x) \in {"needs_design", "ready_to_ship"}}}
TicketsRow(open) == IF open = 0 THEN {} ELSE {[slice |-> None, tickets |-> open]}

\* Mutant: planned slices wait for a human too.
TurnOfPlanned(open) == SliceRows(WithStatusIn({"planned", "building"})) \cup TicketsRow(open)

\* your_turn(), with so many tickets open.
YourTurn(open) == SliceRows(WithStatusIn({"building"})) \cup TicketsRow(open)

\* snapshot_today(), as home() calls it: the row of the day.
Snapshot(open) ==
    [building_ct |-> Cardinality(HomeState.building),
     backlog_ct |-> HomeState.planned_ct + HomeState.someday_ct,
     attention_ct |-> Cardinality(YourTurn(open))]

\* _area_state()
AreaState(a) ==
    LET slices == SlicesOf(db, a)
        parked == {s \in slices : s \in db.someday /\ StatusOf(s) # "shipped"}
        building == (slices \cap WithStatusIn({"building"})) \ parked
    IN  [shipped |-> slices \cap WithStatusIn({"shipped"}),
         building |-> building,
         roadmap |-> (slices \cap WithStatusIn({"planned"})) \ parked,
         someday |-> parked,
         open_bites |-> Cardinality({b \in LiveBites(db) :
                            /\ BiteStatus(b) \in {"todo", "doing"}
                            /\ \E s \in building : b \in SliceBites(db, s)})]

\* get_project_state(): the area asked for, archived or not, or all that are
\* listed.
ProjectState(asked, archived) ==
    [a \in IF asked # None THEN {asked} ELSE ListedAreas(archived) |-> AreaState(a)]

\* query_slices(): a filter left out is None, no limit is 0.  The first rows by
\* rank are returned: with the ranks left out, any of them.  The filters by text
\* and assignee are left out with what they read.
QuerySlices(area, status, tag, limit) ==
    LET found == {s \in S : /\ area # None => db.slice[s].area = area
                            /\ status # None => StatusOf(s) = status
                            /\ tag = "someday" => s \in db.someday}
    IN  IF limit = 0 \/ Cardinality(found) <= limit THEN {found}
        ELSE {rows \in SUBSET found : Cardinality(rows) = limit}

\* The tool list_slices(): what it may answer.
ListSlicesTool(area, status, tag, limit) ==
    {{<<s, StageOf(s)>> : s \in rows} : rows \in QuerySlices(area, status, tag, limit)}

\* get_slice(): the Stage line and the ticked boxes of its markdown.
SliceMarkdown(s) ==
    [stage |-> StageOfOne(s),
     ticked |-> {b \in SliceBites(db, s) : BiteStatus(b) = "done"}]

-----------------------------------------------------------------------------
(* Properties *)

\* A slice is ready to ship exactly when it has a spec, is neither shipped nor
\* dropped, and its plans hold at least one bite that was not dropped and no
\* such bite that is not done: neither an empty plan nor one whose bites were
\* all dropped counts, and a dropped bite never holds a slice back
\* (slice_stage, bite_progress).
ReadyToShipIsFinished == \A s \in S :
    StageOf(s) = "ready_to_ship" <=>
        /\ StatusOf(s) \in {"planned", "building"} /\ db.slice[s].spec
        /\ \E b \in SliceBites(db, s) : BiteStatus(b) # "dropped"
        /\ \A b \in SliceBites(db, s) : BiteStatus(b) \in {"done", "dropped"}

\* No slice is lost between the columns: the org's board shows every slice in
\* exactly one column, or counts it as shipped or as dropped, and each column
\* is made of the same columns of the area boards (roadmap_board_view and
\* area_board_view both index their columns with stage_column).
BoardIsComplete ==
    LET board == RoadmapBoardView
        areas == {AreaBoardView(a) : a \in Area}
    IN  /\ \A s \in S : Cardinality({c \in DOMAIN board.columns : s \in board.columns[c]})
                        = IF StatusOf(s) \in {"shipped", "dropped"} THEN 0 ELSE 1
        /\ OnBoard(board) + board.dropped_count = Cardinality(S)
        /\ \A c \in DOMAIN board.columns :
               board.columns[c] = UNION {area.columns[c] : area \in areas}

\* Two ways to count are one number: the counts annotated in SQL are those of
\* the Python queries; the markdown ticks as many boxes as bites are done and
\* gives the stage the list_slices tool gives; the sidebar's delete confirmation,
\* the areas overview, the area's board and the tool asked without a limit speak
\* of the same number of slices.  With its limit the tool answers that many of
\* them, or all if there are fewer, each with its stage.
CountsAgree ==
    /\ \A s \in S : /\ AnnotatedCounts(s) = StageCounts(s)
                    /\ Cardinality(SliceMarkdown(s).ticked) = BiteProgress(s)[1]
                    /\ \A answer \in ListSlicesTool(None, None, None, 0) :
                           <<s, SliceMarkdown(s).stage>> \in answer
    /\ \A a \in Area : LiveArea(db, a) =>
           LET board == AreaBoardView(a)
               total == SidebarCount(a) + board.dropped_count
           IN  /\ SidebarCount(a) = AreaCard(a).total
               /\ SidebarCount(a) = OnBoard(board)
               /\ \A answer \in ListSlicesTool(a, None, None, 0) : Cardinality(answer) = total
               /\ \A answer \in ListSlicesTool(a, None, None, ListLimit) :
                      /\ Cardinality(answer) = IF total <= ListLimit THEN total ELSE ListLimit
                      /\ answer \subseteq {<<s, SliceMarkdown(s).stage>> : s \in SlicesOf(db, a)}

\* Home hides nothing and invents nothing: the slices that wait for a human are
\* those being built that stand in the first or the last working column of the
\* board, and the day's attention count is their number, and one for the Inbox
\* unless it is empty.  get_project_state lists each slice that was not dropped
\* exactly once, if its area is the one asked for, or is not archived when none
\* is, and nowhere otherwise; it calls building and shipped what Home and the
\* roadmap do.
HomeAgrees ==
    LET home == HomeState
        columns == RoadmapBoardView.columns
        waiting == home.building \cap (columns["needs_design"] \cup columns["ready_to_ship"])
    IN  /\ \A open \in InboxSizes :
               /\ {row.slice : row \in YourTurn(open)} \ {None} = waiting
               /\ Snapshot(open).attention_ct
                      = Cardinality(waiting) + IF open = 0 THEN 0 ELSE 1
        /\ \A asked \in {None} \cup ListedAreas({}), archived \in SUBSET Area :
               LET state == ProjectState(asked, archived)
                   shown(a) == IF asked = None THEN a \notin archived ELSE a = asked
                   lists(a) == <<state[a].shipped, state[a].building,
                                 state[a].roadmap, state[a].someday>>
               IN  /\ \A s \in S : StatusOf(s) # "dropped" =>
                          Cardinality({p \in (DOMAIN state) \X (1..4) : s \in lists(p[1])[p[2]]})
                              = IF shown(db.slice[s].area) THEN 1 ELSE 0
                   /\ \A a \in DOMAIN state :
                          /\ state[a].shipped = RoadmapState("shipped") \cap SlicesOf(db, a)
                          /\ state[a].building
                                 = (home.building \ db.someday) \cap SlicesOf(db, a)

=============================================================================
