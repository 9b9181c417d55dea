------------------------------ MODULE BoardProof ------------------------------
(***************************************************************************)
(* The projections of Board agree with each other in every database that   *)
(* Delivery reaches, whatever the number of areas, slices, plans, bites    *)
(* and workers.  The argument needs no more of a database than its type    *)
(* and its foreign keys.                                                   *)
(***************************************************************************)
EXTENDS Board, DeliveryProof, FiniteSetTheorems

Sound == db \in Database /\ NoOrphansIn(db)

Counted(s) == {b \in SliceBites(db, s) : BiteStatus(b) # "dropped"}
Done(s) == {b \in SliceBites(db, s) : BiteStatus(b) = "done"}

-----------------------------------------------------------------------------
(* Finite sets *)

LEMMA FiniteRows ==
  /\ \A T : T \subseteq Slice => IsFiniteSet(T)
  /\ \A T : T \subseteq Plan => IsFiniteSet(T)
  /\ \A T : T \subseteq Bite => IsFiniteSet(T)
  BY FiniteAssumption, FS_Subset

LEMMA CardinalityNat == ASSUME NEW T, IsFiniteSet(T) PROVE Cardinality(T) \in Nat
  BY FS_CardinalityType

LEMMA NoneLeft ==
  ASSUME NEW T, IsFiniteSet(T)
  PROVE  Cardinality(T) = 0 <=> T = {}
  BY FS_EmptySet

LEMMA AllOfThem ==
  ASSUME NEW T, IsFiniteSet(T), NEW U, U \subseteq T
  PROVE  /\ Cardinality(U) <= Cardinality(T)
         /\ ~(Cardinality(U) < Cardinality(T)) <=> U = T
<1>1. IsFiniteSet(U) /\ Cardinality(U) <= Cardinality(T)
      /\ (Cardinality(T) = Cardinality(U) => T = U)
  BY FS_Subset
<1>2. Cardinality(U) \in Nat /\ Cardinality(T) \in Nat
  BY <1>1, CardinalityNat
<1> DEFINE u == Cardinality(U)
           t == Cardinality(T)
<1>3. u \in Nat /\ t \in Nat /\ u <= t
  BY <1>1, <1>2
<1>4. U = T => u = t
  OBVIOUS
<1>5. u = t => U = T
  BY <1>1
<1> HIDE DEF u, t
<1>6. ~(u < t) <=> u = t
  BY <1>3
<1>7. QED
  BY <1>3, <1>4, <1>5, <1>6 DEF u, t

\* Sets that have nothing in common.
LEMMA Apart ==
  ASSUME NEW T, IsFiniteSet(T), NEW U, IsFiniteSet(U), T \cap U = {}
  PROVE  Cardinality(T \cup U) = Cardinality(T) + Cardinality(U)
<1>1. Cardinality(T \cup U) = Cardinality(T) + Cardinality(U) - Cardinality(T \cap U)
  BY FS_Union
<1>2. Cardinality(T \cap U) = 0
  BY FS_EmptySet
<1>3. Cardinality(T) \in Nat /\ Cardinality(U) \in Nat
  BY CardinalityNat
<1>4. QED
  BY <1>1, <1>2, <1>3

-----------------------------------------------------------------------------
(* Stages *)

LEMMA BitesFinite ==
  ASSUME NEW s
  PROVE  /\ SliceBites(db, s) \subseteq Bite /\ PlansOf(db, s) \subseteq Plan
         /\ IsFiniteSet(PlansOf(db, s)) /\ IsFiniteSet(Counted(s)) /\ IsFiniteSet(Done(s))
<1>1. /\ SliceBites(db, s) \subseteq Bite /\ PlansOf(db, s) \subseteq Plan
  BY DEF SliceBites, LiveBites, PlansOf, LivePlans
<1>2. Counted(s) \subseteq Bite /\ Done(s) \subseteq Bite
  BY <1>1 DEF Counted, Done
<1>3. QED
  BY <1>1, <1>2, FiniteRows

LEMMA CountsOf ==
  ASSUME NEW s
  PROVE  StageCounts(s) = <<Cardinality(PlansOf(db, s)), Cardinality(Done(s)),
                            Cardinality(Counted(s))>>
<1>1. {b \in Counted(s) : BiteStatus(b) = "done"} = Done(s)
  BY DEF Counted, Done
<1>2. BiteProgress(s) = <<Cardinality(Done(s)), Cardinality(Counted(s))>>
  BY <1>1 DEF BiteProgress, Counted
<1>3. QED
  BY <1>2 DEF StageCounts

\* The distinct keys of the join are the rows it joins.
LEMMA JoinKeys ==
  ASSUME Sound, NEW s, NEW statuses
  PROVE  /\ {r[1] : r \in JoinedRows(s)} = PlansOf(db, s)
         /\ {r[2] : r \in {x \in JoinedRows(s) : x[2] # None /\ BiteStatus(x[2]) \in statuses}}
                = {b \in SliceBites(db, s) : BiteStatus(b) \in statuses}
<1> DEFINE rows == JoinedRows(s)
           plans == PlansOf(db, s)
           bites == SliceBites(db, s)
<1>1. \A r \in rows : /\ r[1] \in plans
                      /\ r[2] # None => r[2] \in bites
  BY DEF JoinedRows
<1>2. \A b \in bites : b # None /\ <<db.bite[b].plan, b>> \in rows
  BY BitesFinite, NoneAssumption DEF JoinedRows, SliceBites
<1>3. \A p \in plans : \E r \in rows : r[1] = p
  <2> TAKE p \in plans
  <2>1. CASE BitesOf(db, p) = {}
    <3>1. <<p, None>> \in rows
      BY <2>1 DEF JoinedRows
    <3>2. QED
      BY <3>1
  <2>2. CASE BitesOf(db, p) # {}
    <3>1. PICK b : b \in bites /\ db.bite[b].plan = p
      BY <2>2 DEF BitesOf, SliceBites
    <3>2. QED
      BY <1>2, <3>1
  <2>3. QED
    BY <2>1, <2>2
<1> HIDE DEF rows, plans, bites
<1>4. {r[1] : r \in rows} = plans
  BY <1>1, <1>3
<1>5. {r[2] : r \in {x \in rows : x[2] # None /\ BiteStatus(x[2]) \in statuses}}
        = {b \in bites : BiteStatus(b) \in statuses}
  <2> DEFINE kept == {x \in rows : x[2] # None /\ BiteStatus(x[2]) \in statuses}
             want == {b \in bites : BiteStatus(b) \in statuses}
  <2>1. \A r \in kept : r[2] \in want
    BY <1>1
  <2>2. \A b \in want : \E r \in kept : r[2] = b
    <3> TAKE b \in want
    <3> DEFINE r == <<db.bite[b].plan, b>>
    <3>1. r \in rows /\ r[2] = b /\ b # None /\ BiteStatus(b) \in statuses
      BY <1>2
    <3> HIDE DEF r
    <3>2. r \in kept
      BY <3>1
    <3>3. QED
      BY <3>1, <3>2
  <2> HIDE DEF kept, want
  <2>3. {r[2] : r \in kept} = want
    BY <2>1, <2>2
  <2>4. QED
    BY <2>3 DEF kept, want
<1>6. QED
  BY <1>4, <1>5 DEF rows, plans, bites

LEMMA CountsSame ==
  ASSUME Sound, NEW s
  PROVE  AnnotatedCounts(s) = StageCounts(s)
<1>1. {b \in SliceBites(db, s) : BiteStatus(b) \in {"done"}} = Done(s)
  BY DEF Done
<1>2. {b \in SliceBites(db, s) : BiteStatus(b) \in BiteStatuses \ {"dropped"}} = Counted(s)
  BY BitesFinite DEF Counted, BiteStatuses, BiteStatus, Sound, Database, BiteRow
<1>3. AnnotatedCounts(s) = <<Cardinality(PlansOf(db, s)), Cardinality(Done(s)),
                             Cardinality(Counted(s))>>
  BY <1>1, <1>2, JoinKeys DEF AnnotatedCounts
<1>4. QED
  BY <1>3, CountsOf

\* The stage in terms of the rows.
LEMMA StageIs ==
  ASSUME Sound, NEW s
  PROVE  StageOf(s) = CASE StatusOf(s) \in {"shipped", "dropped"} -> StatusOf(s)
                        [] OTHER -> IF ~db.slice[s].spec THEN "needs_design"
                                    ELSE IF PlansOf(db, s) = {} THEN "needs_plan"
                                    ELSE IF Counted(s) = {} THEN "needs_bites"
                                    ELSE IF Done(s) # Counted(s) THEN "executing"
                                    ELSE "ready_to_ship"
<1> DEFINE done == Cardinality(Done(s))
           total == Cardinality(Counted(s))
           plans == Cardinality(PlansOf(db, s))
<1>1. StageOf(s) = SliceStage(StatusOf(s), db.slice[s].spec, plans, done, total)
  BY CountsSame, CountsOf DEF StageOf, StageFrom
<1>2. plans = 0 <=> PlansOf(db, s) = {}
  BY BitesFinite, NoneLeft
<1>3. total = 0 <=> Counted(s) = {}
  BY BitesFinite, NoneLeft
<1>4. Done(s) \subseteq Counted(s)
  BY DEF Done, Counted
<1>5. ~(done < total) <=> Done(s) = Counted(s)
  BY <1>4, BitesFinite, AllOfThem
<1> HIDE DEF done, total, plans
<1>6. QED
  BY <1>1, <1>2, <1>3, <1>5 DEF SliceStage

LEMMA ReadyIsFinished == Sound => ReadyToShipIsFinished
<1> SUFFICES ASSUME Sound, NEW s \in S
             PROVE  StageOf(s) = "ready_to_ship" <=>
                      /\ StatusOf(s) \in {"planned", "building"} /\ db.slice[s].spec
                      /\ \E b \in SliceBites(db, s) : BiteStatus(b) # "dropped"
                      /\ \A b \in SliceBites(db, s) : BiteStatus(b) \in {"done", "dropped"}
  BY DEF ReadyToShipIsFinished
<1>1. StatusOf(s) \in SliceStatuses /\ db.slice[s].spec \in BOOLEAN
  BY DEF Sound, Database, SliceRow, StatusOf, S, LiveSlices
<1>2. Counted(s) # {} <=> \E b \in SliceBites(db, s) : BiteStatus(b) # "dropped"
  BY DEF Counted
<1>3. Done(s) = Counted(s) <=>
        \A b \in SliceBites(db, s) : BiteStatus(b) \in {"done", "dropped"}
  BY DEF Counted, Done
<1>4. Counted(s) # {} => PlansOf(db, s) # {}
  BY DEF Counted, SliceBites
<1>5. QED
  BY <1>1, <1>2, <1>3, <1>4, StageIs DEF SliceStatuses

-----------------------------------------------------------------------------
(* The boards *)

Column(slices, c) == {s \in slices : StageColumn(StageOf(s)) = c}
WorkColumns == {"needs_design", "needs_plan", "executing", "ready_to_ship"}
HasStatus(slices, statuses) == {s \in slices : StatusOf(s) \in statuses}

LEMMA StageShape ==
  ASSUME Sound, NEW s \in S
  PROVE  /\ StatusOf(s) \in SliceStatuses
         /\ StageOf(s) \in WorkColumns \cup {"needs_bites", "shipped", "dropped"}
         /\ StageOf(s) = "shipped" <=> StatusOf(s) = "shipped"
         /\ StageOf(s) = "dropped" <=> StatusOf(s) = "dropped"
<1>1. StatusOf(s) \in SliceStatuses
  BY DEF Sound, Database, SliceRow, StatusOf, S, LiveSlices
<1>2. QED
  BY <1>1, StageIs DEF SliceStatuses, WorkColumns

\* A slice stands in one working column, or in the shipped one, or in none.
LEMMA ColumnIs ==
  ASSUME Sound, NEW s \in S
  PROVE  LET c == StageColumn(StageOf(s)) IN
         /\ c = "shipped" <=> StatusOf(s) = "shipped"
         /\ c \in WorkColumns <=> StatusOf(s) \notin {"shipped", "dropped"}
         /\ c \in {"needs_design", "ready_to_ship"} => StageOf(s) = c
         /\ StageOf(s) \in {"needs_design", "ready_to_ship"} => StageOf(s) = c
<1>1. CASE StatusOf(s) = "dropped"
  <2>1. StageOf(s) = "dropped"
    BY <1>1, StageShape
  <2>2. StageColumn(StageOf(s)) = None
    BY <2>1 DEF StageColumn, StageBoardOrder
  <2>3. None \notin WorkColumns \cup {"shipped"}
    BY StringAssumption DEF WorkColumns, StageBoardOrder
  <2>4. QED
    BY <1>1, <2>1, <2>2, <2>3 DEF WorkColumns
<1>2. CASE StatusOf(s) # "dropped"
  BY <1>2, StageShape DEF StageColumn, StageBoardOrder, WorkColumns
<1>3. QED
  BY <1>1, <1>2

LEMMA BoardIs ==
  ASSUME NEW slices
  PROVE  LET board == BoardOf(slices) IN
         /\ DOMAIN board.columns = WorkColumns
         /\ \A c \in WorkColumns : board.columns[c] = Column(slices, c)
         /\ board.shipped_total = Cardinality(Column(slices, "shipped"))
         /\ board.dropped_count = Cardinality({s \in slices : StageOf(s) = "dropped"})
<1>1. StageBoardOrder \ {"shipped"} = WorkColumns /\ "shipped" \in StageBoardOrder
  BY DEF StageBoardOrder, WorkColumns
<1> DEFINE stage == [s \in slices |-> StageOf(s)]
           column == [c \in StageBoardOrder |-> {s \in slices : StageColumn(stage[s]) = c}]
           board == BoardOf(slices)
<1>2. \A c : {s \in slices : StageColumn(stage[s]) = c} = Column(slices, c)
  BY DEF Column
<1>3. {s \in slices : stage[s] = "dropped"} = {s \in slices : StageOf(s) = "dropped"}
  OBVIOUS
<1>4. /\ board.columns = [c \in StageBoardOrder \ {"shipped"} |-> column[c]]
      /\ board.shipped_total = Cardinality(column["shipped"])
      /\ board.dropped_count = Cardinality({s \in slices : stage[s] = "dropped"})
  BY DEF BoardOf
<1>5. \A c \in StageBoardOrder : column[c] = Column(slices, c)
  BY <1>2
<1> HIDE DEF column, stage, board
<1>6. QED
  BY <1>1, <1>3, <1>4, <1>5 DEF board

LEMMA OnBoardIs ==
  ASSUME Sound, NEW slices, slices \subseteq S
  PROVE  LET board == BoardOf(slices) IN
         /\ OnBoard(board) = Cardinality({s \in slices : StatusOf(s) # "dropped"})
         /\ board.dropped_count = Cardinality({s \in slices : StatusOf(s) = "dropped"})
<1> DEFINE board == BoardOf(slices)
           working == {s \in slices : StatusOf(s) \notin {"shipped", "dropped"}}
           shipped == {s \in slices : StatusOf(s) = "shipped"}
<1>1. /\ DOMAIN board.columns = WorkColumns
      /\ \A c \in WorkColumns : board.columns[c] = Column(slices, c)
      /\ board.shipped_total = Cardinality(Column(slices, "shipped"))
      /\ board.dropped_count = Cardinality({s \in slices : StageOf(s) = "dropped"})
  BY BoardIs
<1> HIDE DEF board
<1>2. \A s \in slices : /\ StageColumn(StageOf(s)) \in WorkColumns <=> s \in working
                        /\ StageColumn(StageOf(s)) = "shipped" <=> s \in shipped
  BY ColumnIs
<1>3. UNION {board.columns[c] : c \in DOMAIN board.columns} = working
  <2>1. \A c \in WorkColumns : board.columns[c] = {s \in slices : StageColumn(StageOf(s)) = c}
    BY <1>1 DEF Column
  <2>2. working \subseteq slices
    OBVIOUS
  <2> HIDE DEF working, shipped
  <2>3. \A s : s \in working <=> \E c \in WorkColumns : s \in board.columns[c]
    BY <1>2, <2>1, <2>2
  <2>4. QED
    BY <1>1, <2>3
<1>4. Column(slices, "shipped") = shipped
  BY <1>2 DEF Column
<1>5. OnBoard(board) = Cardinality(working) + Cardinality(shipped)
  BY <1>1, <1>3, <1>4 DEF OnBoard
<1>6. IsFiniteSet(working) /\ IsFiniteSet(shipped)
  BY FiniteRows DEF S, LiveSlices
<1>7. working \cup shipped = {s \in slices : StatusOf(s) # "dropped"}
      /\ working \cap shipped = {}
  OBVIOUS
<1>8. {s \in slices : StageOf(s) = "dropped"} = {s \in slices : StatusOf(s) = "dropped"}
  BY StageShape
<1> HIDE DEF working, shipped
<1>9. Cardinality(working \cup shipped) = Cardinality(working) + Cardinality(shipped)
  BY <1>6, <1>7, Apart
<1>10. QED
  BY <1>1, <1>5, <1>7, <1>8, <1>9 DEF board

LEMMA BoardAccountsForAll ==
  ASSUME Sound, NEW slices, slices \subseteq S
  PROVE  OnBoard(BoardOf(slices)) + BoardOf(slices).dropped_count = Cardinality(slices)
<1> DEFINE kept == {s \in slices : StatusOf(s) # "dropped"}
           dropped == {s \in slices : StatusOf(s) = "dropped"}
<1>1. IsFiniteSet(kept) /\ IsFiniteSet(dropped)
  BY FiniteRows DEF S, LiveSlices
<1>2. kept \cap dropped = {} /\ kept \cup dropped = slices
  OBVIOUS
<1>3. /\ OnBoard(BoardOf(slices)) = Cardinality(kept)
      /\ BoardOf(slices).dropped_count = Cardinality(dropped)
  BY OnBoardIs
<1> HIDE DEF kept, dropped
<1>4. Cardinality(kept \cup dropped) = Cardinality(kept) + Cardinality(dropped)
  BY <1>1, <1>2, Apart
<1>5. QED
  BY <1>2, <1>3, <1>4

LEMMA AreasCover ==
  ASSUME Sound
  PROVE  /\ \A s \in S : LiveArea(db, db.slice[s].area) /\ s \in SlicesOf(db, db.slice[s].area)
         /\ \A a : SlicesOf(db, a) \subseteq S
  BY DEF Sound, NoOrphansIn, S, SlicesOf

LEMMA NothingIsLost == Sound => BoardIsComplete
<1> SUFFICES ASSUME Sound PROVE BoardIsComplete
  OBVIOUS
<1> DEFINE board == RoadmapBoardView
           areas == {AreaBoardView(a) : a \in Area}
<1>1. DOMAIN board.columns = WorkColumns /\ \A c \in WorkColumns : board.columns[c] = Column(S, c)
  BY BoardIs DEF RoadmapBoardView
<1>2. ASSUME NEW s \in S
      PROVE  Cardinality({c \in DOMAIN board.columns : s \in board.columns[c]})
               = IF StatusOf(s) \in {"shipped", "dropped"} THEN 0 ELSE 1
  <2> DEFINE mine == {c \in DOMAIN board.columns : s \in board.columns[c]}
             own == StageColumn(StageOf(s))
  <2>1. \A c : c \in mine <=> c \in WorkColumns /\ c = own
    BY <1>1 DEF Column
  <2>2. own \in WorkColumns <=> StatusOf(s) \notin {"shipped", "dropped"}
    BY ColumnIs
  <2> HIDE DEF mine, own
  <2>3. CASE own \in WorkColumns
    <3>1. mine = {own}
      BY <2>1, <2>3
    <3>2. Cardinality(mine) = 1
      BY <3>1, FS_Singleton
    <3>3. QED
      BY <2>2, <2>3, <3>2 DEF mine
  <2>4. CASE own \notin WorkColumns
    <3>1. mine = {}
      BY <2>1, <2>4
    <3>2. Cardinality(mine) = 0
      BY <3>1, FS_EmptySet
    <3>3. QED
      BY <2>2, <2>4, <3>2 DEF mine
  <2>5. QED
    BY <2>3, <2>4
<1>3. OnBoard(board) + board.dropped_count = Cardinality(S)
  BY BoardAccountsForAll DEF RoadmapBoardView
<1>4. ASSUME NEW c \in WorkColumns
      PROVE  board.columns[c] = UNION {area.columns[c] : area \in areas}
  <2>1. \A a \in Area : AreaBoardView(a).columns[c] = Column(SlicesOf(db, a), c)
    BY BoardIs DEF AreaBoardView
  <2>2. \A s : s \in Column(S, c) <=> \E a \in Area : s \in Column(SlicesOf(db, a), c)
    BY AreasCover DEF Column, LiveArea
  <2>3. \A s : s \in Column(S, c) <=> \E a \in Area : s \in AreaBoardView(a).columns[c]
    BY <2>1, <2>2
  <2> HIDE DEF board
  <2>4. \A s : s \in Column(S, c) <=> \E area \in areas : s \in area.columns[c]
    BY <2>3
  <2> HIDE DEF areas
  <2>5. QED
    BY <1>1, <2>4
<1>5. QED
  BY <1>1, <1>2, <1>3, <1>4 DEF BoardIsComplete

-----------------------------------------------------------------------------
(* Counts *)

LEMMA SlicesFinite == \A a : SlicesOf(db, a) \subseteq Slice /\ IsFiniteSet(SlicesOf(db, a))
  BY FiniteRows DEF SlicesOf, LiveSlices

LEMMA SidebarIsCard ==
  ASSUME Sound, NEW a
  PROVE  SidebarCount(a) = AreaCard(a).total
<1> DEFINE with(status) == {s \in SlicesOf(db, a) : StatusOf(s) = status}
           planned == with("planned")
           building == with("building")
           shipped == with("shipped")
           open == planned \cup building
<1>1. IsFiniteSet(planned) /\ IsFiniteSet(building) /\ IsFiniteSet(shipped) /\ IsFiniteSet(open)
  BY SlicesFinite, FiniteRows
<1>2. planned \cap building = {} /\ open \cap shipped = {}
  OBVIOUS
<1>3. open \cup shipped = {s \in SlicesOf(db, a) : StatusOf(s) # "dropped"}
  BY AreasCover, StageShape DEF SliceStatuses
<1>4. AreaCard(a).total = Cardinality(planned) + Cardinality(building) + Cardinality(shipped)
  BY DEF AreaCard
<1>5. open = planned \cup building
  OBVIOUS
<1> HIDE DEF planned, building, shipped, open
<1>6. Cardinality(open) = Cardinality(planned) + Cardinality(building)
  BY <1>1, <1>2, <1>5, Apart
<1>7. Cardinality(open \cup shipped) = Cardinality(open) + Cardinality(shipped)
  BY <1>1, <1>2, Apart
<1>8. QED
  BY <1>3, <1>4, <1>6, <1>7 DEF SidebarCount

Row(s) == <<s, StageOf(s)>>
RowsOf(slices) == {Row(s) : s \in slices}

\* The tool lists a slice once, with its stage.
LEMMA ListedOnce ==
  ASSUME NEW slices, slices \subseteq S
  PROVE  Cardinality(RowsOf(slices)) = Cardinality(slices)
<1> DEFINE rows == RowsOf(slices)
           f == [s \in slices |-> Row(s)]
<1>1. f \in Bijection(slices, rows)
  <2>1. f \in [slices -> rows]
    BY DEF RowsOf
  <2>2. \A s, t \in slices : f[s] = f[t] => s = t
    BY DEF Row
  <2>3. \A r \in rows : \E s \in slices : f[s] = r
    BY DEF RowsOf
  <2> HIDE DEF f, rows
  <2>4. QED
    BY <2>1, <2>2, <2>3 DEF Bijection, Injection, Surjection, IsInjective
<1>2. ExistsBijection(slices, rows)
  BY <1>1 DEF ExistsBijection
<1>3. IsFiniteSet(slices)
  BY FiniteRows DEF S, LiveSlices
<1> HIDE DEF rows, f
<1>4. Cardinality(rows) = Cardinality(slices)
  BY <1>2, <1>3, FS_Bijection
<1>5. QED
  BY <1>4 DEF rows

\* Asked for an area, or for none, the tool answers all that there are or, with a
\* limit, that many of them.
LEMMA ToolAnswers ==
  ASSUME NEW a \in Area \cup {None}, NEW limit \in Nat,
         NEW answer \in ListSlicesTool(a, None, None, limit)
  PROVE  LET found == IF a = None THEN S ELSE SlicesOf(db, a) IN
         \E rows \in SUBSET found :
            /\ answer = RowsOf(rows)
            /\ IF limit = 0 \/ Cardinality(found) <= limit THEN rows = found
               ELSE Cardinality(rows) = limit
<1> DEFINE found == IF a = None THEN S ELSE SlicesOf(db, a)
           asked == {s \in S : /\ a # None => db.slice[s].area = a
                               /\ None # None => StatusOf(s) = None
                               /\ None = "someday" => s \in db.someday}
<1>1. asked = found
  BY StringAssumption DEF SlicesOf, S
<1>2. QuerySlices(a, None, None, limit) =
        IF limit = 0 \/ Cardinality(asked) <= limit THEN {asked}
        ELSE {rows \in SUBSET asked : Cardinality(rows) = limit}
  BY DEF QuerySlices
<1>3. ListSlicesTool(a, None, None, limit) =
        {RowsOf(rows) : rows \in QuerySlices(a, None, None, limit)}
  BY DEF ListSlicesTool, RowsOf, Row
<1> HIDE DEF found, asked
<1>4. PICK rows \in QuerySlices(a, None, None, limit) : answer = RowsOf(rows)
  BY <1>3
<1>5. /\ rows \in SUBSET found
      /\ IF limit = 0 \/ Cardinality(found) <= limit THEN rows = found
         ELSE Cardinality(rows) = limit
  BY <1>1, <1>2, <1>4
<1>6. QED
  BY <1>4, <1>5 DEF found

LEMMA CountsAreOne == Sound => CountsAgree
<1> SUFFICES ASSUME Sound PROVE CountsAgree
  OBVIOUS
<1>1. ASSUME NEW s \in S
      PROVE  /\ AnnotatedCounts(s) = StageCounts(s)
             /\ Cardinality(SliceMarkdown(s).ticked) = BiteProgress(s)[1]
             /\ <<s, SliceMarkdown(s).stage>> = Row(s)
  <2>1. AnnotatedCounts(s) = StageCounts(s)
    BY CountsSame
  <2>2. SliceMarkdown(s).ticked = Done(s) /\ SliceMarkdown(s).stage = StageOfOne(s)
    BY DEF SliceMarkdown, Done
  <2>3. BiteProgress(s)[1] = Cardinality(Done(s))
    BY CountsOf DEF StageCounts
  <2>4. StageOfOne(s) = StageOf(s)
    BY <2>1 DEF StageOfOne, StageOf
  <2>5. QED
    BY <2>1, <2>2, <2>3, <2>4 DEF Row
<1>2. ASSUME NEW s \in S, NEW answer \in ListSlicesTool(None, None, None, 0)
      PROVE  <<s, SliceMarkdown(s).stage>> \in answer
  <2>1. answer = RowsOf(S)
    BY ToolAnswers
  <2>2. QED
    BY <1>1, <2>1 DEF RowsOf
<1>3. ASSUME NEW a \in Area
      PROVE  LET board == AreaBoardView(a)
                 total == SidebarCount(a) + board.dropped_count
             IN  /\ SidebarCount(a) = AreaCard(a).total
                 /\ SidebarCount(a) = OnBoard(board)
                 /\ \A answer \in ListSlicesTool(a, None, None, 0) :
                        Cardinality(answer) = total
                 /\ \A answer \in ListSlicesTool(a, None, None, ListLimit) :
                        /\ Cardinality(answer) = IF total <= ListLimit THEN total ELSE ListLimit
                        /\ answer \subseteq {<<s, SliceMarkdown(s).stage>> :
                                               s \in SlicesOf(db, a)}
  <2> DEFINE mine == SlicesOf(db, a)
             total == SidebarCount(a) + AreaBoardView(a).dropped_count
  <2>1. mine \subseteq S /\ a # None
    BY AreasCover, NoneAssumption
  <2>2. OnBoard(AreaBoardView(a)) = SidebarCount(a)
    BY <2>1, OnBoardIs DEF AreaBoardView, SidebarCount
  <2>3. OnBoard(AreaBoardView(a)) + AreaBoardView(a).dropped_count = Cardinality(mine)
    BY <2>1, BoardAccountsForAll DEF AreaBoardView
  <2>4. total = Cardinality(mine)
    BY <2>2, <2>3
  <2> HIDE DEF mine, total
  <2>5. ASSUME NEW limit \in Nat, NEW answer \in ListSlicesTool(a, None, None, limit)
        PROVE  \E rows \in SUBSET mine :
                  /\ answer = RowsOf(rows) /\ Cardinality(answer) = Cardinality(rows)
                  /\ IF limit = 0 \/ Cardinality(mine) <= limit THEN rows = mine
                     ELSE Cardinality(rows) = limit
    <3>1. PICK rows \in SUBSET mine :
                  /\ answer = RowsOf(rows)
                  /\ IF limit = 0 \/ Cardinality(mine) <= limit THEN rows = mine
                     ELSE Cardinality(rows) = limit
      BY <2>1, <2>5, ToolAnswers DEF mine
    <3>2. Cardinality(RowsOf(rows)) = Cardinality(rows)
      BY <2>1, <3>1, ListedOnce
    <3>3. QED
      BY <3>1, <3>2
  <2>6. \A answer \in ListSlicesTool(a, None, None, 0) : Cardinality(answer) = total
    BY <2>4, <2>5
  <2>7. ASSUME NEW answer \in ListSlicesTool(a, None, None, ListLimit)
        PROVE  /\ Cardinality(answer) = IF total <= ListLimit THEN total ELSE ListLimit
               /\ answer \subseteq {<<s, SliceMarkdown(s).stage>> : s \in mine}
    <3>1. ListLimit \in Nat /\ ListLimit # 0
      BY LimitAssumption
    <3>2. PICK rows \in SUBSET mine :
            /\ answer = RowsOf(rows) /\ Cardinality(answer) = Cardinality(rows)
            /\ IF ListLimit = 0 \/ Cardinality(mine) <= ListLimit THEN rows = mine
               ELSE Cardinality(rows) = ListLimit
      BY <2>5, <2>7, <3>1
    <3>3. Cardinality(answer) = IF total <= ListLimit THEN total ELSE ListLimit
      BY <2>4, <3>1, <3>2
    <3>4. \A s \in rows : Row(s) = <<s, SliceMarkdown(s).stage>>
      BY <1>1, <2>1, <3>2
    <3>5. QED
      BY <3>2, <3>3, <3>4 DEF RowsOf
  <2>8. QED
    BY <2>2, <2>6, <2>7, SidebarIsCard DEF total, mine
<1>4. QED
  BY <1>1, <1>2, <1>3 DEF CountsAgree

-----------------------------------------------------------------------------
(* Home *)

\* What waits for a human is counted slice by slice, and the Inbox once.
LEMMA TurnsCounted ==
  ASSUME NEW slices, slices \subseteq S, NEW open
  PROVE  LET waiting == {s \in slices : StageOf(s) \in {"needs_design", "ready_to_ship"}}
             rows == SliceRows(slices) \cup TicketsRow(open)
         IN  /\ {row.slice : row \in rows} \ {None} = waiting
             /\ Cardinality(rows) = Cardinality(waiting) + IF open = 0 THEN 0 ELSE 1
<1> DEFINE waiting == {s \in slices : StageOf(s) \in {"needs_design", "ready_to_ship"}}
           row(s) == [slice |-> s, tickets |-> 0]
           mine == {row(s) : s \in waiting}
           inbox == TicketsRow(open)
           f == [s \in waiting |-> row(s)]
<1>1. waiting \subseteq Slice /\ None \notin waiting /\ IsFiniteSet(waiting)
  BY FiniteRows, NoneAssumption DEF S, LiveSlices
<1>2. SliceRows(slices) = mine
  BY DEF SliceRows
<1>3. ExistsBijection(waiting, mine)
  <2>1. f \in [waiting -> mine]
    OBVIOUS
  <2>2. \A s, t \in waiting : f[s] = f[t] => s = t
    <3>1. \A s \in waiting : f[s].slice = s
      OBVIOUS
    <3>2. QED
      BY <3>1
  <2>3. \A r \in mine : \E s \in waiting : f[s] = r
    OBVIOUS
  <2> HIDE DEF f, mine, waiting
  <2>4. f \in Bijection(waiting, mine)
    BY <2>1, <2>2, <2>3 DEF Bijection, Injection, Surjection, IsInjective
  <2>5. QED
    BY <2>4 DEF ExistsBijection
<1>4. {r.slice : r \in mine} = waiting
  <2>1. \A s \in waiting : row(s) \in mine /\ row(s).slice = s
    OBVIOUS
  <2>2. \A r \in mine : r.slice \in waiting
    OBVIOUS
  <2> HIDE DEF mine, waiting, row
  <2>3. \A s : s \in {r.slice : r \in mine} <=> s \in waiting
    BY <2>1, <2>2
  <2>4. QED
    BY <2>3
<1>5. inbox = IF open = 0 THEN {} ELSE {[slice |-> None, tickets |-> open]}
  BY DEF TicketsRow
<1>6. {r.slice : r \in mine \cup inbox} \ {None} = waiting
  <2>1. \A r \in inbox : r.slice = None
    BY <1>5
  <2> HIDE DEF mine, inbox, waiting
  <2>2. \A s : s \in {r.slice : r \in mine \cup inbox} \ {None} <=> s \in waiting
    BY <1>1, <1>4, <2>1
  <2>3. QED
    BY <2>2
<1> HIDE DEF f
<1>7. IsFiniteSet(mine) /\ Cardinality(mine) = Cardinality(waiting)
  <2> HIDE DEF mine, waiting
  <2>1. QED
    BY <1>1, <1>3, FS_Bijection
<1>8. Cardinality(mine) \in Nat
  BY <1>7, CardinalityNat
<1>9. CASE open = 0
  <2>1. mine \cup inbox = mine
    BY <1>5, <1>9
  <2> HIDE DEF mine, waiting, inbox
  <2>2. Cardinality(mine \cup inbox) = Cardinality(waiting)
    BY <1>7, <2>1
  <2>3. Cardinality(waiting) \in Nat
    BY <1>7, <1>8
  <2> DEFINE c == Cardinality(waiting)
  <2>4. c + 0 = c
    BY <2>3
  <2> HIDE DEF c
  <2>5. QED
    BY <1>2, <1>6, <1>9, <2>2, <2>4 DEF waiting, inbox, c
<1>10. CASE open # 0
  <2> DEFINE one == [slice |-> None, tickets |-> open]
  <2>1. one \notin mine
    <3>1. \A r \in mine : r.slice # None
      BY <1>1, <1>4
    <3>2. one.slice = None
      OBVIOUS
    <3> HIDE DEF one, mine
    <3>3. QED
      BY <3>1, <3>2
  <2>2. inbox = {one}
    BY <1>5, <1>10
  <2> HIDE DEF one, mine, waiting, inbox
  <2>3. Cardinality(mine \cup {one}) = Cardinality(mine) + 1
    BY <1>7, <2>1, FS_AddElement
  <2>4. Cardinality(mine \cup inbox) = Cardinality(waiting) + 1
    BY <1>7, <2>2, <2>3
  <2>5. QED
    BY <1>2, <1>6, <1>10, <2>4 DEF waiting, inbox
<1>11. QED
  BY <1>9, <1>10

ListsOf(here) == <<here.shipped, here.building, here.roadmap, here.someday>>

\* A slice that was not dropped is in one of the four lists of its area, and in
\* none of another area.
LEMMA OneListEach ==
  ASSUME Sound, NEW s \in S, StatusOf(s) # "dropped"
  PROVE  \E j \in 1..4 : \A a : \A i \in 1..4 :
            s \in ListsOf(AreaState(a))[i] <=> (a = db.slice[s].area /\ i = j)
<1> DEFINE mine(a) == a = db.slice[s].area
<1>1. s \in Slice /\ StatusOf(s) \in {"planned", "building", "shipped"}
  BY StageShape DEF SliceStatuses, S, LiveSlices
<1>2. \A a : s \in SlicesOf(db, a) <=> mine(a)
  BY DEF SlicesOf, S
<1>3. \A a : LET here == AreaState(a) IN
        /\ s \in here.shipped <=> mine(a) /\ StatusOf(s) = "shipped"
        /\ s \in here.building <=> mine(a) /\ StatusOf(s) = "building" /\ s \notin db.someday
        /\ s \in here.roadmap <=> mine(a) /\ StatusOf(s) = "planned" /\ s \notin db.someday
        /\ s \in here.someday <=> mine(a) /\ StatusOf(s) # "shipped" /\ s \in db.someday
  <2> TAKE a
  <2> DEFINE slices == SlicesOf(db, a)
             parked == {x \in slices : x \in db.someday /\ StatusOf(x) # "shipped"}
  <2>1. \A t \in SliceStatuses : s \in WithStatusIn({t}) <=> StatusOf(s) = t
    BY DEF WithStatusIn
  <2>2. /\ AreaState(a).shipped = slices \cap WithStatusIn({"shipped"})
        /\ AreaState(a).building = (slices \cap WithStatusIn({"building"})) \ parked
        /\ AreaState(a).roadmap = (slices \cap WithStatusIn({"planned"})) \ parked
        /\ AreaState(a).someday = parked
    BY DEF AreaState
  <2>3. s \in parked <=> mine(a) /\ StatusOf(s) # "shipped" /\ s \in db.someday
    BY <1>2
  <2> HIDE DEF mine, parked
  <2>4. QED
    BY <1>1, <1>2, <2>1, <2>2, <2>3 DEF SliceStatuses
<1> HIDE DEF mine
<1>4. \A here : /\ ListsOf(here)[1] = here.shipped /\ ListsOf(here)[2] = here.building
                /\ ListsOf(here)[3] = here.roadmap /\ ListsOf(here)[4] = here.someday
  BY DEF ListsOf
<1> DEFINE own == IF StatusOf(s) = "shipped" THEN 1 ELSE IF s \in db.someday THEN 4
                  ELSE IF StatusOf(s) = "building" THEN 2 ELSE 3
<1>5. own \in 1..4
  OBVIOUS
<1>6. ASSUME NEW a, NEW i \in 1..4
      PROVE  s \in ListsOf(AreaState(a))[i] <=> mine(a) /\ i = own
  <2>1. i = 1 \/ i = 2 \/ i = 3 \/ i = 4
    OBVIOUS
  <2>2. CASE i = 1
    BY <1>1, <1>3, <1>4, <2>2
  <2>3. CASE i = 2
    BY <1>1, <1>3, <1>4, <2>3
  <2>4. CASE i = 3
    BY <1>1, <1>3, <1>4, <2>4
  <2>5. CASE i = 4
    BY <1>1, <1>3, <1>4, <2>5
  <2>6. QED
    BY <2>1, <2>2, <2>3, <2>4, <2>5
<1> HIDE DEF own
<1>7. \A a : \A i \in 1..4 :
        s \in ListsOf(AreaState(a))[i] <=> (a = db.slice[s].area /\ i = own)
  BY <1>6 DEF mine
<1>8. QED
  BY <1>5, <1>7

\* Among the areas that are shown it is listed once, if its area is one of them.
LEMMA ListedWhereShown ==
  ASSUME Sound, NEW s \in S, StatusOf(s) # "dropped", NEW shown
  PROVE  Cardinality({p \in shown \X (1..4) : s \in ListsOf(AreaState(p[1]))[p[2]]})
           = IF db.slice[s].area \in shown THEN 1 ELSE 0
<1> DEFINE area == db.slice[s].area
           places == {p \in shown \X (1..4) : s \in ListsOf(AreaState(p[1]))[p[2]]}
<1>1. PICK j \in 1..4 : \A a : \A i \in 1..4 :
        s \in ListsOf(AreaState(a))[i] <=> (a = area /\ i = j)
  BY OneListEach
<1> HIDE DEF area
<1>2. \A p \in shown \X (1..4) : p \in places <=> p[1] = area /\ p[2] = j
  BY <1>1
<1>3. CASE area \in shown
  <2>1. <<area, j>> \in shown \X (1..4)
    BY <1>3
  <2>2. \A p \in shown \X (1..4) : p = <<p[1], p[2]>>
    OBVIOUS
  <2>3. places \subseteq shown \X (1..4)
    OBVIOUS
  <2> HIDE DEF places
  <2>4. <<area, j>> \in places
    BY <1>2, <2>1
  <2>5. \A p \in places : p = <<area, j>>
    BY <1>2, <2>2, <2>3
  <2>6. places = {<<area, j>>}
    BY <2>4, <2>5
  <2>7. Cardinality(places) = 1
    BY <2>6, FS_Singleton
  <2>8. QED
    BY <1>3, <2>7 DEF places, area
<1>4. CASE area \notin shown
  <2>1. places = {}
    BY <1>2, <1>4
  <2> HIDE DEF places
  <2>2. Cardinality(places) = 0
    BY <2>1, FS_EmptySet
  <2>3. QED
    BY <1>4, <2>2 DEF places, area
<1>5. QED
  BY <1>3, <1>4

LEMMA HomeIsTrue == Sound => HomeAgrees
<1> SUFFICES ASSUME Sound PROVE HomeAgrees
  OBVIOUS
<1> DEFINE columns == RoadmapBoardView.columns
           waiting == HomeState.building \cap (columns["needs_design"] \cup columns["ready_to_ship"])
<1>1. waiting = {s \in WithStatusIn({"building"}) :
                   StageOf(s) \in {"needs_design", "ready_to_ship"}}
  <2>1. \A c \in WorkColumns : columns[c] = Column(S, c)
    BY BoardIs DEF RoadmapBoardView
  <2>2. columns["needs_design"] = Column(S, "needs_design")
        /\ columns["ready_to_ship"] = Column(S, "ready_to_ship")
    BY <2>1 DEF WorkColumns
  <2>3. \A s \in S : StageOf(s) \in {"needs_design", "ready_to_ship"} <=>
                     s \in Column(S, "needs_design") \cup Column(S, "ready_to_ship")
    BY ColumnIs DEF Column
  <2> HIDE DEF columns
  <2>4. QED
    BY <2>2, <2>3 DEF HomeState, WithStatusIn
<1> HIDE DEF waiting
<1>2. ASSUME NEW open
      PROVE  /\ {row.slice : row \in YourTurn(open)} \ {None} = waiting
             /\ Snapshot(open).attention_ct
                    = Cardinality(waiting) + IF open = 0 THEN 0 ELSE 1
  <2>1. WithStatusIn({"building"}) \subseteq S
    BY DEF WithStatusIn
  <2>2. Snapshot(open).attention_ct = Cardinality(YourTurn(open))
    BY DEF Snapshot
  <2>3. QED
    BY <1>1, <2>1, <2>2, TurnsCounted DEF YourTurn
<1>3. ASSUME NEW a
      PROVE  LET here == AreaState(a) IN
             /\ here.shipped = RoadmapState("shipped") \cap SlicesOf(db, a)
             /\ here.building = (HomeState.building \ db.someday) \cap SlicesOf(db, a)
  BY DEF AreaState, RoadmapState, HomeState, WithStatusIn
<1>4. ASSUME NEW asked \in {None} \cup ListedAreas({}), NEW archived \in SUBSET Area
      PROVE  LET state == ProjectState(asked, archived)
                 shown(a) == IF asked = None THEN a \notin archived ELSE a = asked
                 lists(a) == <<state[a].shipped, state[a].building,
                               state[a].roadmap, state[a].someday>>
             IN  /\ \A s \in S : StatusOf(s) # "dropped" =>
                        Cardinality({p \in (DOMAIN state) \X (1..4) : s \in lists(p[1])[p[2]]})
                            = IF shown(db.slice[s].area) THEN 1 ELSE 0
                 /\ \A a \in DOMAIN state :
                        /\ state[a].shipped = RoadmapState("shipped") \cap SlicesOf(db, a)
                        /\ state[a].building
                               = (HomeState.building \ db.someday) \cap SlicesOf(db, a)
  <2> DEFINE state == ProjectState(asked, archived)
             shown == IF asked # None THEN {asked} ELSE ListedAreas(archived)
             places(s) == {p \in (DOMAIN state) \X (1..4) : s \in ListsOf(state[p[1]])[p[2]]}
             theirs(s) == {p \in shown \X (1..4) : s \in ListsOf(AreaState(p[1]))[p[2]]}
  <2>1. DOMAIN state = shown /\ \A a \in shown : state[a] = AreaState(a)
    BY DEF ProjectState
  <2> HIDE DEF state, shown
  <2>2. \A s : places(s) = theirs(s)
    BY <2>1
  <2>3. ASSUME NEW s \in S
        PROVE  db.slice[s].area \in shown <=>
                  IF asked = None THEN db.slice[s].area \notin archived
                  ELSE db.slice[s].area = asked
    BY AreasCover DEF shown, ListedAreas, LiveArea
  <2>4. ASSUME NEW s \in S, StatusOf(s) # "dropped"
        PROVE  Cardinality(places(s)) =
                  IF IF asked = None THEN db.slice[s].area \notin archived
                     ELSE db.slice[s].area = asked
                  THEN 1 ELSE 0
    <3>1. Cardinality(theirs(s)) = IF db.slice[s].area \in shown THEN 1 ELSE 0
      BY <2>4, ListedWhereShown
    <3> HIDE DEF places, theirs
    <3>2. QED
      BY <2>2, <2>3, <3>1
  <2>5. QED
    BY <1>3, <2>1, <2>4 DEF state, ListsOf
<1>5. QED
  BY <1>2, <1>4 DEF HomeAgrees, waiting, columns

-----------------------------------------------------------------------------
(* Theorems *)

LEMMA AlwaysSound == Spec => []Sound
<1>1. IInv => Sound
  BY GoodNow DEF Good, Sound
<1>2. QED
  BY <1>1, Invariant, PTL

\* However many plans and bites a slice has, a board calls it ready to ship
\* exactly when every bite that was not dropped is done and there is one.
THEOREM ReadyMeansFinished == Spec => []ReadyToShipIsFinished
  BY AlwaysSound, ReadyIsFinished, PTL

\* The org's board and the area boards lose no slice and show none twice.
THEOREM BoardLosesNothing == Spec => []BoardIsComplete
  BY AlwaysSound, NothingIsLost, PTL

\* The join of annotate_stage_counts counts what the separate queries count,
\* however its rows fan out, and the pages and the tools count the same slices.
THEOREM CountsAreConsistent == Spec => []CountsAgree
  BY AlwaysSound, CountsAreOne, PTL

\* Home, the roadmap and get_project_state say the same of every slice.
THEOREM HomeIsConsistent == Spec => []HomeAgrees
  BY AlwaysSound, HomeIsTrue, PTL
=============================================================================
