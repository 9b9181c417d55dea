---------------------------- MODULE DeliveryProof ----------------------------
(***************************************************************************)
(* Theorems about Delivery, for every set of workers, areas, slices, plans *)
(* and bites, and every bound on the requests.                             *)
(***************************************************************************)
EXTENDS Delivery, TLAPS

\* What a transaction must leave in the tables.
Good(d) == d \in Database /\ NoOrphansIn(d) /\ \A s \in Slice : CompletedIn(d.slice[s])

\* Whoever is about to save a row loaded it while it was there: a full-row save
\* never writes the mark of a deletion under children that are live.
RowsLive ==
    \A w \in Worker :
        request[w].kind \in {"slice", "tags", "rerun", "promoted", "plan", "bite"}
            => request[w].row.state = "live"

IInv ==
    /\ TypeOK
    /\ NoOrphans
    /\ CompletedAgrees
    /\ RowsLive

SliceKinds == {"slice", "tags", "rerun", "keyed", "promoted"}

\* What a worker may hold.
LoadedWell(r) ==
    /\ r \in Request
    /\ r.kind \in SliceKinds => CompletedIn(r.row)
    /\ r.kind \in {"slice", "tags", "rerun", "promoted", "plan", "bite"} => r.row.state = "live"

-----------------------------------------------------------------------------
(* The invariant in parts *)

LEMMA GoodNow == IInv => Good(db)
  BY DEF IInv, TypeOK, NoOrphans, CompletedAgrees, Good

LEMMA HeldWell == ASSUME IInv, NEW w \in Worker PROVE LoadedWell(request[w])
  BY DEF IInv, TypeOK, CompletedAgrees, RowsLive, LoadedWell, SliceKinds

LEMMA IdleWell == LoadedWell(Idle)
  BY DEF LoadedWell, Idle, Request, SliceKinds

\* A step of one worker that leaves good tables and holds a good row.
LEMMA StepKeeps ==
  ASSUME IInv, NEW w \in Worker, NEW loaded, LoadedWell(loaded), Good(db'),
         request' = [request EXCEPT ![w] = loaded],
         served' \in 0..MaxRequests, overlapped' \in BOOLEAN,
         checklist' \in {"unseen", "gone", "returned"}
  PROVE  IInv'
<1>1. request' \in [Worker -> Request]
  BY DEF IInv, TypeOK, LoadedWell
<1>2. \A v \in Worker : LoadedWell(request'[v])
  <2> TAKE v \in Worker
  <2>1. CASE v = w
    BY <2>1 DEF IInv, TypeOK
  <2>2. CASE v # w
    BY <2>2, HeldWell DEF IInv, TypeOK
  <2>3. QED
    BY <2>1, <2>2
<1>3. TypeOK'
  BY <1>1 DEF TypeOK, Good
<1>4. NoOrphans'
  BY DEF NoOrphans, Good
<1>5. CompletedAgrees'
  BY <1>2 DEF CompletedAgrees, Good, LoadedWell, SliceKinds
<1>6. RowsLive'
  BY <1>2 DEF RowsLive, LoadedWell
<1>7. QED
  BY <1>3, <1>4, <1>5, <1>6 DEF IInv

LEMMA AttemptKeeps ==
  ASSUME IInv, NEW w \in Worker, NEW ok, NEW new, ok => Good(new), Attempt(w, ok, new)
  PROVE  IInv'
<1>1. Good(db')
  BY GoodNow DEF Attempt
<1>2. /\ served' \in 0..MaxRequests /\ overlapped' \in BOOLEAN
      /\ checklist' \in {"unseen", "gone", "returned"}
  BY DEF IInv, TypeOK, Attempt
<1>3. QED
  BY <1>1, <1>2, IdleWell, StepKeeps DEF Attempt

LEMMA TakeKeeps ==
  ASSUME IInv, NEW w \in Worker, NEW loaded, LoadedWell(loaded), Take(w, loaded),
         served' \in 0..MaxRequests
  PROVE  IInv'
<1>1. /\ Good(db') /\ overlapped' \in BOOLEAN
      /\ checklist' \in {"unseen", "gone", "returned"}
  BY GoodNow DEF IInv, TypeOK, Take
<1>2. QED
  BY <1>1, StepKeeps DEF Take

LEMMA BeginKeeps ==
  ASSUME IInv, NEW w \in Worker, NEW loaded, LoadedWell(loaded), Begin(w, loaded)
  PROVE  IInv'
<1>1. served' \in 0..MaxRequests
  BY BoundAssumption DEF IInv, TypeOK, Begin
<1>2. QED
  BY <1>1, TakeKeeps DEF Begin

LEMMA AnswerKeeps ==
  ASSUME IInv, NEW w \in Worker, NEW new, Good(new), Answer(w, new)
  PROVE  IInv'
<1>1. served' \in 0..MaxRequests
  BY BoundAssumption DEF IInv, TypeOK, Answer
<1>2. /\ Good(db') /\ overlapped' \in BOOLEAN
      /\ checklist' \in {"unseen", "gone", "returned"}
  BY DEF IInv, TypeOK, Answer
<1>3. request' = [request EXCEPT ![w] = request[w]]
  BY DEF IInv, TypeOK, Answer
<1>4. QED
  BY <1>1, <1>2, <1>3, HeldWell, StepKeeps

-----------------------------------------------------------------------------
(* What the services store *)

\* Changes outside the rows of the work.
LEMMA FlagsStored ==
  ASSUME NEW d, Good(d), NEW new \in Database,
         new.area = d.area, new.slice = d.slice, new.plan = d.plan, new.bite = d.bite
  PROVE  Good(new)
  BY DEF Good, NoOrphansIn, LiveArea, LiveSlices, LivePlans, LiveBites

LEMMA SliceStored ==
  ASSUME NEW d, Good(d), NEW new \in Database, NEW s \in Slice, NEW row \in SliceRow,
         new.slice = [d.slice EXCEPT ![s] = row],
         s \in LiveSlices(d) => row.state = "live",
         row.state = "live" => LiveArea(d, row.area), CompletedIn(row),
         new.area = d.area, new.plan = d.plan, new.bite = d.bite
  PROVE  Good(new)
<1>1. d \in Database
  BY DEF Good
<1>2. new.slice[s] = row /\ \A t \in Slice : t # s => new.slice[t] = d.slice[t]
  BY <1>1 DEF Database
<1>3. LiveSlices(d) \subseteq LiveSlices(new)
  BY <1>2 DEF LiveSlices
<1>4. \A t \in LiveSlices(new) : LiveArea(new, new.slice[t].area)
  BY <1>2 DEF Good, NoOrphansIn, LiveSlices, LiveArea
<1>5. NoOrphansIn(new)
  BY <1>3, <1>4 DEF Good, NoOrphansIn, LivePlans, LiveBites
<1>6. \A t \in Slice : CompletedIn(new.slice[t])
  BY <1>2 DEF Good
<1>7. QED
  BY <1>5, <1>6 DEF Good

LEMMA PlanStored ==
  ASSUME NEW d, Good(d), NEW new \in Database, NEW p \in Plan, NEW row \in PlanRow,
         new.plan = [d.plan EXCEPT ![p] = row],
         row.state = "live", row.slice \in LiveSlices(d),
         new.area = d.area, new.slice = d.slice, new.bite = d.bite
  PROVE  Good(new)
<1>1. d \in Database
  BY DEF Good
<1>2. new.plan[p] = row /\ \A q \in Plan : q # p => new.plan[q] = d.plan[q]
  BY <1>1 DEF Database
<1>3. LivePlans(d) \subseteq LivePlans(new)
  BY <1>2 DEF LivePlans
<1>4. \A q \in LivePlans(new) : new.plan[q].slice \in LiveSlices(new)
  BY <1>2 DEF Good, NoOrphansIn, LiveSlices, LivePlans
<1>5. NoOrphansIn(new)
  BY <1>3, <1>4 DEF Good, NoOrphansIn, LiveSlices, LiveArea, LiveBites
<1>6. QED
  BY <1>5 DEF Good

LEMMA BitesStored ==
  ASSUME NEW d, Good(d), NEW new \in Database,
         \A b \in Bite : \/ new.bite[b] = d.bite[b]
                         \/ new.bite[b].state = "live" => new.bite[b].plan \in LivePlans(d),
         new.area = d.area, new.slice = d.slice, new.plan = d.plan
  PROVE  Good(new)
<1>1. \A b \in LiveBites(new) : new.bite[b].plan \in LivePlans(new)
  BY DEF Good, NoOrphansIn, LiveBites, LivePlans
<1>2. NoOrphansIn(new)
  BY <1>1 DEF Good, NoOrphansIn, LiveSlices, LiveArea, LivePlans
<1>3. QED
  BY <1>2 DEF Good

LEMMA WithoutBitesStored ==
  ASSUME NEW d, Good(d), NEW gone
  PROVE  Good(WithoutBites(d, gone))
<1> DEFINE new == WithoutBites(d, gone)
<1>1. d \in Database
  BY DEF Good
<1>2. \A b \in Bite : [NoBite EXCEPT !.state = "deleted", !.plan = d.bite[b].plan] \in BiteRow
  BY <1>1 DEF Database, BiteRow, NoBite, RowState, BiteStatuses
<1>3. /\ new.area = d.area /\ new.slice = d.slice /\ new.plan = d.plan
      /\ new.bite = [b \in Bite |-> IF b \in gone
                     THEN [NoBite EXCEPT !.state = "deleted", !.plan = d.bite[b].plan]
                     ELSE d.bite[b]]
  BY <1>1 DEF WithoutBites, Database
<1>4. new \in Database
  BY <1>1, <1>2 DEF WithoutBites, Database
<1>5. \A b \in Bite : new.bite[b] = d.bite[b] \/ new.bite[b].state = "deleted"
  BY <1>3 DEF NoBite
<1> HIDE DEF new
<1>6. Good(new)
  BY <1>3, <1>4, <1>5, BitesStored
<1>7. QED
  BY <1>6 DEF new

LEMMA WithoutPlansParts ==
  ASSUME NEW d, Good(d), NEW gone
  PROVE  LET new == WithoutPlans(d, gone) IN
         /\ new \in Database
         /\ new.area = d.area /\ new.slice = d.slice /\ new.someday = d.someday
         /\ LivePlans(new) = LivePlans(d) \ gone
         /\ \A p \in LivePlans(new) : new.plan[p] = d.plan[p]
         /\ LiveBites(new) = {b \in LiveBites(d) : d.bite[b].plan \notin gone}
         /\ \A b \in LiveBites(new) : new.bite[b] = d.bite[b]
<1> DEFINE new == WithoutPlans(d, gone)
           with == {b \in LiveBites(d) : d.bite[b].plan \in gone}
           rest == WithoutBites(d, with)
<1>1. d \in Database
  BY DEF Good
<1>2. rest \in Database
  BY WithoutBitesStored DEF Good
<1>3. /\ rest.area = d.area /\ rest.slice = d.slice /\ rest.plan = d.plan
      /\ rest.someday = d.someday
      /\ rest.bite = [b \in Bite |-> IF b \in with
                      THEN [NoBite EXCEPT !.state = "deleted", !.plan = d.bite[b].plan]
                      ELSE d.bite[b]]
  BY <1>1 DEF WithoutBites, Database
<1>4. new = [rest EXCEPT !.plan = [p \in Plan |-> IF p \in gone
                                   THEN [NoPlan EXCEPT !.state = "deleted"] ELSE d.plan[p]]]
  BY DEF WithoutPlans
<1> HIDE DEF rest, new
<1>5. [NoPlan EXCEPT !.state = "deleted"] \in PlanRow
  BY DEF NoPlan, PlanRow, RowState
<1>6. /\ new.area = d.area /\ new.slice = d.slice /\ new.someday = d.someday
      /\ new.bite = rest.bite
      /\ new.plan = [p \in Plan |-> IF p \in gone
                     THEN [NoPlan EXCEPT !.state = "deleted"] ELSE d.plan[p]]
  BY <1>2, <1>3, <1>4 DEF Database
<1>7. new \in Database
  BY <1>1, <1>2, <1>4, <1>5 DEF Database
<1>8. LivePlans(new) = LivePlans(d) \ gone /\ \A p \in LivePlans(new) : new.plan[p] = d.plan[p]
  BY <1>6 DEF LivePlans, NoPlan
<1>9. /\ LiveBites(new) = {b \in LiveBites(d) : d.bite[b].plan \notin gone}
      /\ \A b \in LiveBites(new) : new.bite[b] = d.bite[b]
  <2>1. \A b \in Bite : b \in with <=> b \in LiveBites(d) /\ d.bite[b].plan \in gone
    BY DEF LiveBites
  <2> HIDE DEF with
  <2>2. \A b \in Bite : IF b \in with THEN new.bite[b].state = "deleted"
                                     ELSE new.bite[b] = d.bite[b]
    <3>1. ASSUME NEW b \in Bite
          PROVE  new.bite[b] = IF b \in with
                               THEN [NoBite EXCEPT !.state = "deleted", !.plan = d.bite[b].plan]
                               ELSE d.bite[b]
      <4>1. new.bite = rest.bite
        BY <1>6
      <4>2. QED
        BY <1>3, <4>1, Zenon
    <3>2. \A p : [NoBite EXCEPT !.state = "deleted", !.plan = p].state = "deleted"
      BY DEF NoBite
    <3>3. QED
      BY <3>1, <3>2
  <2>3. \A b \in Bite : b \in LiveBites(new) <=> b \in LiveBites(d) /\ d.bite[b].plan \notin gone
    BY <2>1, <2>2 DEF LiveBites
  <2>4. LiveBites(new) \subseteq Bite /\ LiveBites(d) \subseteq Bite
    BY DEF LiveBites
  <2>5. LiveBites(new) = {b \in LiveBites(d) : d.bite[b].plan \notin gone}
    BY <2>3, <2>4
  <2>6. QED
    BY <2>1, <2>2, <2>4, <2>5
<1>10. QED
  BY <1>6, <1>7, <1>8, <1>9 DEF new

LEMMA WithoutPlansStored ==
  ASSUME NEW d, Good(d), NEW gone
  PROVE  Good(WithoutPlans(d, gone))
<1> DEFINE new == WithoutPlans(d, gone)
<1>1. /\ new \in Database
      /\ new.area = d.area /\ new.slice = d.slice
      /\ LivePlans(new) = LivePlans(d) \ gone
      /\ \A p \in LivePlans(new) : new.plan[p] = d.plan[p]
      /\ LiveBites(new) = {b \in LiveBites(d) : d.bite[b].plan \notin gone}
      /\ \A b \in LiveBites(new) : new.bite[b] = d.bite[b]
  BY WithoutPlansParts
<1> HIDE DEF new
<1>2. NoOrphansIn(new)
  <2>1. \A b \in LiveBites(new) : new.bite[b].plan \in LivePlans(new)
    BY <1>1 DEF Good, NoOrphansIn
  <2>2. \A p \in LivePlans(new) : new.plan[p].slice \in LiveSlices(new)
    BY <1>1 DEF Good, NoOrphansIn, LiveSlices
  <2>3. \A s \in LiveSlices(new) : LiveArea(new, new.slice[s].area)
    BY <1>1 DEF Good, NoOrphansIn, LiveSlices, LiveArea
  <2>4. QED
    BY <2>1, <2>2, <2>3 DEF NoOrphansIn
<1>3. Good(new)
  BY <1>1, <1>2 DEF Good
<1>4. QED
  BY <1>3 DEF new

\* The deletion of an area takes everything along that could be left an orphan.
LEMMA WithoutAreaStored ==
  ASSUME NEW d, Good(d), NEW a \in Area
  PROVE  Good(WithoutArea(d, a))
<1> DEFINE gone == {p \in LivePlans(d) : d.plan[p].slice \in SlicesOf(d, a)}
           rest == WithoutPlans(d, gone)
           slices == [s \in Slice |-> IF s \in SlicesOf(d, a)
                                      THEN [NoSlice EXCEPT !.state = "deleted"] ELSE d.slice[s]]
           new == WithoutArea(d, a)
<1>1. d \in Database
  BY DEF Good
<1>2. /\ rest \in Database
      /\ rest.area = d.area /\ rest.slice = d.slice /\ rest.someday = d.someday
      /\ LivePlans(rest) = LivePlans(d) \ gone
      /\ \A p \in LivePlans(rest) : rest.plan[p] = d.plan[p]
      /\ LiveBites(rest) = {b \in LiveBites(d) : d.bite[b].plan \notin gone}
      /\ \A b \in LiveBites(rest) : rest.bite[b] = d.bite[b]
  BY WithoutPlansParts
<1>3. new = [rest EXCEPT !.area[a] = "deleted", !.slice = slices,
                         !.someday = @ \ SlicesOf(d, a)]
  BY DEF WithoutArea
<1>4. [NoSlice EXCEPT !.state = "deleted"] \in SliceRow /\ CompletedIn([NoSlice EXCEPT !.state = "deleted"])
  BY DEF NoSlice, SliceRow, RowState, SliceStatuses, CompletedIn
<1>5. slices \in [Slice -> SliceRow]
  BY <1>1, <1>4 DEF Database
<1> HIDE DEF rest, new
<1>6. \A s \in Slice : slices[s] = IF s \in SlicesOf(d, a)
                                   THEN [NoSlice EXCEPT !.state = "deleted"] ELSE d.slice[s]
  OBVIOUS
<1>7. \A s \in Slice : CompletedIn(slices[s])
  BY <1>4, <1>6 DEF Good
<1>8. \A s \in Slice : slices[s].state = "live" <=> s \in LiveSlices(d) /\ d.slice[s].area # a
  BY <1>6 DEF SlicesOf, LiveSlices, NoSlice
<1> HIDE DEF slices
<1>9. /\ new.area = [d.area EXCEPT ![a] = "deleted"] /\ new.slice = slices
      /\ new.plan = rest.plan /\ new.bite = rest.bite
  BY <1>2, <1>3 DEF Database
<1>10. new \in Database
  BY <1>2, <1>3, <1>5 DEF Database, RowState
<1>11. LiveSlices(new) = {s \in LiveSlices(d) : d.slice[s].area # a}
       /\ \A s \in LiveSlices(new) : new.slice[s] = d.slice[s]
  BY <1>6, <1>8, <1>9 DEF LiveSlices, SlicesOf
<1>12. LivePlans(new) = LivePlans(d) \ gone /\ \A p \in LivePlans(new) : new.plan[p] = d.plan[p]
  BY <1>2, <1>9 DEF LivePlans
<1>13. /\ LiveBites(new) = {b \in LiveBites(d) : d.bite[b].plan \notin gone}
       /\ \A b \in LiveBites(new) : new.bite[b] = d.bite[b]
  BY <1>2, <1>9 DEF LiveBites
<1>14. NoOrphansIn(new)
  <2>1. \A b \in LiveBites(new) : new.bite[b].plan \in LivePlans(new)
    BY <1>12, <1>13 DEF Good, NoOrphansIn
  <2>2. \A p \in LivePlans(new) : new.plan[p].slice \in LiveSlices(new)
    BY <1>11, <1>12 DEF Good, NoOrphansIn, SlicesOf
  <2>3. \A s \in LiveSlices(new) : LiveArea(new, new.slice[s].area)
    BY <1>1, <1>9, <1>11 DEF Good, NoOrphansIn, LiveArea, Database
  <2>4. QED
    BY <2>1, <2>2, <2>3 DEF NoOrphansIn
<1>15. Good(new)
  BY <1>7, <1>9, <1>10, <1>14 DEF Good
<1>16. QED
  BY <1>15 DEF new

-----------------------------------------------------------------------------
(* Areas *)

LEMMA CreateAreaKeeps ==
  ASSUME IInv, NEW w \in Worker, NEW actor, CreateArea(w, actor)
  PROVE  IInv'
<1> DEFINE a == NextKey(FreshAreas)
<1>1. PICK told \in BOOLEAN :
          Answer(w, IF FreshAreas = {} THEN db ELSE
                    [db EXCEPT !.area[a] = "live",
                               !.connected = @ \/ (told /\ actor = "agent")])
  BY DEF CreateArea
<1>2. CASE FreshAreas = {}
  BY <1>1, <1>2, GoodNow, AnswerKeeps
<1>3. CASE FreshAreas # {}
  <2> DEFINE new == [db EXCEPT !.area[a] = "live",
                               !.connected = @ \/ (told /\ actor = "agent")]
  <2>1. a \in Area
    BY <1>3 DEF FreshAreas, NextKey
  <2>2. db \in Database /\ Good(db)
    BY GoodNow DEF Good
  <2>3. /\ new \in Database /\ new.area = [db.area EXCEPT ![a] = "live"]
        /\ new.slice = db.slice /\ new.plan = db.plan /\ new.bite = db.bite
    BY <2>1, <2>2 DEF Database, RowState
  <2>4. Answer(w, new)
    BY <1>1, <1>3
  <2> HIDE DEF new, a
  <2>5. \A x : LiveArea(db, x) => LiveArea(new, x)
    BY <2>1, <2>2, <2>3 DEF LiveArea, Database
  <2>6. Good(new)
    BY <2>2, <2>3, <2>5 DEF Good, NoOrphansIn, LiveSlices, LivePlans, LiveBites
  <2>7. QED
    BY <2>4, <2>6, AnswerKeeps
<1>4. QED
  BY <1>2, <1>3

LEMMA DeleteAreaKeeps ==
  ASSUME IInv, NEW w \in Worker, Serving(w, "area"), DeleteArea(w)
  PROVE  IInv'
<1> DEFINE a == request[w].id
           told == [db EXCEPT !.announced = @ \cup {a}]
<1>1. a \in Area
  BY DEF IInv, TypeOK, Serving, Request, Idle
<1>2. db \in Database /\ Good(db)
  BY GoodNow DEF Good
<1>3. /\ told \in Database /\ told.area = db.area /\ told.slice = db.slice
      /\ told.plan = db.plan /\ told.bite = db.bite
  BY <1>1, <1>2 DEF Database
<1>4. PICK failed \in BOOLEAN :
          Attempt(w, TRUE, IF failed \/ ~LiveArea(db, a) THEN told ELSE WithoutArea(told, a))
  BY DEF DeleteArea
<1> HIDE DEF told
<1>5. Good(told)
  BY <1>2, <1>3, FlagsStored
<1>6. Good(WithoutArea(told, a))
  BY <1>1, <1>5, WithoutAreaStored
<1>7. QED
  BY <1>4, <1>5, <1>6, AttemptKeeps

LEMMA AreaStepKeeps ==
  ASSUME IInv, NEW w \in Worker, AreaStep(w)
  PROVE  IInv'
  BY CreateAreaKeeps, DeleteAreaKeeps DEF AreaStep, AreaCreateView, CreateAreaTool, AreaDeleteView

-----------------------------------------------------------------------------
(* Loading rows *)

LEMMA LoadKeeps ==
  ASSUME IInv, NEW w \in Worker, Load(w)
  PROVE  IInv'
<1>0. db \in Database /\ Good(db)
  BY GoodNow DEF Good
<1>1. CASE LoadArea(w)
  <2>1. PICK a \in Area : Begin(w, [kind |-> "area", id |-> a, row |-> None])
    BY <1>1 DEF LoadArea
  <2>2. LoadedWell([kind |-> "area", id |-> a, row |-> None])
    BY DEF LoadedWell, Request, SliceKinds
  <2>3. QED
    BY <2>1, <2>2, BeginKeeps
<1>2. CASE LoadSlice(w)
  <2>1. PICK s \in LiveSlices(db) : Begin(w, [kind |-> "slice", id |-> s, row |-> db.slice[s]])
    BY <1>2 DEF LoadSlice
  <2>2. s \in Slice /\ db.slice[s] \in SliceRow /\ db.slice[s].state = "live"
        /\ CompletedIn(db.slice[s])
    BY <1>0 DEF LiveSlices, Database, Good
  <2>3. LoadedWell([kind |-> "slice", id |-> s, row |-> db.slice[s]])
    BY <2>2 DEF LoadedWell, Request, SliceKinds
  <2>4. QED
    BY <2>1, <2>3, BeginKeeps
<1>3. CASE LoadPlan(w)
  <2>1. PICK p \in LivePlans(db) : Begin(w, [kind |-> "plan", id |-> p, row |-> db.plan[p]])
    BY <1>3 DEF LoadPlan
  <2>2. p \in Plan /\ db.plan[p] \in PlanRow /\ db.plan[p].state = "live"
    BY <1>0 DEF LivePlans, Database
  <2>3. LoadedWell([kind |-> "plan", id |-> p, row |-> db.plan[p]])
    BY <2>2 DEF LoadedWell, Request, SliceKinds
  <2>4. QED
    BY <2>1, <2>3, BeginKeeps
<1>4. CASE LoadBite(w)
  <2>1. PICK b \in LiveBites(db) : Begin(w, [kind |-> "bite", id |-> b, row |-> db.bite[b]])
    BY <1>4 DEF LoadBite
  <2>2. b \in Bite /\ db.bite[b] \in BiteRow /\ db.bite[b].state = "live"
    BY <1>0 DEF LiveBites, Database
  <2>3. LoadedWell([kind |-> "bite", id |-> b, row |-> db.bite[b]])
    BY <2>2 DEF LoadedWell, Request, SliceKinds
  <2>4. QED
    BY <2>1, <2>3, BeginKeeps
<1>5. CASE LoadTags(w)
  <2> DEFINE r == request[w]
             loaded == [kind |-> "tags", id |-> r.id, row |-> r.row,
                        someday |-> r.id \in db.someday]
  <2>1. r \in [kind : {"slice", "rerun", "promoted"}, id : Slice, row : SliceRow]
        /\ r.kind = "slice"
    BY <1>5 DEF IInv, TypeOK, LoadTags, Serving, Request, Idle
  <2>2. CompletedIn(r.row) /\ r.row.state = "live"
    BY <2>1, HeldWell DEF LoadedWell, SliceKinds
  <2>3. LoadedWell(loaded)
    BY <2>1, <2>2 DEF LoadedWell, Request, SliceKinds
  <2>4. request' = [request EXCEPT ![w] = loaded]
        /\ UNCHANGED <<db, served, overlapped, checklist>>
    BY <1>5 DEF LoadTags
  <2> HIDE DEF loaded
  <2>5. QED
    BY <1>0, <2>3, <2>4, StepKeeps DEF IInv, TypeOK
<1>6. QED
  BY <1>1, <1>2, <1>3, <1>4, <1>5 DEF Load

-----------------------------------------------------------------------------
(* Slices *)

\* The slice in a worker's memory.
LEMMA HeldSlice ==
  ASSUME IInv, NEW w \in Worker, request[w].kind \in {"slice", "tags", "rerun", "promoted"}
  PROVE  /\ request[w].id \in Slice /\ request[w].row \in SliceRow
         /\ request[w].row.state = "live" /\ CompletedIn(request[w].row)
<1>1. request[w].id \in Slice /\ request[w].row \in SliceRow
  BY DEF IInv, TypeOK, Request, Idle
<1>2. QED
  BY <1>1, HeldWell DEF LoadedWell, SliceKinds

Tags == {"keep", "someday", "other"}

LEMMA RetagTyped ==
  ASSUME IInv, NEW s \in Slice, NEW tags \in Tags
  PROVE  Retag(s, tags) \subseteq Slice
  BY DEF Retag, Tags, IInv, TypeOK, Database

LEMMA WithStatusSound ==
  ASSUME NEW row \in SliceRow, NEW status \in SliceStatuses
  PROVE  /\ WithStatus(row, status) \in SliceRow /\ CompletedIn(WithStatus(row, status))
         /\ WithStatus(row, status).state = row.state
         /\ WithStatus(row, status).area = row.area
  BY DEF WithStatus, SliceRow, CompletedIn

LEMMA WithSliceGood ==
  ASSUME IInv, NEW row \in SliceRow, NEW status, NEW tags \in Tags, NEW actor,
         Insertable(row, status)
  PROVE  /\ Good(WithSlice(row, status, tags, actor))
         /\ NextKey(Fresh(db.slice)) \in Slice
         /\ NewRow(row, status) \in SliceRow /\ NewRow(row, status).state = "live"
         /\ CompletedIn(NewRow(row, status))
<1> DEFINE s == NextKey(Fresh(db.slice))
           new == WithSlice(row, status, tags, actor)
<1>0. db \in Database /\ Good(db)
  BY GoodNow DEF Good
<1>1. s \in Slice
  BY <1>0 DEF Insertable, Fresh, NextKey, Database
<1>2. status \in SliceStatuses /\ LiveArea(db, row.area)
  BY DEF Insertable
<1>3. WithStatus(row, status) \in SliceRow /\ CompletedIn(WithStatus(row, status))
      /\ WithStatus(row, status).area = row.area
  BY <1>2, WithStatusSound
<1>4. /\ NewRow(row, status) \in SliceRow /\ NewRow(row, status).state = "live"
      /\ CompletedIn(NewRow(row, status)) /\ NewRow(row, status).area = row.area
  BY <1>3 DEF NewRow, SliceRow, RowState, CompletedIn
<1>5. Retag(s, tags) \subseteq Slice
  BY <1>1, RetagTyped
<1>6. Heard(actor) \in BOOLEAN
  BY DEF Heard
<1>7. new = [db EXCEPT !.slice[s] = NewRow(row, status), !.someday = Retag(s, tags),
                       !.reported[s] = status, !.connected = Heard(actor)]
  BY DEF WithSlice
<1> HIDE DEF new, s
<1>8. /\ new \in Database /\ new.slice = [db.slice EXCEPT ![s] = NewRow(row, status)]
      /\ new.area = db.area /\ new.plan = db.plan /\ new.bite = db.bite
  BY <1>0, <1>1, <1>2, <1>4, <1>5, <1>6, <1>7 DEF Database
<1>9. Good(new)
  BY <1>0, <1>1, <1>2, <1>4, <1>8, SliceStored
<1>10. QED
  BY <1>1, <1>4, <1>9 DEF new, s

LEMMA InsertSliceKeeps ==
  ASSUME IInv, NEW w \in Worker, NEW row \in SliceRow, NEW status, NEW tags \in Tags, NEW actor,
         InsertSlice(w, row, status, tags, actor)
  PROVE  IInv'
  BY WithSliceGood, AttemptKeeps DEF InsertSlice

LEMMA UpdateSliceKeeps ==
  ASSUME IInv, NEW w \in Worker, request[w].kind \in {"slice", "tags", "rerun", "promoted"},
         NEW spec, NEW status, NEW tags \in Tags, NEW actor,
         UpdateSlice(w, spec, status, tags, actor)
  PROVE  IInv'
<1> DEFINE s == request[w].id
           old == request[w].row
           edited == [old EXCEPT !.spec = IF spec = "keep" THEN @ ELSE spec = "text"]
           row == IF status = "keep" THEN edited ELSE WithStatus(edited, status)
           told == status \notin {"keep", old.status}
           ok == status \in SliceStatuses \cup {"keep"} /\ LiveArea(db, old.area)
           new == [db EXCEPT !.slice[s] = row, !.someday = Retag(s, tags),
                             !.reported[s] = IF told THEN status ELSE @,
                             !.connected = @ \/ (told /\ actor = "agent")]
<1>0. db \in Database /\ Good(db)
  BY GoodNow DEF Good
<1>1. s \in Slice /\ old \in SliceRow /\ old.state = "live" /\ CompletedIn(old)
  BY HeldSlice
<1>2. edited \in SliceRow /\ edited.state = "live" /\ CompletedIn(edited)
      /\ edited.area = old.area
  BY <1>1 DEF SliceRow, CompletedIn
<1>3. Attempt(w, ok, new)
  BY DEF UpdateSlice
<1>4. ASSUME ok PROVE Good(new)
  <2>1. status # "keep" => status \in SliceStatuses
    BY <1>4
  <2> HIDE DEF edited
  <2>2. row \in SliceRow /\ row.state = "live" /\ CompletedIn(row) /\ row.area = old.area
    BY <1>2, <2>1, WithStatusSound
  <2>3. Retag(s, tags) \subseteq Slice
    BY <1>1, RetagTyped
  <2>4. told => status \in SliceStatuses
    BY <2>1
  <2> HIDE DEF row, told, s, old
  <2>5. /\ new \in Database /\ new.slice = [db.slice EXCEPT ![s] = row]
        /\ new.area = db.area /\ new.plan = db.plan /\ new.bite = db.bite
    BY <1>0, <1>1, <2>2, <2>3, <2>4 DEF Database
  <2> HIDE DEF new
  <2>6. QED
    BY <1>0, <1>1, <1>4, <2>2, <2>5, SliceStored
<1>5. QED
  BY <1>3, <1>4, AttemptKeeps

LEMMA SetSliceStatusKeeps ==
  ASSUME IInv, NEW w \in Worker, request[w].kind \in {"slice", "promoted"}, NEW status,
         SetSliceStatus(w, status)
  PROVE  IInv'
<1> DEFINE s == request[w].id
           told == status # request[w].row.status
           ok == /\ status \in SliceStatuses /\ db.slice[s].state = "live"
                 /\ told => LiveArea(db, request[w].row.area)
           row == WithStatus(db.slice[s], status)
           new == [db EXCEPT !.slice[s] = WithStatus(@, status),
                             !.reported[s] = IF told THEN status ELSE @]
<1>0. db \in Database /\ Good(db)
  BY GoodNow DEF Good
<1>1. s \in Slice
  BY HeldSlice
<1>2. Attempt(w, ok, new)
  BY DEF SetSliceStatus
<1>3. ASSUME ok PROVE Good(new)
  <2>1. db.slice[s] \in SliceRow /\ LiveArea(db, db.slice[s].area)
    BY <1>0, <1>1, <1>3 DEF Database, Good, NoOrphansIn, LiveSlices
  <2>2. row \in SliceRow /\ row.state = "live" /\ CompletedIn(row) /\ LiveArea(db, row.area)
    BY <1>3, <2>1, WithStatusSound
  <2> HIDE DEF told, s
  <2>3. /\ new \in Database /\ new.slice = [db.slice EXCEPT ![s] = row]
        /\ new.area = db.area /\ new.plan = db.plan /\ new.bite = db.bite
    BY <1>0, <1>1, <1>3, <2>2 DEF Database
  <2> HIDE DEF new, row
  <2>4. QED
    BY <1>0, <1>1, <2>2, <2>3, SliceStored
<1>4. QED
  BY <1>2, <1>3, AttemptKeeps

LEMMA SetSliceAreaKeeps ==
  ASSUME IInv, NEW w \in Worker, request[w].kind = "slice", NEW a \in Area, SetSliceArea(w, a)
  PROVE  IInv'
<1> DEFINE s == request[w].id
           ok == /\ LiveArea(db, request[w].row.area) /\ LiveArea(db, a)
                 /\ db.slice[s].state = "live"
           row == [db.slice[s] EXCEPT !.area = a]
           new == [db EXCEPT !.slice[s].area = a]
<1>0. db \in Database /\ Good(db)
  BY GoodNow DEF Good
<1>1. s \in Slice
  BY HeldSlice
<1>2. Attempt(w, ok, new)
  BY DEF SetSliceArea
<1>3. ASSUME ok PROVE Good(new)
  <2>1. db.slice[s] \in SliceRow /\ CompletedIn(db.slice[s])
    BY <1>0, <1>1 DEF Database, Good
  <2>2. row \in SliceRow /\ row.state = "live" /\ CompletedIn(row) /\ LiveArea(db, row.area)
    BY <1>3, <2>1 DEF SliceRow, CompletedIn
  <2> HIDE DEF s
  <2>3. /\ new \in Database /\ new.slice = [db.slice EXCEPT ![s] = row]
        /\ new.area = db.area /\ new.plan = db.plan /\ new.bite = db.bite
    BY <1>0, <1>1, <2>2 DEF Database
  <2> HIDE DEF new, row
  <2>4. QED
    BY <1>0, <1>1, <2>2, <2>3, SliceStored
<1>4. QED
  BY <1>2, <1>3, AttemptKeeps

\* The row of a slice that is about to be inserted.
LEMMA NewSliceTyped ==
  ASSUME NEW a \in Area, NEW spec \in BOOLEAN
  PROVE  /\ [NoSlice EXCEPT !.area = a, !.spec = spec] \in SliceRow
         /\ [NoSlice EXCEPT !.area = a] \in SliceRow
  BY DEF NoSlice, SliceRow, RowState, SliceStatuses

LEMMA HeldArea ==
  ASSUME IInv, NEW w \in Worker, request[w].kind \in {"area", "keyed"}
  PROVE  request[w].id \in Area
  BY DEF IInv, TypeOK, Request, Idle

LEMMA TicketPromoteViewKeeps ==
  ASSUME IInv, NEW w \in Worker, TicketPromoteView(w)
  PROVE  IInv'
<1> DEFINE row == [NoSlice EXCEPT !.area = request[w].id]
           fresh == NextKey(Fresh(db.slice))
<1>0. db \in Database /\ Good(db)
  BY GoodNow DEF Good
<1>1. row \in SliceRow
  BY HeldArea, NewSliceTyped DEF TicketPromoteView, Serving
<1>2. /\ served' \in 0..MaxRequests /\ overlapped' \in BOOLEAN
      /\ checklist' \in {"unseen", "gone", "returned"}
  BY DEF IInv, TypeOK, TicketPromoteView
<1>3. ASSUME NEW s \in LiveSlices(db), db' = db,
             request' = [request EXCEPT ![w] =
                            [kind |-> "promoted", id |-> s, row |-> db.slice[s]]]
      PROVE  IInv'
  <2>1. s \in Slice /\ db.slice[s] \in SliceRow /\ db.slice[s].state = "live"
        /\ CompletedIn(db.slice[s])
    BY <1>0 DEF LiveSlices, Database, Good
  <2>2. LoadedWell([kind |-> "promoted", id |-> s, row |-> db.slice[s]])
    BY <2>1 DEF LoadedWell, Request, SliceKinds
  <2>3. QED
    BY <1>0, <1>2, <1>3, <2>2, StepKeeps
<1>4. CASE /\ Insertable(row, "planned")
           /\ request' = [request EXCEPT ![w] =
                  [kind |-> "promoted", id |-> fresh, row |-> NewRow(row, "planned")]]
           /\ db' = WithSlice(row, "planned", "keep", "human")
  <2>1. /\ Good(WithSlice(row, "planned", "keep", "human")) /\ fresh \in Slice
        /\ NewRow(row, "planned") \in SliceRow /\ NewRow(row, "planned").state = "live"
        /\ CompletedIn(NewRow(row, "planned"))
    BY <1>1, <1>4, WithSliceGood DEF Tags
  <2>2. LoadedWell([kind |-> "promoted", id |-> fresh, row |-> NewRow(row, "planned")])
    BY <2>1 DEF LoadedWell, Request, SliceKinds
  <2> HIDE DEF row, fresh
  <2>3. QED
    BY <1>2, <1>4, <2>1, <2>2, StepKeeps
<1>5. CASE Attempt(w, FALSE, db)
  BY <1>5, AttemptKeeps
<1>6. QED
  BY <1>3, <1>4, <1>5 DEF TicketPromoteView

LEMMA CreateSliceToolKeeps ==
  ASSUME IInv, NEW w \in Worker, CreateSliceTool(w)
  PROVE  IInv'
<1>0. db \in Database /\ Good(db)
  BY GoodNow DEF Good
<1>1. request[w].id \in Area
  BY HeldArea DEF CreateSliceTool, Serving
<1>2. PICK key \in Key \cup {None} :
        request' = [request EXCEPT ![w] =
               IF WithKey(key) = {}
               THEN [kind |-> "keyed", id |-> request[w].id,
                     row |-> [NoSlice EXCEPT !.area = request[w].id, !.key = key]]
               ELSE [kind |-> "rerun", id |-> NextKey(WithKey(key)),
                     row |-> db.slice[NextKey(WithKey(key))]]]
  BY DEF CreateSliceTool
<1>3. /\ Good(db') /\ served' \in 0..MaxRequests /\ overlapped' \in BOOLEAN
      /\ checklist' \in {"unseen", "gone", "returned"}
  BY <1>0 DEF IInv, TypeOK, CreateSliceTool
<1>4. CASE WithKey(key) = {}
  <2> DEFINE row == [NoSlice EXCEPT !.area = request[w].id, !.key = key]
             loaded == [kind |-> "keyed", id |-> request[w].id, row |-> row]
  <2>1. row \in SliceRow /\ CompletedIn(row)
    BY <1>1 DEF NoSlice, SliceRow, RowState, SliceStatuses, CompletedIn
  <2> HIDE DEF row
  <2>2. LoadedWell(loaded)
    BY <1>1, <2>1 DEF LoadedWell, Request, SliceKinds
  <2>3. request' = [request EXCEPT ![w] = loaded]
    BY <1>2, <1>4 DEF row
  <2> HIDE DEF loaded
  <2>4. QED
    BY <1>3, <2>2, <2>3, StepKeeps
<1>5. CASE WithKey(key) # {}
  <2> DEFINE s == NextKey(WithKey(key))
             loaded == [kind |-> "rerun", id |-> s, row |-> db.slice[s]]
  <2>1. s \in LiveSlices(db)
    BY <1>5 DEF WithKey, NextKey
  <2>2. s \in Slice /\ db.slice[s] \in SliceRow /\ db.slice[s].state = "live"
        /\ CompletedIn(db.slice[s])
    BY <1>0, <2>1 DEF LiveSlices, Database, Good
  <2>3. LoadedWell(loaded)
    BY <2>2 DEF LoadedWell, Request, SliceKinds
  <2>4. request' = [request EXCEPT ![w] = loaded]
    BY <1>2, <1>5
  <2> HIDE DEF loaded
  <2>5. QED
    BY <1>3, <2>3, <2>4, StepKeeps
<1>6. QED
  BY <1>4, <1>5

LEMMA SliceStepKeeps ==
  ASSUME IInv, NEW w \in Worker, SliceStep(w)
  PROVE  IInv'
<1>1. CASE AreaSliceCreateView(w)
  <2>1. PICK status \in SliceStatuses \cup {"bad"}, spec \in BOOLEAN, tags \in {"keep", "someday"} :
            InsertSlice(w, [NoSlice EXCEPT !.area = request[w].id, !.spec = spec],
                        status, tags, "human")
    BY <1>1 DEF AreaSliceCreateView
  <2>2. [NoSlice EXCEPT !.area = request[w].id, !.spec = spec] \in SliceRow
    BY <1>1, HeldArea, NewSliceTyped DEF AreaSliceCreateView, Serving
  <2>3. QED
    BY <2>1, <2>2, InsertSliceKeeps DEF Tags
<1>2. CASE TicketPromoteStatus(w)
  BY <1>2, GoodNow, AttemptKeeps, SetSliceStatusKeeps DEF TicketPromoteStatus, Serving
<1>3. CASE PromoteTicketTool(w)
  <2>1. [NoSlice EXCEPT !.area = request[w].id] \in SliceRow
    BY <1>3, HeldArea, NewSliceTyped DEF PromoteTicketTool, Serving
  <2>2. QED
    BY <1>3, <2>1, GoodNow, AttemptKeeps, InsertSliceKeeps DEF PromoteTicketTool, Tags
<1>4. CASE CreateSliceInsert(w)
  <2>1. PICK status \in SliceStatuses \cup {"bad"}, spec \in BOOLEAN, tags \in {"keep", "someday"} :
            InsertSlice(w, [request[w].row EXCEPT !.spec = spec], status, tags, "agent")
    BY <1>4 DEF CreateSliceInsert
  <2>2. request[w].row \in SliceRow
    BY <1>4 DEF IInv, TypeOK, CreateSliceInsert, Serving, Request, Idle
  <2>3. [request[w].row EXCEPT !.spec = spec] \in SliceRow
    BY <2>2 DEF SliceRow
  <2>4. QED
    BY <2>1, <2>3, InsertSliceKeeps DEF Tags
<1>5. CASE CreateSliceRerun(w) \/ SliceEditView(w) \/ UpdateSliceTool(w)
  BY <1>5, UpdateSliceKeeps DEF CreateSliceRerun, SliceEditView, UpdateSliceTool, Serving, Tags
<1>6. CASE SliceTagsView(w)
  <2>1. \E tags \in Tags : UpdateSlice(w, "keep", "keep", tags, "human")
    BY <1>6 DEF SliceTagsView, Tags
  <2>2. QED
    BY <1>6, <2>1, UpdateSliceKeeps DEF SliceTagsView, Serving
<1>7. CASE SliceStatusView(w) \/ SliceMoveView(w)
  BY <1>7, GoodNow, AttemptKeeps, SetSliceStatusKeeps DEF SliceStatusView, SliceMoveView, Serving
<1>8. CASE SliceReassignView(w)
  BY <1>8, SetSliceAreaKeeps DEF SliceReassignView, Serving
<1>9. CASE AddNoteTool(w)
  <2> DEFINE new == [db EXCEPT !.connected = TRUE]
  <2>1. Good(db) /\ db \in Database
    BY GoodNow DEF Good
  <2>2. /\ new \in Database /\ new.area = db.area /\ new.slice = db.slice
        /\ new.plan = db.plan /\ new.bite = db.bite
    BY <2>1 DEF Database
  <2>3. Attempt(w, LiveArea(db, request[w].row.area), new)
    BY <1>9 DEF AddNoteTool
  <2> HIDE DEF new
  <2>4. QED
    BY <2>1, <2>2, <2>3, FlagsStored, AttemptKeeps
<1>10. QED
  BY <1>1, <1>2, <1>3, <1>4, <1>5, <1>6, <1>7, <1>8, <1>9,
     TicketPromoteViewKeeps, CreateSliceToolKeeps DEF SliceStep

-----------------------------------------------------------------------------
(* Plans and bites *)

LEMMA CreatePlanKeeps ==
  ASSUME IInv, NEW w \in Worker, NEW actor, CreatePlan(w, actor)
  PROVE  IInv'
<1> DEFINE p == NextKey(Fresh(db.plan))
           s == request[w].id
           row == [state |-> "live", slice |-> s]
           ok == s \in LiveSlices(db) /\ Fresh(db.plan) # {}
<1>0. db \in Database /\ Good(db)
  BY GoodNow DEF Good
<1>1. PICK told \in BOOLEAN :
        Attempt(w, ok, [db EXCEPT !.plan[p] = row,
                                  !.connected = @ \/ (told /\ actor = "agent")])
  BY DEF CreatePlan
<1> DEFINE new == [db EXCEPT !.plan[p] = row, !.connected = @ \/ (told /\ actor = "agent")]
<1>2. ASSUME ok PROVE Good(new)
  <2>1. p \in Plan /\ s \in Slice
    BY <1>0, <1>2 DEF Fresh, NextKey, Database, LiveSlices
  <2>2. row \in PlanRow /\ row.state = "live" /\ row.slice \in LiveSlices(db)
    BY <1>2, <2>1 DEF PlanRow, RowState
  <2> HIDE DEF p, row
  <2>3. /\ new \in Database /\ new.plan = [db.plan EXCEPT ![p] = row]
        /\ new.area = db.area /\ new.slice = db.slice /\ new.bite = db.bite
    BY <1>0, <2>1, <2>2 DEF Database
  <2> HIDE DEF new
  <2>4. QED
    BY <1>0, <2>1, <2>2, <2>3, PlanStored
<1>3. QED
  BY <1>1, <1>2, AttemptKeeps

LEMMA UpdatePlanKeeps ==
  ASSUME IInv, NEW w \in Worker, Serving(w, "plan"), NEW actor, UpdatePlan(w, actor)
  PROVE  IInv'
<1> DEFINE p == request[w].id
           row == request[w].row
<1>0. db \in Database /\ Good(db)
  BY GoodNow DEF Good
<1>1. PICK changed \in BOOLEAN, told \in BOOLEAN :
        Attempt(w, changed /\ row.slice \in LiveSlices(db),
                [db EXCEPT !.plan[p] = row, !.connected = @ \/ (told /\ actor = "agent")])
  BY DEF UpdatePlan
<1> DEFINE new == [db EXCEPT !.plan[p] = row, !.connected = @ \/ (told /\ actor = "agent")]
<1>2. p \in Plan /\ row \in PlanRow
  BY DEF IInv, TypeOK, Serving, Request, Idle
<1>3. row.state = "live"
  BY HeldWell DEF LoadedWell, Serving
<1>4. ASSUME row.slice \in LiveSlices(db) PROVE Good(new)
  <2> HIDE DEF p, row
  <2>1. /\ new \in Database /\ new.plan = [db.plan EXCEPT ![p] = row]
        /\ new.area = db.area /\ new.slice = db.slice /\ new.bite = db.bite
    BY <1>0, <1>2 DEF Database
  <2> HIDE DEF new
  <2>2. QED
    BY <1>0, <1>2, <1>3, <1>4, <2>1, PlanStored
<1>5. QED
  BY <1>1, <1>4, AttemptKeeps

LEMMA PlanStepKeeps ==
  ASSUME IInv, NEW w \in Worker, PlanStep(w)
  PROVE  IInv'
<1>1. DeletePlan(w) => IInv'
  BY GoodNow, WithoutPlansStored, AttemptKeeps DEF DeletePlan
<1>2. QED
  BY <1>1, CreatePlanKeeps, UpdatePlanKeeps
  DEF PlanStep, PlanCreateView, CreatePlanTool, PlanEditView, UpdatePlanTool, PlanDeleteView

LEMMA AddBitesKeeps ==
  ASSUME IInv, NEW w \in Worker, NEW statuses, NEW actor, AddBites(w, statuses, actor)
  PROVE  IInv'
<1> DEFINE p == request[w].id
<1>0. db \in Database /\ Good(db)
  BY GoodNow DEF Good
<1>1. PICK n \in 0..Len(statuses) :
        /\ \A i \in 1..n : statuses[i] \in BiteStatuses
        /\ LET pk == NextKeys(Fresh(db.bite), n) IN
            Attempt(w, n > 0 /\ p \in LivePlans(db),
                 [db EXCEPT !.bite = [b \in Bite |->
                      IF \E i \in 1..n : pk[i] = b
                      THEN [state |-> "live", plan |-> p,
                            status |-> statuses[CHOOSE i \in 1..n : pk[i] = b]]
                      ELSE db.bite[b]],
                  !.connected = Heard(actor)])
  BY DEF AddBites
<1> DEFINE pk == NextKeys(Fresh(db.bite), n)
           added(b) == \E i \in 1..n : pk[i] = b
           row(b) == [state |-> "live", plan |-> p,
                      status |-> statuses[CHOOSE i \in 1..n : pk[i] = b]]
           rows == [b \in Bite |-> IF added(b) THEN row(b) ELSE db.bite[b]]
           new == [db EXCEPT !.bite = rows, !.connected = Heard(actor)]
<1>2. Attempt(w, n > 0 /\ p \in LivePlans(db), new)
  BY <1>1
<1>3. ASSUME p \in LivePlans(db) PROVE Good(new)
  <2>1. p \in Plan
    BY <1>3 DEF LivePlans
  <2>2. ASSUME NEW b \in Bite, added(b) PROVE row(b) \in BiteRow
    <3>1. (CHOOSE i \in 1..n : pk[i] = b) \in 1..n
      BY <2>2
    <3>2. statuses[CHOOSE i \in 1..n : pk[i] = b] \in BiteStatuses
      BY <1>1, <3>1
    <3>3. QED
      BY <2>1, <3>2 DEF BiteRow, RowState
  <2>3. \A b \in Bite : added(b) => row(b).plan = p
    OBVIOUS
  <2> HIDE DEF added, row, p
  <2>4. rows \in [Bite -> BiteRow]
    BY <1>0, <2>2 DEF Database
  <2>5. \A b \in Bite : rows[b] = db.bite[b] \/ rows[b].plan \in LivePlans(db)
    BY <1>3, <2>3
  <2> HIDE DEF rows
  <2>6. /\ new \in Database /\ new.bite = rows
        /\ new.area = db.area /\ new.slice = db.slice /\ new.plan = db.plan
    BY <1>0, <2>4 DEF Database, Heard
  <2> HIDE DEF new
  <2>7. QED
    BY <1>0, <2>5, <2>6, BitesStored
<1>4. QED
  BY <1>2, <1>3, AttemptKeeps

\* The bite in a worker's memory.
LEMMA HeldBite ==
  ASSUME IInv, NEW w \in Worker, Serving(w, "bite")
  PROVE  request[w].id \in Bite /\ request[w].row \in BiteRow
  BY DEF IInv, TypeOK, Serving, Request, Idle

LEMMA UpdateBiteKeeps ==
  ASSUME IInv, NEW w \in Worker, Serving(w, "bite"), NEW status, NEW actor,
         UpdateBite(w, status, actor)
  PROVE  IInv'
<1> DEFINE b == request[w].id
           old == request[w].row
           row == [old EXCEPT !.status = IF status = "keep" THEN @ ELSE status]
           told == status \notin {"keep", old.status}
           ok == status \in BiteStatuses \cup {"keep"} /\ old.plan \in LivePlans(db)
           new == [db EXCEPT !.bite[b] = row, !.connected = @ \/ (told /\ actor = "agent")]
<1>0. db \in Database /\ Good(db)
  BY GoodNow DEF Good
<1>1. b \in Bite /\ old \in BiteRow
  BY HeldBite
<1>2. Attempt(w, ok, new)
  BY DEF UpdateBite
<1>3. ASSUME ok PROVE Good(new)
  <2>1. row \in BiteRow /\ row.plan \in LivePlans(db)
    BY <1>1, <1>3 DEF BiteRow
  <2> HIDE DEF b, row, told
  <2>2. /\ new \in Database /\ new.bite = [db.bite EXCEPT ![b] = row]
        /\ new.area = db.area /\ new.slice = db.slice /\ new.plan = db.plan
    BY <1>0, <1>1, <2>1 DEF Database
  <2> HIDE DEF new
  <2>3. \A x \in Bite : new.bite[x] = db.bite[x] \/ new.bite[x].plan \in LivePlans(db)
    BY <1>0, <2>1, <2>2 DEF Database
  <2>4. QED
    BY <1>0, <2>2, <2>3, BitesStored
<1>4. QED
  BY <1>2, <1>3, AttemptKeeps

LEMMA SetBiteStatusKeeps ==
  ASSUME IInv, NEW w \in Worker, Serving(w, "bite"), NEW status \in BiteStatuses,
         SetBiteStatus(w, status)
  PROVE  IInv'
<1> DEFINE b == request[w].id
           row == [db.bite[b] EXCEPT !.status = status]
           new == [db EXCEPT !.bite[b].status = status]
<1>0. db \in Database /\ Good(db)
  BY GoodNow DEF Good
<1>1. Attempt(w, b \in LiveBites(db), new)
  BY DEF SetBiteStatus
<1>2. ASSUME b \in LiveBites(db) PROVE Good(new)
  <2>1. b \in Bite /\ db.bite[b] \in BiteRow /\ db.bite[b].plan \in LivePlans(db)
    BY <1>0, <1>2 DEF LiveBites, Database, Good, NoOrphansIn
  <2>2. row \in BiteRow /\ row.plan \in LivePlans(db)
    BY <2>1 DEF BiteRow
  <2> HIDE DEF b
  <2>3. /\ new \in Database /\ new.bite = [db.bite EXCEPT ![b] = row]
        /\ new.area = db.area /\ new.slice = db.slice /\ new.plan = db.plan
    BY <1>0, <2>1, <2>2 DEF Database
  <2> HIDE DEF new, row
  <2>4. \A x \in Bite : new.bite[x] = db.bite[x] \/ new.bite[x].plan \in LivePlans(db)
    BY <1>0, <2>1, <2>2, <2>3 DEF Database
  <2>5. QED
    BY <1>0, <2>3, <2>4, BitesStored
<1>3. QED
  BY <1>1, <1>2, AttemptKeeps

LEMMA DeleteBiteKeeps ==
  ASSUME IInv, NEW w \in Worker, Serving(w, "bite"), DeleteBite(w)
  PROVE  IInv'
<1> DEFINE b == request[w].id
           told == [db EXCEPT !.announced = @ \cup {b}]
<1>0. db \in Database /\ Good(db)
  BY GoodNow DEF Good
<1>1. b \in Bite
  BY HeldBite
<1>2. PICK failed \in BOOLEAN :
        Attempt(w, request[w].row.plan \in LivePlans(db),
                IF failed THEN told ELSE WithoutBites(told, {b} \cap LiveBites(db)))
  BY DEF DeleteBite
<1>3. /\ told \in Database /\ told.area = db.area /\ told.slice = db.slice
      /\ told.plan = db.plan /\ told.bite = db.bite
  BY <1>0, <1>1 DEF Database
<1> HIDE DEF told
<1>4. Good(told)
  BY <1>0, <1>3, FlagsStored
<1>5. \A gone : Good(WithoutBites(told, gone))
  BY <1>4, WithoutBitesStored
<1>6. QED
  BY <1>2, <1>4, <1>5, AttemptKeeps

LEMMA BiteStepKeeps ==
  ASSUME IInv, NEW w \in Worker, BiteStep(w)
  PROVE  IInv'
<1>1. CASE BiteToggleView(w)
  <2>1. \E status \in BiteStatuses : SetBiteStatus(w, status)
    BY <1>1 DEF BiteToggleView, BiteStatuses
  <2>2. QED
    BY <1>1, <2>1, SetBiteStatusKeeps DEF BiteToggleView
<1>2. QED
  BY <1>1, AddBitesKeeps, UpdateBiteKeeps, DeleteBiteKeeps
  DEF BiteStep, BiteCreateView, AddBitesTool, BiteBodyView, BiteEditView, UpdateBiteTool,
      BiteDeleteView

-----------------------------------------------------------------------------
(* Pages *)

LEMMA StutterKeeps == IInv /\ UNCHANGED vars => IInv'
<1> SUFFICES ASSUME IInv, UNCHANGED vars PROVE IInv'
  OBVIOUS
<1>1. UNCHANGED <<db, request, served, overlapped, checklist>>
  BY DEF vars
<1>2. QED
  BY <1>1 DEF IInv, TypeOK, NoOrphans, CompletedAgrees, RowsLive

LEMMA PageStepKeeps ==
  ASSUME IInv, NEW w \in Worker, PageStep(w)
  PROVE  IInv'
<1>0. db \in Database /\ Good(db)
  BY GoodNow DEF Good
<1>1. CASE PageWithoutChecklist(w)
  BY <1>1, StutterKeeps DEF PageWithoutChecklist
<1>2. CASE LoadPage(w)
  <2>1. LoadedWell([kind |-> "page", id |-> None, row |-> None])
    BY DEF LoadedWell, Request, SliceKinds
  <2>2. served' \in 0..MaxRequests
    BY <1>2 DEF LoadPage, IInv, TypeOK
  <2>3. QED
    BY <1>2, <2>1, <2>2, TakeKeeps DEF LoadPage
<1>3. CASE RenderPage(w)
  <2> DEFINE new == [db EXCEPT !.completed = @ \/ OnboardingDone(db)]
  <2>1. /\ new \in Database /\ new.area = db.area /\ new.slice = db.slice
        /\ new.plan = db.plan /\ new.bite = db.bite
    BY <1>0 DEF Database
  <2>2. db' = new /\ request' = [request EXCEPT ![w] = Idle]
    BY <1>3 DEF RenderPage
  <2> HIDE DEF new
  <2>3. Good(db')
    BY <1>0, <2>1, <2>2, FlagsStored
  <2>4. /\ served' \in 0..MaxRequests /\ overlapped' \in BOOLEAN
        /\ checklist' \in {"unseen", "gone", "returned"}
    BY <1>3 DEF RenderPage, IInv, TypeOK
  <2>5. QED
    BY <2>2, <2>3, <2>4, IdleWell, StepKeeps
<1>4. CASE DismissOnboarding(w)
  <2> DEFINE new == [db EXCEPT !.dismissed = TRUE]
  <2>1. /\ new \in Database /\ new.area = db.area /\ new.slice = db.slice
        /\ new.plan = db.plan /\ new.bite = db.bite
    BY <1>0 DEF Database
  <2>2. db' = new /\ request' = [request EXCEPT ![w] = request[w]]
    BY <1>4 DEF DismissOnboarding, IInv, TypeOK
  <2> HIDE DEF new
  <2>3. Good(db')
    BY <1>0, <2>1, <2>2, FlagsStored
  <2>4. /\ served' \in 0..MaxRequests /\ overlapped' \in BOOLEAN
        /\ checklist' \in {"unseen", "gone", "returned"}
    BY <1>4 DEF DismissOnboarding, IInv, TypeOK
  <2>5. QED
    BY <2>2, <2>3, <2>4, HeldWell, StepKeeps
<1>5. QED
  BY <1>1, <1>2, <1>3, <1>4 DEF PageStep

-----------------------------------------------------------------------------
(* Theorems *)

LEMMA InitKeeps == Init => IInv
<1> SUFFICES ASSUME Init PROVE IInv
  OBVIOUS
<1>1. db \in Database /\ NoOrphansIn(db) /\ \A s \in Slice : CompletedIn(db.slice[s])
  BY SeedAssumption DEF Init
<1>2. /\ request \in [Worker -> Request]
      /\ \A w \in Worker : request[w].kind = "idle"
  BY DEF Init, Request, Idle
<1>a. served \in 0..MaxRequests
  BY BoundAssumption DEF Init
<1>3. TypeOK
  BY <1>1, <1>2, <1>a DEF TypeOK, Init
<1>4. QED
  BY <1>1, <1>2, <1>3 DEF IInv, NoOrphans, CompletedAgrees, RowsLive

LEMMA NextKeeps == IInv /\ [Next]_vars => IInv'
  BY LoadKeeps, AreaStepKeeps, SliceStepKeeps, PlanStepKeeps, BiteStepKeeps, PageStepKeeps,
     StutterKeeps DEF Next

LEMMA Invariant == Spec => []IInv
  BY InitKeeps, NextKeeps, PTL DEF Spec

\* Whatever the handlers and tools save, however stale, fits the schema.
THEOREM TypeCorrect == Spec => []TypeOK
<1>1. IInv => TypeOK
  BY DEF IInv
<1>2. QED
  BY <1>1, Invariant, PTL

\* Any number of requests interleave with deletions, and no slice, plan or bite
\* is left without what it belongs to, although full-row saves insert again
\* what was deleted.
THEOREM NothingIsOrphaned == Spec => []NoOrphans
<1>1. IInv => NoOrphans
  BY DEF IInv
<1>2. QED
  BY <1>1, Invariant, PTL

\* Status and completed_at never part, whichever service saves which columns of
\* a row however old.
THEOREM CompletionIsTimestamped == Spec => []CompletedAgrees
<1>1. IInv => CompletedAgrees
  BY DEF IInv
<1>2. QED
  BY <1>1, Invariant, PTL

\* A status button and the toggle write what they were asked to and nothing
\* else, whatever was in memory: however old that row is, no other request's
\* edit is taken back.
THEOREM StatusSavesOnlyStatus == Spec => StatusSaveKeepsTheRest
<1> DEFINE Rest == \A w \in Worker :
          /\ SliceStatusView(w) \/ SliceMoveView(w) =>
                 \A s \in Slice : /\ db'.slice[s].area = db.slice[s].area
                                  /\ db'.slice[s].spec = db.slice[s].spec
                                  /\ db'.slice[s].state = db.slice[s].state
          /\ BiteToggleView(w) => LiveBites(db') = LiveBites(db)
<1>1. IInv /\ [Next]_vars => [Rest]_vars
  <2> SUFFICES ASSUME IInv, NEW w \in Worker
               PROVE  /\ SliceStatusView(w) \/ SliceMoveView(w) =>
                            \A s \in Slice : /\ db'.slice[s].area = db.slice[s].area
                                             /\ db'.slice[s].spec = db.slice[s].spec
                                             /\ db'.slice[s].state = db.slice[s].state
                      /\ BiteToggleView(w) => LiveBites(db') = LiveBites(db)
    OBVIOUS
  <2>0. db \in Database
    BY GoodNow DEF Good
  <2>1. ASSUME SliceStatusView(w) \/ SliceMoveView(w), NEW s \in Slice
        PROVE  /\ db'.slice[s].area = db.slice[s].area
               /\ db'.slice[s].spec = db.slice[s].spec
               /\ db'.slice[s].state = db.slice[s].state
    <3>1. CASE Attempt(w, TRUE, db)
      BY <3>1 DEF Attempt
    <3>2. CASE \E status : SetSliceStatus(w, status)
      <4>1. PICK status : SetSliceStatus(w, status)
        BY <3>2
      <4> DEFINE row == WithStatus(db.slice[request[w].id], status)
                 new == [db EXCEPT !.slice[request[w].id] = WithStatus(@, status),
                                   !.reported[request[w].id] =
                                       IF status # request[w].row.status THEN status ELSE @]
      <4>2. db' = db \/ db' = new
        BY <4>1 DEF SetSliceStatus, Attempt
      <4>3. new.slice = [db.slice EXCEPT ![request[w].id] = row]
        BY <2>0 DEF Database
      <4>4. request[w].id = s => /\ row.area = db.slice[s].area /\ row.spec = db.slice[s].spec
                                 /\ row.state = db.slice[s].state
        BY <2>0 DEF WithStatus, Database, SliceRow
      <4> HIDE DEF new, row
      <4>5. QED
        BY <2>0, <4>2, <4>3, <4>4 DEF Database
    <3>3. QED
      BY <2>1, <3>1, <3>2 DEF SliceStatusView, SliceMoveView
  <2>2. ASSUME BiteToggleView(w)
        PROVE  LiveBites(db') = LiveBites(db)
    <3>1. PICK status : SetBiteStatus(w, status)
      BY <2>2 DEF BiteToggleView
    <3> DEFINE b == request[w].id
               row == [db.bite[b] EXCEPT !.status = status]
               new == [db EXCEPT !.bite[b].status = status]
    <3>2. db' = db \/ db' = new
      BY <3>1 DEF SetBiteStatus, Attempt
    <3>3. new.bite = [db.bite EXCEPT ![b] = row]
      BY <2>0 DEF Database
    <3>4. b \in Bite => row.state = db.bite[b].state
      BY <2>0 DEF Database, BiteRow
    <3> HIDE DEF new, row, b
    <3>5. QED
      BY <2>0, <3>2, <3>3, <3>4 DEF Database, LiveBites
  <2>3. QED
    BY <2>1, <2>2
<1>2. QED
  BY <1>1, Invariant, PTL DEF Spec, StatusSaveKeepsTheRest
=============================================================================
