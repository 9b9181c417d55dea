-------------------------- MODULE SerialDeliveryProof --------------------------
(***************************************************************************)
(* Theorems about Delivery.  A service is faithful when it brings nothing  *)
(* back, tells the log what it does and keeps external keys apart.  Every  *)
(* service is, however requests interleave, if the row it saves is still   *)
(* there as it read it; and while requests do not overlap it always is.    *)
(***************************************************************************)
EXTENDS DeliveryProof, FiniteSetTheorems

\* Nothing stale is saved: a step that goes by what was read finds it so, or fails.
NothingStale == \A w \in Worker :
    Saves(w) => Holds(request[w]) \/ UNCHANGED <<db, checklist>>

Lone == \A w \in Worker : request[w].kind # "idle" =>
            /\ Holds(request[w])
            /\ \A v \in Worker \ {w} : request[v].kind = "idle"

AreasTold(d) == \A a \in Area : d.area[a] = "deleted" => a \in d.announced

Faithful(d, new) == InOrder(new) /\ NothingReturns(d, new)

FlagsKept(d, new) == (d.completed => new.completed) /\ (d.dismissed => new.dismissed)

\* However requests interleave, areas that go are announced and the checklist is
\* gone for a reason that is stored.
Ordered ==
    /\ AreasTold(db)
    /\ checklist # "unseen" => db.completed \/ db.dismissed
    /\ ~overlapped => Lone

OInv == IInv /\ Ordered

\* What every step does, and what it does while all is well.
Moves == Ordered' /\ (overlapped => overlapped')

Keeps == Moves /\ (Calm => StaysCalm)

\* What a step does that goes by what its request read.
KeepsHolding(w) == Moves /\ (Calm /\ Holds(request[w]) => StaysCalm)

Stepped(w) == Keeps \/ (Saves(w) /\ KeepsHolding(w))

-----------------------------------------------------------------------------
(* The shapes of a step *)

LEMMA HoldsIdle == Holds(Idle)
  BY DEF Holds, Idle

LEMMA RequestAfter ==
  ASSUME IInv, NEW w \in Worker, NEW r, request' = [request EXCEPT ![w] = r]
  PROVE  /\ request'[w] = r
         /\ \A v \in Worker \ {w} : request'[v] = request[v]
  BY DEF IInv, TypeOK

\* A request takes up work, or a page, in a database it leaves alone.
LEMMA TakeOrdered ==
  ASSUME OInv, NEW w \in Worker, NEW loaded, Holds(loaded), Take(w, loaded)
  PROVE  Keeps
<1>1. /\ request[w].kind = "idle" /\ request' = [request EXCEPT ![w] = loaded]
      /\ overlapped' = (overlapped \/ \E v \in Worker \ {w} : request[v].kind # "idle")
      /\ db' = db /\ checklist' = checklist
  BY DEF Take
<1>2. request'[w] = loaded /\ \A v \in Worker \ {w} : request'[v] = request[v]
  BY <1>1, RequestAfter DEF OInv
<1>3. ASSUME ~overlapped'
      PROVE  Lone'
  <2>1. \A v \in Worker \ {w} : request'[v].kind = "idle"
    BY <1>1, <1>2, <1>3
  <2>2. Holds(request[w])'
    BY <1>1, <1>2 DEF Holds
  <2>3. QED
    BY <2>1, <2>2 DEF Lone
<1>4. QED
  BY <1>1, <1>3 DEF OInv, Ordered, Keeps, Moves, StaysCalm, Calm, NothingReturns

\* What a request has next does not make it overlap.
LEMMA LoneAfter ==
  ASSUME OInv, NEW w \in Worker, request[w].kind # "idle", NEW loaded,
         request' = [request EXCEPT ![w] = loaded], ~overlapped, Holds(loaded)'
  PROVE  Lone'
<1>1. request'[w] = loaded /\ \A v \in Worker \ {w} : request'[v] = request[v]
  BY RequestAfter DEF OInv
<1>2. \A v \in Worker \ {w} : request'[v].kind = "idle"
  BY <1>1 DEF OInv, Ordered, Lone
<1>3. Holds(request[w])'
  BY <1>1 DEF Holds
<1>4. QED
  BY <1>2, <1>3 DEF Lone

\* A request goes on to its next query.
LEMMA ContinueOrdered ==
  ASSUME OInv, NEW w \in Worker, NEW loaded, request[w].kind # "idle",
         ~overlapped => Holds(loaded),
         request' = [request EXCEPT ![w] = loaded], UNCHANGED <<db, overlapped, checklist>>
  PROVE  Keeps
<1>1. ~overlapped => Lone'
  <2>1. ~overlapped => Holds(loaded)'
    BY DEF Holds
  <2>2. QED
    BY <2>1, LoneAfter
<1>2. QED
  BY <1>1 DEF OInv, Ordered, Keeps, Moves, StaysCalm, Calm, NothingReturns

\* A request writes and ends, or goes on.
LEMMA WriteMoves ==
  ASSUME OInv, NEW w \in Worker, request[w].kind # "idle", NEW loaded,
         request' = [request EXCEPT ![w] = loaded],
         UNCHANGED <<overlapped, checklist>>,
         AreasTold(db'), FlagsKept(db, db'), Holds(loaded)'
  PROVE  /\ Moves
         /\ Calm /\ Faithful(db, db') => StaysCalm
<1>1. ~overlapped => Lone'
  BY LoneAfter
<1>2. Moves
  BY <1>1 DEF OInv, Ordered, FlagsKept, Moves
<1>3. QED
  BY <1>2 DEF StaysCalm, Calm, Faithful

LEMMA WriteOrdered ==
  ASSUME OInv, NEW w \in Worker, request[w].kind # "idle", NEW loaded,
         request' = [request EXCEPT ![w] = loaded],
         UNCHANGED <<overlapped, checklist>>,
         AreasTold(db'), FlagsKept(db, db'), Holds(loaded)',
         Calm => Faithful(db, db')
  PROVE  Keeps
  BY WriteMoves DEF Keeps

LEMMA FaithfulStutter == Calm => Faithful(db, db)
  BY DEF Calm, Faithful, NothingReturns

LEMMA AttemptMoves ==
  ASSUME OInv, NEW w \in Worker, request[w].kind # "idle", NEW ok, NEW new,
         ok => AreasTold(new) /\ FlagsKept(db, new),
         Attempt(w, ok, new)
  PROVE  /\ Moves
         /\ Calm /\ (ok => Faithful(db, new)) => StaysCalm
<1>1. /\ db' = (IF ok THEN new ELSE db) /\ request' = [request EXCEPT ![w] = Idle]
      /\ UNCHANGED <<overlapped, checklist>>
  BY DEF Attempt
<1>2. AreasTold(db') /\ FlagsKept(db, db')
  BY <1>1 DEF OInv, Ordered, FlagsKept
<1>3. ASSUME Calm, ok => Faithful(db, new)
      PROVE  Faithful(db, db')
  BY <1>1, <1>3, FaithfulStutter
<1>4. Holds(Idle)'
  BY DEF Holds, Idle
<1>5. Moves /\ (Calm /\ Faithful(db, db') => StaysCalm)
  BY <1>1, <1>2, <1>4, WriteMoves
<1>6. QED
  BY <1>3, <1>5

LEMMA AttemptOrdered ==
  ASSUME OInv, NEW w \in Worker, request[w].kind # "idle", NEW ok, NEW new,
         ok => AreasTold(new) /\ FlagsKept(db, new),
         ok /\ Calm => Faithful(db, new),
         Attempt(w, ok, new)
  PROVE  Keeps
<1>1. Moves /\ (Calm /\ (ok => Faithful(db, new)) => StaysCalm)
  BY AttemptMoves
<1>2. QED
  BY <1>1 DEF Keeps

LEMMA AttemptHolding ==
  ASSUME OInv, NEW w \in Worker, request[w].kind # "idle", NEW ok, NEW new,
         ok => AreasTold(new) /\ FlagsKept(db, new),
         ok /\ Calm /\ Holds(request[w]) => Faithful(db, new),
         Attempt(w, ok, new)
  PROVE  KeepsHolding(w)
<1>1. Moves /\ (Calm /\ (ok => Faithful(db, new)) => StaysCalm)
  BY AttemptMoves
<1>2. QED
  BY <1>1 DEF KeepsHolding

\* A request of a single transaction.
LEMMA AnswerOrdered ==
  ASSUME OInv, NEW w \in Worker, NEW new, AreasTold(new), FlagsKept(db, new),
         Calm => Faithful(db, new), Answer(w, new)
  PROVE  Keeps
<1>1. /\ request[w].kind = "idle" /\ db' = new
      /\ overlapped' = (overlapped \/ \E v \in Worker \ {w} : request[v].kind # "idle")
      /\ UNCHANGED <<request, checklist>>
  BY DEF Answer
<1>2. ~overlapped' => Lone'
  BY <1>1 DEF Lone
<1>3. Moves
  BY <1>1, <1>2 DEF OInv, Ordered, FlagsKept, Moves
<1>4. QED
  BY <1>1, <1>3 DEF Keeps, StaysCalm, Calm, Faithful

-----------------------------------------------------------------------------
(* Faithful changes *)

LEMMA SliceFaithful ==
  ASSUME NEW d \in Database, InOrder(d), NEW new, NEW s \in Slice,
         \A t \in Slice : t # s => /\ new.slice[t] = d.slice[t]
                                  /\ new.reported[t] = d.reported[t],
         new.slice[s].state = "live", d.slice[s].state # "deleted",
         new.reported[s] = new.slice[s].status,
         \A t \in LiveSlices(d) : t # s /\ new.slice[s].key # None
                                    => d.slice[t].key # new.slice[s].key,
         new.plan = d.plan, new.bite = d.bite, new.announced = d.announced
  PROVE  Faithful(d, new)
<1>1. StatusesTold(new)
  BY DEF InOrder, StatusesTold, LiveSlices
<1>2. BitesTold(new)
  BY DEF InOrder, BitesTold, LivePlans
<1>3. KeysApart(new)
  BY DEF InOrder, KeysApart, LiveSlices
<1>4. NothingReturns(d, new)
  BY DEF NothingReturns
<1>5. QED
  BY <1>1, <1>2, <1>3, <1>4 DEF Faithful, InOrder

LEMMA PlanFaithful ==
  ASSUME NEW d \in Database, InOrder(d), NEW new, NEW p \in Plan, NEW row,
         new.plan = [d.plan EXCEPT ![p] = row],
         row.state = "live", d.plan[p].state # "deleted",
         new.slice = d.slice, new.bite = d.bite, new.reported = d.reported,
         new.announced = d.announced
  PROVE  Faithful(d, new)
<1>1. new.plan[p] = row /\ \A q \in Plan : q # p => new.plan[q] = d.plan[q]
  BY DEF Database
<1>2. \A q \in Plan : /\ q \in LivePlans(new) /\ q \notin LivePlans(d) => d.plan[q].state = "absent"
                      /\ d.plan[q].state # "absent" => new.plan[q].state # "absent"
                      /\ d.plan[q].state = "deleted" => new.plan[q].state = "deleted"
  BY <1>1 DEF LivePlans, Database, PlanRow, RowState
<1>3. BitesTold(new)
  BY <1>2 DEF InOrder, BitesTold
<1>4. QED
  BY <1>2, <1>3 DEF InOrder, Faithful, NothingReturns, StatusesTold, KeysApart, LiveSlices

LEMMA BitesFaithful ==
  ASSUME NEW d \in Database, InOrder(d), NEW new,
         \A b \in Bite : \/ new.bite[b] = d.bite[b]
                         \/ d.bite[b].state # "deleted" /\ new.bite[b].state = "live",
         new.slice = d.slice, new.plan = d.plan, new.reported = d.reported,
         new.announced = d.announced
  PROVE  Faithful(d, new)
<1>1. BitesTold(new)
  BY DEF InOrder, BitesTold, LivePlans
<1>2. QED
  BY <1>1 DEF InOrder, Faithful, NothingReturns, StatusesTold, KeysApart, LiveSlices

\* Only what is not a row of the work changes.
LEMMA FlagsFaithful ==
  ASSUME NEW d \in Database, InOrder(d), NEW new,
         new.slice = d.slice, new.plan = d.plan, new.bite = d.bite,
         new.reported = d.reported, d.announced \subseteq new.announced
  PROVE  Faithful(d, new)
  BY DEF InOrder, Faithful, NothingReturns, StatusesTold, BitesTold, KeysApart, LiveSlices,
         LivePlans

-----------------------------------------------------------------------------
(* Deletions *)

\* delete_bite() and what cascades to bites.
LEMMA WithoutBitesParts ==
  ASSUME NEW d \in Database, NEW gone
  PROVE  LET new == WithoutBites(d, gone) IN
         /\ new.area = d.area /\ new.slice = d.slice /\ new.plan = d.plan
         /\ new.reported = d.reported /\ new.announced = d.announced
         /\ new.completed = d.completed /\ new.dismissed = d.dismissed
         /\ \A b \in Bite : /\ new.bite[b].plan = d.bite[b].plan
                            /\ new.bite[b].state = IF b \in gone THEN "deleted"
                                                   ELSE d.bite[b].state
<1> DEFINE rows == [b \in Bite |-> IF b \in gone
                     THEN [NoBite EXCEPT !.state = "deleted", !.plan = d.bite[b].plan]
                     ELSE d.bite[b]]
<1>1. \A b \in Bite : /\ rows[b].plan = d.bite[b].plan
                      /\ rows[b].state = IF b \in gone THEN "deleted" ELSE d.bite[b].state
  BY DEF NoBite
<1> HIDE DEF rows
<1>2. WithoutBites(d, gone) = [d EXCEPT !.bite = rows]
  BY DEF WithoutBites, rows
<1>3. QED
  BY <1>1, <1>2 DEF Database

LEMMA WithoutPlansFields ==
  ASSUME NEW d \in Database, NEW gone, gone \subseteq LivePlans(d)
  PROVE  LET new == WithoutPlans(d, gone) IN
         /\ new.area = d.area /\ new.slice = d.slice
         /\ new.reported = d.reported /\ new.announced = d.announced
         /\ new.completed = d.completed /\ new.dismissed = d.dismissed
         /\ \A p \in Plan : new.plan[p].state = IF p \in gone THEN "deleted"
                                                ELSE d.plan[p].state
         /\ \A b \in Bite :
               /\ new.bite[b].plan = d.bite[b].plan
               /\ new.bite[b].state = IF b \in LiveBites(d) /\ d.bite[b].plan \in gone
                                      THEN "deleted" ELSE d.bite[b].state
<1> DEFINE with == {b \in LiveBites(d) : d.bite[b].plan \in gone}
           rest == WithoutBites(d, with)
           rows == [p \in Plan |-> IF p \in gone
                                   THEN [NoPlan EXCEPT !.state = "deleted"] ELSE d.plan[p]]
           new == WithoutPlans(d, gone)
<1>1. /\ rest.area = d.area /\ rest.slice = d.slice
      /\ rest.reported = d.reported /\ rest.announced = d.announced
      /\ rest.completed = d.completed /\ rest.dismissed = d.dismissed
      /\ \A b \in Bite : /\ rest.bite[b].plan = d.bite[b].plan
                         /\ rest.bite[b].state = IF b \in with THEN "deleted"
                                                 ELSE d.bite[b].state
  BY WithoutBitesParts
<1>2. \A p \in Plan : rows[p].state = IF p \in gone THEN "deleted" ELSE d.plan[p].state
  BY DEF NoPlan
<1>3. new = [rest EXCEPT !.plan = rows]
  BY DEF WithoutPlans
<1>4. rest = [d EXCEPT !.bite = rest.bite]
  BY DEF WithoutBites, Database
<1> HIDE DEF rest, rows, new
<1>5. /\ new.plan = rows /\ new.area = rest.area /\ new.slice = rest.slice
      /\ new.bite = rest.bite
      /\ new.reported = rest.reported /\ new.announced = rest.announced
      /\ new.completed = rest.completed /\ new.dismissed = rest.dismissed
  BY <1>3, <1>4 DEF Database
<1>6. QED
  BY <1>1, <1>2, <1>5 DEF new

\* The bites of a plan that goes need no event of their own.
LEMMA PlansGoneTold ==
  ASSUME NEW d \in Database, BitesTold(d), NEW gone, gone \subseteq LivePlans(d), NEW new,
         new.announced = d.announced,
         \A p \in Plan : new.plan[p].state = IF p \in gone THEN "deleted" ELSE d.plan[p].state,
         \A b \in Bite :
               /\ new.bite[b].plan = d.bite[b].plan
               /\ new.bite[b].state = IF b \in LiveBites(d) /\ d.bite[b].plan \in gone
                                      THEN "deleted" ELSE d.bite[b].state
  PROVE  BitesTold(new)
<1> SUFFICES ASSUME NEW b \in Bite, new.bite[b].state = "deleted"
             PROVE  /\ new.bite[b].plan \in LivePlans(new) => b \in new.announced
                    /\ new.bite[b].plan \in Plan
                    /\ new.plan[new.bite[b].plan].state # "absent"
  BY DEF BitesTold
<1>1. CASE b \in LiveBites(d) /\ d.bite[b].plan \in gone
  BY <1>1 DEF LivePlans
<1>2. CASE d.bite[b].state = "deleted"
  BY <1>2 DEF BitesTold, LivePlans
<1>3. QED
  BY <1>1, <1>2

LEMMA WithoutPlansFaithful ==
  ASSUME NEW d \in Database, InOrder(d), NEW gone, gone \subseteq LivePlans(d)
  PROVE  Faithful(d, WithoutPlans(d, gone))
<1> DEFINE new == WithoutPlans(d, gone)
<1>1. /\ new.slice = d.slice
      /\ new.reported = d.reported /\ new.announced = d.announced
      /\ \A p \in Plan : new.plan[p].state = IF p \in gone THEN "deleted"
                                             ELSE d.plan[p].state
      /\ \A b \in Bite :
            /\ new.bite[b].plan = d.bite[b].plan
            /\ new.bite[b].state = IF b \in LiveBites(d) /\ d.bite[b].plan \in gone
                                   THEN "deleted" ELSE d.bite[b].state
  BY WithoutPlansFields
<1> HIDE DEF new
<1>2. BitesTold(new)
  BY <1>1, PlansGoneTold DEF InOrder
<1>3. Faithful(d, new)
  BY <1>1, <1>2 DEF InOrder, Faithful, NothingReturns, StatusesTold, KeysApart, LiveSlices
<1>4. QED
  BY <1>3 DEF new

LEMMA WithoutAreaFields ==
  ASSUME NEW d \in Database, NEW a \in Area
  PROVE  LET new == WithoutArea(d, a)
             gone == {p \in LivePlans(d) : d.plan[p].slice \in SlicesOf(d, a)}
         IN
         /\ new.area = [d.area EXCEPT ![a] = "deleted"]
         /\ \A s \in Slice : IF s \in SlicesOf(d, a) THEN new.slice[s].state = "deleted"
                                                     ELSE new.slice[s] = d.slice[s]
         /\ new.reported = d.reported /\ new.announced = d.announced
         /\ new.completed = d.completed /\ new.dismissed = d.dismissed
         /\ \A p \in Plan : new.plan[p].state = IF p \in gone THEN "deleted"
                                                ELSE d.plan[p].state
         /\ \A b \in Bite :
               /\ new.bite[b].plan = d.bite[b].plan
               /\ new.bite[b].state = IF b \in LiveBites(d) /\ d.bite[b].plan \in gone
                                      THEN "deleted" ELSE d.bite[b].state
<1> DEFINE gone == {p \in LivePlans(d) : d.plan[p].slice \in SlicesOf(d, a)}
           rest == WithoutPlans(d, gone)
           rows == [s \in Slice |-> IF s \in SlicesOf(d, a)
                                    THEN [NoSlice EXCEPT !.state = "deleted"] ELSE d.slice[s]]
           new == WithoutArea(d, a)
<1>1. /\ rest.area = d.area /\ rest.slice = d.slice
      /\ rest.reported = d.reported /\ rest.announced = d.announced
      /\ rest.completed = d.completed /\ rest.dismissed = d.dismissed
      /\ \A p \in Plan : rest.plan[p].state = IF p \in gone THEN "deleted"
                                              ELSE d.plan[p].state
      /\ \A b \in Bite :
            /\ rest.bite[b].plan = d.bite[b].plan
            /\ rest.bite[b].state = IF b \in LiveBites(d) /\ d.bite[b].plan \in gone
                                    THEN "deleted" ELSE d.bite[b].state
  BY WithoutPlansFields
<1>2. \A s \in Slice : IF s \in SlicesOf(d, a) THEN rows[s].state = "deleted"
                                               ELSE rows[s] = d.slice[s]
  BY DEF NoSlice
<1>3. new = [rest EXCEPT !.area[a] = "deleted", !.slice = rows, !.someday = @ \ SlicesOf(d, a)]
  BY DEF WithoutArea
<1>4. rest = [d EXCEPT !.bite = rest.bite, !.plan = rest.plan]
  BY DEF WithoutPlans, WithoutBites, Database
<1> HIDE DEF rest, rows, new
<1>5. /\ new.area = [rest.area EXCEPT ![a] = "deleted"] /\ new.slice = rows
      /\ new.plan = rest.plan /\ new.bite = rest.bite
      /\ new.reported = rest.reported /\ new.announced = rest.announced
      /\ new.completed = rest.completed /\ new.dismissed = rest.dismissed
  BY <1>3, <1>4 DEF Database
<1>6. QED
  BY <1>1, <1>2, <1>5 DEF new

LEMMA WithoutAreaFaithful ==
  ASSUME NEW d \in Database, InOrder(d), NEW a \in Area
  PROVE  Faithful(d, WithoutArea(d, a))
<1> DEFINE gone == {p \in LivePlans(d) : d.plan[p].slice \in SlicesOf(d, a)}
           new == WithoutArea(d, a)
<1>1. /\ \A s \in Slice : IF s \in SlicesOf(d, a) THEN new.slice[s].state = "deleted"
                                                  ELSE new.slice[s] = d.slice[s]
      /\ new.reported = d.reported /\ new.announced = d.announced
      /\ \A p \in Plan : new.plan[p].state = IF p \in gone THEN "deleted"
                                             ELSE d.plan[p].state
      /\ \A b \in Bite :
            /\ new.bite[b].plan = d.bite[b].plan
            /\ new.bite[b].state = IF b \in LiveBites(d) /\ d.bite[b].plan \in gone
                                   THEN "deleted" ELSE d.bite[b].state
  BY WithoutAreaFields
<1>2. gone \subseteq LivePlans(d)
  OBVIOUS
<1> HIDE DEF new, gone
<1>3. BitesTold(new)
  BY <1>1, <1>2, PlansGoneTold DEF InOrder
<1>4. \A s \in LiveSlices(new) : s \in LiveSlices(d) /\ new.slice[s] = d.slice[s]
  BY <1>1 DEF LiveSlices
<1>5. StatusesTold(new) /\ KeysApart(new)
  BY <1>1, <1>4 DEF InOrder, StatusesTold, KeysApart
<1>6. NothingReturns(d, new)
  BY <1>1 DEF NothingReturns, SlicesOf, LiveSlices
<1>7. Faithful(d, new)
  BY <1>3, <1>5, <1>6 DEF Faithful, InOrder
<1>8. QED
  BY <1>7 DEF new

-----------------------------------------------------------------------------
(* Areas *)

LEMMA Now == OInv => db \in Database /\ Good(db) /\ AreasTold(db)
  BY GoodNow DEF OInv, Ordered, Good

LEMMA CalmNow == Calm => InOrder(db)
  BY DEF Calm

LEMMA SerialHolds ==
  ASSUME OInv, NEW w \in Worker, request[w].kind # "idle"
  PROVE  ~overlapped => Holds(request[w])
  BY DEF OInv, Ordered, Lone

LEMMA CreateAreaOrdered ==
  ASSUME OInv, NEW w \in Worker, NEW actor, CreateArea(w, actor)
  PROVE  Keeps
<1> DEFINE a == NextKey(FreshAreas)
<1>1. PICK told \in BOOLEAN :
          Answer(w, IF FreshAreas = {} THEN db ELSE
                    [db EXCEPT !.area[a] = "live",
                               !.connected = @ \/ (told /\ actor = "agent")])
  BY DEF CreateArea
<1>0. db \in Database /\ AreasTold(db) /\ FlagsKept(db, db)
  BY Now DEF FlagsKept
<1>2. CASE FreshAreas = {}
  BY <1>0, <1>1, <1>2, FaithfulStutter, AnswerOrdered
<1>3. CASE FreshAreas # {}
  <2> DEFINE new == [db EXCEPT !.area[a] = "live",
                               !.connected = @ \/ (told /\ actor = "agent")]
  <2>1. a \in Area
    BY <1>3 DEF FreshAreas, NextKey
  <2>2. Answer(w, new)
    BY <1>1, <1>3
  <2>3. /\ new.area = [db.area EXCEPT ![a] = "live"]
        /\ new.slice = db.slice /\ new.plan = db.plan /\ new.bite = db.bite
        /\ new.reported = db.reported /\ new.announced = db.announced
        /\ new.completed = db.completed /\ new.dismissed = db.dismissed
    BY <1>0 DEF Database
  <2> HIDE DEF new, a
  <2>4. AreasTold(new) /\ FlagsKept(db, new)
    BY <1>0, <2>1, <2>3 DEF AreasTold, FlagsKept, Database
  <2>5. Calm => Faithful(db, new)
    BY <1>0, <2>3, CalmNow, FlagsFaithful
  <2>6. QED
    BY <2>2, <2>4, <2>5, AnswerOrdered
<1>4. QED
  BY <1>2, <1>3

LEMMA DeleteAreaOrdered ==
  ASSUME OInv, NEW w \in Worker, Serving(w, "area"), DeleteArea(w)
  PROVE  Keeps
<1> DEFINE a == request[w].id
           told == [db EXCEPT !.announced = @ \cup {a}]
<1>1. a \in Area /\ request[w].kind # "idle"
  BY HeldArea DEF Serving, OInv
<1>0. db \in Database /\ AreasTold(db)
  BY Now
<1>2. PICK failed \in BOOLEAN :
          Attempt(w, TRUE, IF failed \/ ~LiveArea(db, a) THEN told ELSE WithoutArea(told, a))
  BY DEF DeleteArea
<1>3. /\ told \in Database
      /\ told.area = db.area /\ told.slice = db.slice /\ told.plan = db.plan
      /\ told.bite = db.bite /\ told.reported = db.reported
      /\ told.announced = db.announced \cup {a}
      /\ told.completed = db.completed /\ told.dismissed = db.dismissed
  BY <1>0, <1>1 DEF Database
<1> HIDE DEF told
<1>4. AreasTold(told) /\ FlagsKept(db, told)
  BY <1>0, <1>3 DEF AreasTold, FlagsKept
<1>5. Calm => Faithful(db, told)
  BY <1>0, <1>3, CalmNow, FlagsFaithful
<1> DEFINE new == WithoutArea(told, a)
<1>6. /\ new.area = [told.area EXCEPT ![a] = "deleted"] /\ new.announced = told.announced
      /\ new.completed = told.completed /\ new.dismissed = told.dismissed
  BY <1>1, <1>3, WithoutAreaFields
<1>7. ASSUME Calm
      PROVE  Faithful(told, new)
  BY <1>1, <1>3, <1>5, <1>7, WithoutAreaFaithful DEF Faithful
<1> HIDE DEF new
<1>8. AreasTold(new) /\ FlagsKept(db, new)
  BY <1>0, <1>1, <1>3, <1>4, <1>6 DEF AreasTold, FlagsKept, Database
<1>9. Calm => Faithful(db, new)
  BY <1>5, <1>7 DEF Faithful, NothingReturns
<1>10. QED
  BY <1>1, <1>2, <1>4, <1>5, <1>8, <1>9, AttemptOrdered DEF new

LEMMA AreaStepOrdered ==
  ASSUME OInv, NEW w \in Worker, AreaStep(w)
  PROVE  Keeps
  BY CreateAreaOrdered, DeleteAreaOrdered
  DEF AreaStep, AreaCreateView, CreateAreaTool, AreaDeleteView

-----------------------------------------------------------------------------
(* Loading rows *)

LEMMA LoadOrdered ==
  ASSUME OInv, NEW w \in Worker, Load(w)
  PROVE  Keeps
<1>1. CASE LoadArea(w)
  <2>1. PICK a \in Area : Take(w, [kind |-> "area", id |-> a, row |-> None])
    BY <1>1 DEF LoadArea, Begin
  <2>2. Holds([kind |-> "area", id |-> a, row |-> None])
    BY DEF Holds
  <2>3. QED
    BY <2>1, <2>2, TakeOrdered
<1>2. CASE LoadSlice(w)
  <2>1. PICK s \in LiveSlices(db) : Take(w, [kind |-> "slice", id |-> s, row |-> db.slice[s]])
    BY <1>2 DEF LoadSlice, Begin
  <2>2. Holds([kind |-> "slice", id |-> s, row |-> db.slice[s]])
    BY DEF Holds, LiveSlices
  <2>3. QED
    BY <2>1, <2>2, TakeOrdered
<1>3. CASE LoadPlan(w)
  <2>1. PICK p \in LivePlans(db) : Take(w, [kind |-> "plan", id |-> p, row |-> db.plan[p]])
    BY <1>3 DEF LoadPlan, Begin
  <2>2. Holds([kind |-> "plan", id |-> p, row |-> db.plan[p]])
    BY DEF Holds, LivePlans
  <2>3. QED
    BY <2>1, <2>2, TakeOrdered
<1>4. CASE LoadBite(w)
  <2>1. PICK b \in LiveBites(db) : Take(w, [kind |-> "bite", id |-> b, row |-> db.bite[b]])
    BY <1>4 DEF LoadBite, Begin
  <2>2. Holds([kind |-> "bite", id |-> b, row |-> db.bite[b]])
    BY DEF Holds, LiveBites
  <2>3. QED
    BY <2>1, <2>2, TakeOrdered
<1>5. CASE LoadTags(w)
  <2> DEFINE loaded == [kind |-> "tags", id |-> request[w].id, row |-> request[w].row,
                        someday |-> request[w].id \in db.someday]
  <2>1. /\ request[w].kind = "slice" /\ request' = [request EXCEPT ![w] = loaded]
        /\ UNCHANGED <<db, overlapped, checklist>>
    BY <1>5 DEF LoadTags, Serving
  <2>2. ~overlapped => Holds(loaded)
    BY <2>1, SerialHolds DEF Holds
  <2>3. QED
    BY <2>1, <2>2, ContinueOrdered
<1>6. QED
  BY <1>1, <1>2, <1>3, <1>4, <1>5 DEF Load

-----------------------------------------------------------------------------
(* Slices *)

LEMMA SameAreasTold ==
  ASSUME OInv, NEW new, new.area = db.area, new.announced = db.announced,
         new.completed = db.completed, new.dismissed = db.dismissed
  PROVE  AreasTold(new) /\ FlagsKept(db, new)
  BY Now DEF AreasTold, FlagsKept

\* A new slice takes a key no live slice has.
LEMMA WithSliceFaithful ==
  ASSUME OInv, NEW row \in SliceRow, NEW status, NEW tags \in Tags, NEW actor,
         Insertable(row, status)
  PROVE  LET new == WithSlice(row, status, tags, actor)
             s == NextKey(Fresh(db.slice)) IN
         /\ AreasTold(new) /\ FlagsKept(db, new)
         /\ new.slice[s] = NewRow(row, status) /\ new.slice[s].state = "live"
         /\ Calm /\ (row.key # None => \A t \in LiveSlices(db) : db.slice[t].key # row.key)
               => Faithful(db, new)
<1> DEFINE s == NextKey(Fresh(db.slice))
           new == WithSlice(row, status, tags, actor)
           stored == NewRow(row, status)
<1>0. db \in Database
  BY Now
<1>1. s \in Slice /\ db.slice[s].state = "absent"
  BY <1>0 DEF Insertable, Fresh, NextKey, Database
<1>2. status \in SliceStatuses
  BY DEF Insertable
<1>3. stored \in SliceRow /\ stored.state = "live"
  BY WithSliceGood DEF OInv
<1>4. stored.status = status /\ stored.key = row.key
  BY DEF NewRow, WithStatus, SliceRow
<1>5. new = [db EXCEPT !.slice[s] = stored, !.someday = Retag(s, tags),
                       !.reported[s] = status, !.connected = Heard(actor)]
  BY DEF WithSlice
<1> HIDE DEF new, s, stored
<1>6. /\ new.slice = [db.slice EXCEPT ![s] = stored]
      /\ new.reported = [db.reported EXCEPT ![s] = status]
      /\ new.area = db.area /\ new.plan = db.plan /\ new.bite = db.bite
      /\ new.announced = db.announced
      /\ new.completed = db.completed /\ new.dismissed = db.dismissed
  BY <1>0, <1>5 DEF Database
<1>7. /\ new.slice[s] = stored
      /\ new.reported[s] = status /\ \A t \in Slice \ {s} : new.reported[t] = db.reported[t]
  BY <1>0, <1>1, <1>6 DEF Database
<1>8. AreasTold(new) /\ FlagsKept(db, new)
  BY <1>6, SameAreasTold
<1>9. ASSUME Calm,
             row.key # None => \A t \in LiveSlices(db) : db.slice[t].key # row.key
      PROVE  Faithful(db, new)
  <2>1. InOrder(db)
    BY <1>9, CalmNow
  <2>2. /\ new.slice[s] = stored
        /\ \A t \in Slice : t # s => /\ new.slice[t] = db.slice[t]
                                     /\ new.reported[t] = db.reported[t]
    BY <1>0, <1>1, <1>6, <1>7 DEF Database
  <2>3. /\ new.slice[s].state = "live" /\ db.slice[s].state # "deleted"
        /\ new.reported[s] = new.slice[s].status
    BY <1>1, <1>3, <1>4, <1>7
  <2>4. \A t \in LiveSlices(db) : t # s /\ new.slice[s].key # None
                                 => db.slice[t].key # new.slice[s].key
    BY <1>4, <1>7, <1>9
  <2>5. new.plan = db.plan /\ new.bite = db.bite /\ new.announced = db.announced
    BY <1>6
  <2>6. QED
    BY <1>0, <1>1, <2>1, <2>2, <2>3, <2>4, <2>5, SliceFaithful
<1>10. QED
  BY <1>3, <1>7, <1>8, <1>9 DEF new, s, stored

LEMMA InsertSliceOrdered ==
  ASSUME OInv, NEW w \in Worker, request[w].kind # "idle",
         NEW row \in SliceRow, NEW status, NEW tags \in Tags, NEW actor, row.key = None,
         InsertSlice(w, row, status, tags, actor)
  PROVE  Keeps
<1> DEFINE ok == Insertable(row, status)
           new == WithSlice(row, status, tags, actor)
<1>1. ok => AreasTold(new) /\ FlagsKept(db, new)
  BY WithSliceFaithful
<1>2. ok /\ Calm => Faithful(db, new)
  BY WithSliceFaithful
<1>3. Attempt(w, ok, new)
  BY DEF InsertSlice
<1> HIDE DEF ok, new
<1>4. QED
  BY <1>1, <1>2, <1>3, AttemptOrdered

LEMMA InsertKeyedOrdered ==
  ASSUME OInv, NEW w \in Worker, request[w].kind = "keyed",
         NEW row \in SliceRow, NEW status, NEW tags \in Tags, NEW actor,
         row.key = request[w].row.key, InsertSlice(w, row, status, tags, actor)
  PROVE  KeepsHolding(w)
<1> DEFINE ok == Insertable(row, status)
           new == WithSlice(row, status, tags, actor)
<1>1. ok => AreasTold(new) /\ FlagsKept(db, new)
  BY WithSliceFaithful
<1>2. Holds(request[w]) /\ row.key # None => \A t \in LiveSlices(db) : db.slice[t].key # row.key
  BY DEF Holds
<1>3. ok /\ Calm /\ Holds(request[w]) => Faithful(db, new)
  BY <1>2, WithSliceFaithful
<1>4. Attempt(w, ok, new)
  BY DEF InsertSlice
<1>5. request[w].kind # "idle"
  OBVIOUS
<1> HIDE DEF ok, new
<1>6. QED
  BY <1>1, <1>3, <1>4, <1>5, AttemptHolding

LEMMA UpdateSliceOrdered ==
  ASSUME OInv, NEW w \in Worker, request[w].kind \in {"slice", "tags", "rerun", "promoted"},
         NEW spec, NEW status, NEW tags \in Tags, NEW actor,
         UpdateSlice(w, spec, status, tags, actor)
  PROVE  KeepsHolding(w)
<1> DEFINE s == request[w].id
           old == request[w].row
           edited == [old EXCEPT !.spec = IF spec = "keep" THEN @ ELSE spec = "text"]
           row == IF status = "keep" THEN edited ELSE WithStatus(edited, status)
           told == status \notin {"keep", old.status}
           ok == status \in SliceStatuses \cup {"keep"} /\ LiveArea(db, old.area)
           new == [db EXCEPT !.slice[s] = row, !.someday = Retag(s, tags),
                             !.reported[s] = IF told THEN status ELSE @,
                             !.connected = @ \/ (told /\ actor = "agent")]
<1>0. db \in Database
  BY Now
<1>1. s \in Slice /\ old \in SliceRow /\ old.state = "live"
  BY HeldSlice DEF OInv
<1>2. edited \in SliceRow /\ edited.state = "live" /\ edited.status = old.status
      /\ edited.key = old.key
  BY <1>1 DEF SliceRow
<1>3. Attempt(w, ok, new)
  BY DEF UpdateSlice
<1>4. /\ new.slice = [db.slice EXCEPT ![s] = row]
      /\ new.reported = [db.reported EXCEPT ![s] = IF told THEN status ELSE @]
      /\ new.area = db.area /\ new.plan = db.plan /\ new.bite = db.bite
      /\ new.announced = db.announced
      /\ new.completed = db.completed /\ new.dismissed = db.dismissed
  BY <1>0 DEF Database
<1>5. AreasTold(new) /\ FlagsKept(db, new)
  <2> HIDE DEF new
  <2>1. QED
    BY <1>4, SameAreasTold
<1>6. ASSUME ok, Calm, Holds(request[w])
      PROVE  Faithful(db, new)
  <2>1. db.slice[s].state = "live" /\ db.slice[s].status = old.status
        /\ db.slice[s].key = old.key
    BY <1>6 DEF Holds
  <2>2. status # "keep" => status \in SliceStatuses
    BY <1>6
  <2> HIDE DEF edited
  <2>3. /\ row \in SliceRow /\ row.state = "live" /\ row.key = old.key
        /\ row.status = IF status = "keep" THEN old.status ELSE status
    BY <1>2, <2>2 DEF WithStatus, SliceRow
  <2>4. InOrder(db)
    BY <1>6, CalmNow
  <2>5. s \in LiveSlices(db) /\ db.reported[s] = old.status
    BY <1>1, <2>1, <2>4 DEF InOrder, StatusesTold, LiveSlices
  <2>6. told <=> status # "keep" /\ status # old.status
    OBVIOUS
  <2> HIDE DEF row, told, s, old, new
  <2>7. /\ new.reported[s] = row.status
        /\ \A t \in Slice \ {s} : new.reported[t] = db.reported[t]
    BY <1>0, <1>1, <1>4, <2>3, <2>5, <2>6 DEF Database
  <2>8. \A t \in LiveSlices(db) \ {s} : row.key # None => db.slice[t].key # row.key
    BY <2>1, <2>3, <2>4, <2>5 DEF InOrder, KeysApart
  <2>9. /\ new.slice[s] = row
        /\ \A t \in Slice : t # s => /\ new.slice[t] = db.slice[t]
                                     /\ new.reported[t] = db.reported[t]
    BY <1>0, <1>1, <1>4, <2>7 DEF Database
  <2>10. db.slice[s].state # "deleted"
    BY <2>1
  <2>11. /\ new.slice[s].state = "live" /\ new.reported[s] = new.slice[s].status
         /\ \A t \in LiveSlices(db) : t # s /\ new.slice[s].key # None
                                     => db.slice[t].key # new.slice[s].key
    BY <2>3, <2>7, <2>8, <2>9
  <2>12. new.plan = db.plan /\ new.bite = db.bite /\ new.announced = db.announced
    BY <1>4
  <2>13. QED
    BY <1>0, <1>1, <2>4, <2>9, <2>10, <2>11, <2>12, SliceFaithful
<1> HIDE DEF new, ok
<1>7. QED
  BY <1>3, <1>5, <1>6, AttemptHolding

\* A status other than the one in memory has its event, whatever the table holds.
LEMMA SetSliceStatusOrdered ==
  ASSUME OInv, NEW w \in Worker, request[w].kind \in {"slice", "promoted"}, NEW status,
         SetSliceStatus(w, status)
  PROVE  /\ KeepsHolding(w)
         /\ status # request[w].row.status => Keeps
<1> DEFINE s == request[w].id
           old == request[w].row
           told == status # old.status
           ok == /\ status \in SliceStatuses /\ db.slice[s].state = "live"
                 /\ told => LiveArea(db, old.area)
           row == WithStatus(db.slice[s], status)
           new == [db EXCEPT !.slice[s] = WithStatus(@, status),
                             !.reported[s] = IF told THEN status ELSE @]
<1>0. db \in Database
  BY Now
<1>1. s \in Slice /\ db.slice[s] \in SliceRow
  BY <1>0, HeldSlice DEF OInv, Database
<1>2. Attempt(w, ok, new)
  BY DEF SetSliceStatus
<1>3. /\ new.slice = [db.slice EXCEPT ![s] = row]
      /\ new.reported = [db.reported EXCEPT ![s] = IF told THEN status ELSE @]
      /\ new.area = db.area /\ new.plan = db.plan /\ new.bite = db.bite
      /\ new.announced = db.announced
      /\ new.completed = db.completed /\ new.dismissed = db.dismissed
  BY <1>0 DEF Database
<1>4. AreasTold(new) /\ FlagsKept(db, new)
  <2> HIDE DEF new
  <2>1. QED
    BY <1>3, SameAreasTold
<1>5. ASSUME ok, Calm, told \/ Holds(request[w])
      PROVE  Faithful(db, new)
  <2>1. told \/ db.slice[s].status = old.status
    BY <1>5 DEF Holds
  <2>2. /\ row \in SliceRow /\ row.state = "live" /\ row.key = db.slice[s].key
        /\ row.status = status
    BY <1>1, <1>5 DEF WithStatus, SliceRow
  <2>3. InOrder(db)
    BY <1>5, CalmNow
  <2>4. s \in LiveSlices(db) /\ db.reported[s] = db.slice[s].status
    BY <1>1, <1>5, <2>3 DEF InOrder, StatusesTold, LiveSlices
  <2>5. told <=> status # old.status
    OBVIOUS
  <2>6. db.slice[s].state = "live"
    BY <1>5
  <2> HIDE DEF row, told, s, old, new
  <2>7. /\ new.reported[s] = row.status
        /\ \A t \in Slice \ {s} : new.reported[t] = db.reported[t]
    BY <1>0, <1>1, <1>3, <2>1, <2>2, <2>4, <2>5 DEF Database
  <2>8. \A t \in LiveSlices(db) \ {s} : row.key # None => db.slice[t].key # row.key
    BY <2>2, <2>3, <2>4 DEF InOrder, KeysApart
  <2>9. /\ new.slice[s] = row
        /\ \A t \in Slice : t # s => /\ new.slice[t] = db.slice[t]
                                     /\ new.reported[t] = db.reported[t]
    BY <1>0, <1>1, <1>3, <2>7 DEF Database
  <2>10. /\ new.slice[s].state = "live" /\ new.reported[s] = new.slice[s].status
         /\ \A t \in LiveSlices(db) : t # s /\ new.slice[s].key # None
                                     => db.slice[t].key # new.slice[s].key
    BY <2>2, <2>7, <2>8, <2>9
  <2>11. new.plan = db.plan /\ new.bite = db.bite /\ new.announced = db.announced
    BY <1>3
  <2>12. db.slice[s].state # "deleted"
    BY <2>6
  <2>13. QED
    BY <1>0, <1>1, <2>3, <2>9, <2>10, <2>11, <2>12, SliceFaithful
<1>6. request[w].kind # "idle"
  OBVIOUS
<1>7. told <=> status # request[w].row.status
  OBVIOUS
<1> HIDE DEF new, ok, told
<1>8. KeepsHolding(w)
  BY <1>2, <1>4, <1>5, <1>6, AttemptHolding
<1>9. ASSUME told PROVE Keeps
  BY <1>2, <1>4, <1>5, <1>6, <1>9, AttemptOrdered
<1>10. QED
  BY <1>7, <1>8, <1>9

LEMMA SetSliceAreaOrdered ==
  ASSUME OInv, NEW w \in Worker, request[w].kind = "slice", NEW a \in Area, SetSliceArea(w, a)
  PROVE  Keeps
<1> DEFINE s == request[w].id
           ok == /\ LiveArea(db, request[w].row.area) /\ LiveArea(db, a)
                 /\ db.slice[s].state = "live"
           row == [db.slice[s] EXCEPT !.area = a]
           new == [db EXCEPT !.slice[s].area = a]
<1>0. db \in Database
  BY Now
<1>1. s \in Slice /\ db.slice[s] \in SliceRow
  BY <1>0, HeldSlice DEF OInv, Database
<1>2. Attempt(w, ok, new)
  BY DEF SetSliceArea
<1>3. /\ new.slice = [db.slice EXCEPT ![s] = row]
      /\ new.reported = db.reported
      /\ new.area = db.area /\ new.plan = db.plan /\ new.bite = db.bite
      /\ new.announced = db.announced
      /\ new.completed = db.completed /\ new.dismissed = db.dismissed
  BY <1>0 DEF Database
<1>4. AreasTold(new) /\ FlagsKept(db, new)
  <2> HIDE DEF new
  <2>1. QED
    BY <1>3, SameAreasTold
<1>5. ASSUME ok, Calm
      PROVE  Faithful(db, new)
  <2>1. /\ row \in SliceRow /\ row.state = "live" /\ row.key = db.slice[s].key
        /\ row.status = db.slice[s].status /\ db.slice[s].state = "live"
    BY <1>1, <1>5 DEF SliceRow
  <2>2. InOrder(db)
    BY <1>5, CalmNow
  <2>3. s \in LiveSlices(db) /\ db.reported[s] = row.status
    BY <1>1, <2>1, <2>2 DEF InOrder, StatusesTold, LiveSlices
  <2> HIDE DEF row, s, new
  <2>4. \A t \in LiveSlices(db) \ {s} : row.key # None => db.slice[t].key # row.key
    BY <2>1, <2>2, <2>3 DEF InOrder, KeysApart
  <2>5. /\ new.slice[s] = row /\ new.reported[s] = row.status
        /\ \A t \in Slice : t # s => /\ new.slice[t] = db.slice[t]
                                     /\ new.reported[t] = db.reported[t]
    BY <1>0, <1>1, <1>3, <2>3 DEF Database
  <2>6. /\ new.slice[s].state = "live" /\ new.reported[s] = new.slice[s].status
        /\ \A t \in LiveSlices(db) : t # s /\ new.slice[s].key # None
                                    => db.slice[t].key # new.slice[s].key
    BY <2>1, <2>4, <2>5
  <2>7. new.plan = db.plan /\ new.bite = db.bite /\ new.announced = db.announced
    BY <1>3
  <2>8. db.slice[s].state # "deleted"
    BY <2>1
  <2>9. QED
    BY <1>0, <1>1, <2>2, <2>5, <2>6, <2>7, <2>8, SliceFaithful
<1> HIDE DEF new, ok
<1>6. QED
  BY <1>2, <1>4, <1>5, AttemptOrdered

\* A request that ends with nothing changed.
LEMMA NothingOrdered ==
  ASSUME OInv, NEW w \in Worker, request[w].kind # "idle", NEW ok, Attempt(w, ok, db)
  PROVE  Keeps
<1>1. AreasTold(db) /\ FlagsKept(db, db)
  BY Now DEF FlagsKept
<1>2. QED
  BY <1>1, FaithfulStutter, AttemptOrdered

LEMMA TicketPromoteViewOrdered ==
  ASSUME OInv, NEW w \in Worker, TicketPromoteView(w)
  PROVE  Keeps
<1> DEFINE row == [NoSlice EXCEPT !.area = request[w].id]
           s == NextKey(Fresh(db.slice))
           stored == NewRow(row, "planned")
           new == WithSlice(row, "planned", "keep", "human")
<1>0. request[w].kind = "area" /\ UNCHANGED <<overlapped, checklist>>
  BY DEF TicketPromoteView, Serving
<1>1. row \in SliceRow /\ row.key = None
  BY <1>0, HeldArea, NewSliceTyped DEF OInv, NoSlice
<1>2. ASSUME NEW t \in LiveSlices(db), db' = db,
             request' = [request EXCEPT ![w] =
                            [kind |-> "promoted", id |-> t, row |-> db.slice[t]]]
      PROVE  Keeps
  <2> DEFINE loaded == [kind |-> "promoted", id |-> t, row |-> db.slice[t]]
  <2>1. Holds(loaded)
    BY DEF Holds, LiveSlices
  <2>2. request' = [request EXCEPT ![w] = loaded]
    BY <1>2
  <2> HIDE DEF loaded
  <2>3. QED
    BY <1>0, <1>2, <2>1, <2>2, ContinueOrdered
<1>3. CASE /\ Insertable(row, "planned")
           /\ request' = [request EXCEPT ![w] =
                  [kind |-> "promoted", id |-> s, row |-> stored]]
           /\ db' = new
  <2>1. "keep" \in Tags
    BY DEF Tags
  <2>2. /\ AreasTold(new) /\ FlagsKept(db, new) /\ new.slice[s] = stored
        /\ new.slice[s].state = "live" /\ (Calm => Faithful(db, new))
    <3> HIDE DEF row
    <3>1. QED
      BY <1>1, <1>3, <2>1, WithSliceFaithful
  <2> HIDE DEF new, stored
  <2>3. PICK key : key = s
    OBVIOUS
  <2>4. PICK kept : kept = stored
    OBVIOUS
  <2> DEFINE loaded == [kind |-> "promoted", id |-> key, row |-> kept]
  <2>5. Holds(loaded)'
    BY <1>3, <2>2, <2>3, <2>4 DEF Holds
  <2>6. request' = [request EXCEPT ![w] = loaded]
    BY <1>3, <2>3, <2>4
  <2>7. AreasTold(db') /\ FlagsKept(db, db') /\ (Calm => Faithful(db, db'))
    BY <1>3, <2>2
  <2> HIDE DEF loaded
  <2>8. QED
    BY <1>0, <2>5, <2>6, <2>7, WriteOrdered
<1>4. CASE Attempt(w, FALSE, db)
  BY <1>0, <1>4, NothingOrdered
<1>5. QED
  BY <1>2, <1>3, <1>4 DEF TicketPromoteView

\* The lookup finds the slice of the key, or no live slice has it.
LEMMA CreateSliceToolOrdered ==
  ASSUME OInv, NEW w \in Worker, CreateSliceTool(w)
  PROVE  Keeps
<1>1. PICK key \in Key \cup {None} :
        request' = [request EXCEPT ![w] =
               IF WithKey(key) = {}
               THEN [kind |-> "keyed", id |-> request[w].id,
                     row |-> [NoSlice EXCEPT !.area = request[w].id, !.key = key]]
               ELSE [kind |-> "rerun", id |-> NextKey(WithKey(key)),
                     row |-> db.slice[NextKey(WithKey(key))]]]
  BY DEF CreateSliceTool
<1>2. request[w].kind # "idle" /\ UNCHANGED <<db, overlapped, checklist>>
  BY DEF CreateSliceTool, Serving
<1>3. CASE WithKey(key) = {}
  <2> DEFINE row == [NoSlice EXCEPT !.area = request[w].id, !.key = key]
             loaded == [kind |-> "keyed", id |-> request[w].id, row |-> row]
  <2>1. row.key = key
    BY DEF NoSlice
  <2> HIDE DEF row
  <2>2. Holds(loaded)
    BY <1>3, <2>1 DEF Holds, WithKey
  <2>3. request' = [request EXCEPT ![w] = loaded]
    BY <1>1, <1>3 DEF row
  <2> HIDE DEF loaded
  <2>4. QED
    BY <1>2, <2>2, <2>3, ContinueOrdered
<1>4. CASE WithKey(key) # {}
  <2> DEFINE s == NextKey(WithKey(key))
             loaded == [kind |-> "rerun", id |-> s, row |-> db.slice[s]]
  <2>0. s \in LiveSlices(db)
    BY <1>4 DEF NextKey, WithKey
  <2>1. Holds(loaded)
    BY <2>0 DEF Holds, LiveSlices
  <2>2. request' = [request EXCEPT ![w] = loaded]
    BY <1>1, <1>4
  <2> HIDE DEF loaded
  <2>3. QED
    BY <1>2, <2>1, <2>2, ContinueOrdered
<1>5. QED
  BY <1>3, <1>4

LEMMA AddNoteOrdered ==
  ASSUME OInv, NEW w \in Worker, AddNoteTool(w)
  PROVE  Keeps
<1> DEFINE new == [db EXCEPT !.connected = TRUE]
<1>0. db \in Database
  BY Now
<1>1. /\ new.area = db.area /\ new.slice = db.slice /\ new.plan = db.plan
      /\ new.bite = db.bite /\ new.reported = db.reported /\ new.announced = db.announced
      /\ new.completed = db.completed /\ new.dismissed = db.dismissed
  BY <1>0 DEF Database
<1>2. request[w].kind # "idle" /\ Attempt(w, LiveArea(db, request[w].row.area), new)
  BY DEF AddNoteTool, Serving
<1> HIDE DEF new
<1>3. AreasTold(new) /\ FlagsKept(db, new)
  BY <1>1, SameAreasTold
<1>4. Calm => Faithful(db, new)
  BY <1>0, <1>1, CalmNow, FlagsFaithful
<1>5. QED
  BY <1>2, <1>3, <1>4, AttemptOrdered

LEMMA SliceStepOrdered ==
  ASSUME OInv, NEW w \in Worker, SliceStep(w)
  PROVE  Stepped(w)
<1>1. CASE AreaSliceCreateView(w)
  <2>1. PICK status \in SliceStatuses \cup {"bad"}, spec \in BOOLEAN, tags \in {"keep", "someday"} :
            InsertSlice(w, [NoSlice EXCEPT !.area = request[w].id, !.spec = spec],
                        status, tags, "human")
    BY <1>1 DEF AreaSliceCreateView
  <2> DEFINE row == [NoSlice EXCEPT !.area = request[w].id, !.spec = spec]
  <2>2. row \in SliceRow
    BY <1>1, HeldArea, NewSliceTyped DEF AreaSliceCreateView, Serving, OInv
  <2>3. row.key = None
    BY DEF NoSlice
  <2> HIDE DEF row
  <2>4. request[w].kind # "idle" /\ tags \in Tags
    BY <1>1 DEF AreaSliceCreateView, Serving, Tags
  <2>5. InsertSlice(w, row, status, tags, "human")
    BY <2>1 DEF row
  <2>6. QED
    BY <2>2, <2>3, <2>4, <2>5, InsertSliceOrdered DEF Stepped
<1>2. CASE TicketPromoteStatus(w)
  BY <1>2, NothingOrdered, SetSliceStatusOrdered DEF TicketPromoteStatus, Serving, Stepped
<1>3. CASE PromoteTicketTool(w)
  <2> DEFINE row == [NoSlice EXCEPT !.area = request[w].id]
  <2>1. row \in SliceRow
    BY <1>3, HeldArea, NewSliceTyped DEF PromoteTicketTool, Serving, OInv
  <2>2. row.key = None
    BY DEF NoSlice
  <2>3. InsertSlice(w, row, "planned", "keep", "agent") \/ Attempt(w, TRUE, db)
    BY <1>3 DEF PromoteTicketTool
  <2> HIDE DEF row
  <2>4. request[w].kind # "idle" /\ "keep" \in Tags
    BY <1>3 DEF PromoteTicketTool, Serving, Tags
  <2>5. QED
    BY <2>1, <2>2, <2>3, <2>4, NothingOrdered, InsertSliceOrdered DEF Stepped
<1>4. CASE CreateSliceInsert(w)
  <2>1. PICK status \in SliceStatuses \cup {"bad"}, spec \in BOOLEAN, tags \in {"keep", "someday"} :
            InsertSlice(w, [request[w].row EXCEPT !.spec = spec], status, tags, "agent")
    BY <1>4 DEF CreateSliceInsert
  <2> DEFINE row == [request[w].row EXCEPT !.spec = spec]
  <2>2. request[w].row \in SliceRow /\ request[w].kind = "keyed"
    BY <1>4 DEF OInv, IInv, TypeOK, CreateSliceInsert, Serving, Request, Idle
  <2>3. row \in SliceRow /\ row.key = request[w].row.key
    BY <2>2 DEF SliceRow
  <2>4. InsertSlice(w, row, status, tags, "agent")
    BY <2>1
  <2> HIDE DEF row
  <2>5. request[w].kind = "keyed" /\ tags \in Tags
    BY <2>2 DEF Tags
  <2>6. KeepsHolding(w)
    BY <2>3, <2>4, <2>5, InsertKeyedOrdered
  <2>7. QED
    BY <1>4, <2>6 DEF Stepped, Saves
<1>5. CASE CreateSliceRerun(w) \/ SliceEditView(w) \/ UpdateSliceTool(w)
  <2>1. KeepsHolding(w)
    BY <1>5, UpdateSliceOrdered
    DEF CreateSliceRerun, SliceEditView, UpdateSliceTool, Serving, Tags
  <2>2. QED
    BY <1>5, <2>1 DEF Stepped, Saves
<1>6. CASE SliceTagsView(w)
  <2>1. \E tags \in Tags : UpdateSlice(w, "keep", "keep", tags, "human")
    BY <1>6 DEF SliceTagsView, Tags
  <2>2. KeepsHolding(w)
    BY <1>6, <2>1, UpdateSliceOrdered DEF SliceTagsView, Serving
  <2>3. QED
    BY <1>6, <2>2 DEF Stepped, Saves
<1>7. CASE SliceStatusView(w) \/ SliceMoveView(w)
  <2>1. request[w].kind = "slice"
    BY <1>7 DEF SliceStatusView, SliceMoveView, Serving
  <2>2. Keeps \/ (SetSameStatus(w) /\ KeepsHolding(w))
    BY <1>7, <2>1, NothingOrdered, SetSliceStatusOrdered
    DEF SliceStatusView, SliceMoveView, SetSameStatus, Serving
  <2>3. QED
    BY <2>2 DEF Stepped, Saves
<1>8. CASE SliceReassignView(w)
  BY <1>8, SetSliceAreaOrdered DEF SliceReassignView, Serving, Stepped
<1>9. CASE TicketPromoteView(w) \/ CreateSliceTool(w) \/ AddNoteTool(w)
  BY <1>9, AddNoteOrdered, TicketPromoteViewOrdered, CreateSliceToolOrdered DEF Stepped
<1>10. QED
  BY <1>1, <1>2, <1>3, <1>4, <1>5, <1>6, <1>7, <1>8, <1>9 DEF SliceStep

-----------------------------------------------------------------------------
(* Plans and bites *)

LEMMA CreatePlanOrdered ==
  ASSUME OInv, NEW w \in Worker, request[w].kind # "idle", NEW actor, CreatePlan(w, actor)
  PROVE  Keeps
<1> DEFINE p == NextKey(Fresh(db.plan))
           row == [state |-> "live", slice |-> request[w].id]
           ok == request[w].id \in LiveSlices(db) /\ Fresh(db.plan) # {}
<1>0. db \in Database
  BY Now
<1>1. PICK told \in BOOLEAN :
        Attempt(w, ok, [db EXCEPT !.plan[p] = row,
                                  !.connected = @ \/ (told /\ actor = "agent")])
  BY DEF CreatePlan
<1> DEFINE new == [db EXCEPT !.plan[p] = row, !.connected = @ \/ (told /\ actor = "agent")]
<1>2. row.state = "live"
  OBVIOUS
<1>3. ok => p \in Plan /\ db.plan[p].state = "absent"
  BY <1>0 DEF Fresh, NextKey, Database
<1> HIDE DEF p, row
<1>4. /\ new.plan = [db.plan EXCEPT ![p] = row]
      /\ new.area = db.area /\ new.slice = db.slice /\ new.bite = db.bite
      /\ new.reported = db.reported /\ new.announced = db.announced
      /\ new.completed = db.completed /\ new.dismissed = db.dismissed
  BY <1>0 DEF Database
<1> HIDE DEF new, ok
<1>5. AreasTold(new) /\ FlagsKept(db, new)
  BY <1>4, SameAreasTold
<1>6. ASSUME ok, Calm
      PROVE  Faithful(db, new)
  <2>1. InOrder(db)
    BY <1>6, CalmNow
  <2>2. db.plan[p].state # "deleted"
    BY <1>3, <1>6
  <2>3. QED
    BY <1>0, <1>2, <1>3, <1>4, <1>6, <2>1, <2>2, PlanFaithful
<1>7. Attempt(w, ok, new)
  BY <1>1 DEF new
<1>8. QED
  BY <1>5, <1>6, <1>7, AttemptOrdered

LEMMA UpdatePlanOrdered ==
  ASSUME OInv, NEW w \in Worker, Serving(w, "plan"), NEW actor, UpdatePlan(w, actor)
  PROVE  KeepsHolding(w)
<1> DEFINE p == request[w].id
           row == request[w].row
<1>0. db \in Database
  BY Now
<1>1. PICK changed \in BOOLEAN, told \in BOOLEAN :
        Attempt(w, changed /\ row.slice \in LiveSlices(db),
                [db EXCEPT !.plan[p] = row, !.connected = @ \/ (told /\ actor = "agent")])
  BY DEF UpdatePlan
<1> DEFINE new == [db EXCEPT !.plan[p] = row, !.connected = @ \/ (told /\ actor = "agent")]
<1>2. p \in Plan /\ request[w].kind # "idle"
  BY DEF OInv, IInv, TypeOK, Serving, Request, Idle
<1>3. row.state = "live"
  BY HeldWell DEF LoadedWell, Serving, OInv
<1>4. Holds(request[w]) => db.plan[p].state = "live"
  BY DEF Serving, Holds
<1> HIDE DEF p, row
<1>5. /\ new.plan = [db.plan EXCEPT ![p] = row]
      /\ new.area = db.area /\ new.slice = db.slice /\ new.bite = db.bite
      /\ new.reported = db.reported /\ new.announced = db.announced
      /\ new.completed = db.completed /\ new.dismissed = db.dismissed
  BY <1>0 DEF Database
<1> DEFINE ok == changed /\ row.slice \in LiveSlices(db)
<1>6. Attempt(w, ok, new)
  BY <1>1
<1> HIDE DEF new, ok
<1>7. AreasTold(new) /\ FlagsKept(db, new)
  BY <1>5, SameAreasTold
<1>8. ASSUME Calm, Holds(request[w])
      PROVE  Faithful(db, new)
  <2>1. InOrder(db)
    BY <1>8, CalmNow
  <2>2. db.plan[p].state # "deleted"
    BY <1>4, <1>8
  <2>3. QED
    BY <1>0, <1>2, <1>3, <1>5, <2>1, <2>2, PlanFaithful
<1>9. QED
  BY <1>2, <1>6, <1>7, <1>8, AttemptHolding

LEMMA DeletePlanOrdered ==
  ASSUME OInv, NEW w \in Worker, Serving(w, "plan"), DeletePlan(w)
  PROVE  Keeps
<1> DEFINE ok == request[w].id \in LivePlans(db)
           new == WithoutPlans(db, {request[w].id})
<1>0. db \in Database
  BY Now
<1>1. ASSUME ok PROVE AreasTold(new) /\ FlagsKept(db, new)
  <2>1. {request[w].id} \subseteq LivePlans(db)
    BY <1>1
  <2>2. /\ new.area = db.area /\ new.announced = db.announced
        /\ new.completed = db.completed /\ new.dismissed = db.dismissed
    BY <1>0, <2>1, WithoutPlansFields
  <2> HIDE DEF new
  <2>3. QED
    BY <2>2, SameAreasTold
<1>2. ASSUME ok, Calm PROVE Faithful(db, new)
  BY <1>0, <1>2, CalmNow, WithoutPlansFaithful
<1>3. Attempt(w, ok, new) /\ request[w].kind # "idle"
  BY DEF DeletePlan, Serving
<1> HIDE DEF ok, new
<1>4. QED
  BY <1>1, <1>2, <1>3, AttemptOrdered

LEMMA PlanStepOrdered ==
  ASSUME OInv, NEW w \in Worker, PlanStep(w)
  PROVE  Stepped(w)
<1>1. CASE PlanEditView(w) \/ UpdatePlanTool(w)
  BY <1>1, UpdatePlanOrdered DEF PlanEditView, UpdatePlanTool, Stepped, Saves
<1>2. CASE PlanCreateView(w) \/ CreatePlanTool(w) \/ PlanDeleteView(w)
  BY <1>2, CreatePlanOrdered, DeletePlanOrdered
  DEF PlanCreateView, CreatePlanTool, PlanDeleteView, Serving, Stepped
<1>3. QED
  BY <1>1, <1>2 DEF PlanStep

\* New bites have keys of their own.
LEMMA NextKeysFresh ==
  ASSUME OInv, NEW n \in Nat, n <= Cardinality(Fresh(db.bite))
  PROVE  NextKeys(Fresh(db.bite), n) \in [1..n -> Fresh(db.bite)]
<1> DEFINE fresh == Fresh(db.bite)
           m == Cardinality(fresh)
<1>1. fresh \in SUBSET Bite
  BY Now DEF Fresh, Database
<1>2. IsFiniteSet(fresh)
  BY <1>1, FiniteAssumption, FS_Subset
<1> HIDE DEF fresh
<1>3. m \in Nat /\ ExistsBijection(1..m, fresh)
  BY <1>2, FS_CardinalityType
<1>4. n <= m
  BY DEF fresh
<1> HIDE DEF m
<1>5. PICK f : f \in Bijection(1..m, fresh)
  BY <1>3 DEF ExistsBijection
<1>6. f \in [1..m -> fresh] /\ \A i, j \in 1..m : f[i] = f[j] => i = j
  BY <1>5 DEF Bijection, Injection, IsInjective
<1> DEFINE g == [i \in 1..n |-> f[i]]
<1>7. 1..n \subseteq 1..m
  BY <1>3, <1>4
<1>8. g \in [1..n -> fresh] /\ \A i, j \in 1..n : g[i] = g[j] => i = j
  BY <1>6, <1>7
<1> HIDE DEF g
<1>9. NextKeys(fresh, n) \in [1..n -> fresh]
  BY <1>8 DEF NextKeys
<1>10. QED
  BY <1>9 DEF fresh

LEMMA AddBitesOrdered ==
  ASSUME OInv, NEW w \in Worker, request[w].kind # "idle", NEW statuses, NEW actor,
         AddBites(w, statuses, actor)
  PROVE  Keeps
<1> DEFINE p == request[w].id
<1>0. db \in Database
  BY Now
<1>1. PICK n \in 0..Len(statuses) :
        /\ n <= Cardinality(Fresh(db.bite))
        /\ LET pk == NextKeys(Fresh(db.bite), n) IN
            Attempt(w, n > 0 /\ p \in LivePlans(db),
                 [db EXCEPT !.bite = [b \in Bite |->
                      IF \E i \in 1..n : pk[i] = b
                      THEN [state |-> "live", plan |-> p,
                            status |-> statuses[CHOOSE i \in 1..n : pk[i] = b]]
                      ELSE db.bite[b]],
                  !.connected = Heard(actor)])
  BY DEF AddBites
<1> DEFINE pk == NextKeys(Fresh(db.bite), n)
           added(b) == \E i \in 1..n : pk[i] = b
           row(b) == [state |-> "live", plan |-> p,
                      status |-> statuses[CHOOSE i \in 1..n : pk[i] = b]]
           rows == [b \in Bite |-> IF added(b) THEN row(b) ELSE db.bite[b]]
           new == [db EXCEPT !.bite = rows, !.connected = Heard(actor)]
           ok == n > 0 /\ p \in LivePlans(db)
<1>2. Attempt(w, ok, new)
  BY <1>1
<1>3. n \in Nat
  OBVIOUS
<1>4. pk \in [1..n -> Fresh(db.bite)]
  BY <1>1, <1>3, NextKeysFresh
<1>5. \A b \in Bite : added(b) => db.bite[b].state = "absent"
  <2> HIDE DEF pk
  <2>1. QED
    BY <1>0, <1>4 DEF Fresh, Database
<1>6. \A b \in Bite : row(b).state = "live"
  OBVIOUS
<1> HIDE DEF pk, added, row, p
<1>7. \A b \in Bite : \/ rows[b] = db.bite[b]
                      \/ db.bite[b].state # "deleted" /\ rows[b].state = "live"
  BY <1>5, <1>6
<1> HIDE DEF rows
<1>8. /\ new.bite = rows
      /\ new.area = db.area /\ new.slice = db.slice /\ new.plan = db.plan
      /\ new.reported = db.reported /\ new.announced = db.announced
      /\ new.completed = db.completed /\ new.dismissed = db.dismissed
  BY <1>0 DEF Database
<1> HIDE DEF new, ok
<1>9. AreasTold(new) /\ FlagsKept(db, new)
  BY <1>8, SameAreasTold
<1>10. Calm => Faithful(db, new)
  BY <1>0, <1>7, <1>8, CalmNow, BitesFaithful
<1>11. QED
  BY <1>2, <1>9, <1>10, AttemptOrdered

LEMMA UpdateBiteOrdered ==
  ASSUME OInv, NEW w \in Worker, Serving(w, "bite"), NEW status, NEW actor,
         UpdateBite(w, status, actor)
  PROVE  KeepsHolding(w)
<1> DEFINE b == request[w].id
           old == request[w].row
           row == [old EXCEPT !.status = IF status = "keep" THEN @ ELSE status]
           told == status \notin {"keep", old.status}
           ok == status \in BiteStatuses \cup {"keep"} /\ old.plan \in LivePlans(db)
           new == [db EXCEPT !.bite[b] = row, !.connected = @ \/ (told /\ actor = "agent")]
<1>0. db \in Database
  BY Now
<1>1. b \in Bite /\ old \in BiteRow /\ request[w].kind = "bite" /\ old.state = "live"
  BY HeldBite, HeldWell DEF OInv, LoadedWell, Serving
<1>2. Attempt(w, ok, new)
  BY DEF UpdateBite
<1>3. row.state = "live"
  BY <1>1 DEF BiteRow
<1>4. Holds(request[w]) => db.bite[b].state = "live"
  BY <1>1 DEF Holds
<1> HIDE DEF b, row, told, old
<1>5. /\ new.bite = [db.bite EXCEPT ![b] = row]
      /\ new.area = db.area /\ new.slice = db.slice /\ new.plan = db.plan
      /\ new.reported = db.reported /\ new.announced = db.announced
      /\ new.completed = db.completed /\ new.dismissed = db.dismissed
  BY <1>0 DEF Database
<1> HIDE DEF new, ok
<1>6. AreasTold(new) /\ FlagsKept(db, new)
  BY <1>5, SameAreasTold
<1>7. ASSUME Calm, Holds(request[w])
      PROVE  Faithful(db, new)
  <2>1. \A x \in Bite : \/ new.bite[x] = db.bite[x]
                        \/ db.bite[x].state # "deleted" /\ new.bite[x].state = "live"
    BY <1>0, <1>1, <1>3, <1>4, <1>5, <1>7 DEF Database
  <2>2. QED
    BY <1>0, <1>5, <1>7, <2>1, CalmNow, BitesFaithful
<1>8. QED
  BY <1>1, <1>2, <1>6, <1>7, AttemptHolding

LEMMA SetBiteStatusOrdered ==
  ASSUME OInv, NEW w \in Worker, Serving(w, "bite"), NEW status \in BiteStatuses,
         SetBiteStatus(w, status)
  PROVE  Keeps
<1> DEFINE b == request[w].id
           row == [db.bite[b] EXCEPT !.status = status]
           new == [db EXCEPT !.bite[b].status = status]
           ok == b \in LiveBites(db)
<1>0. db \in Database
  BY Now
<1>1. Attempt(w, ok, new) /\ request[w].kind # "idle"
  BY DEF SetBiteStatus, Serving
<1>2. ok => row.state = "live" /\ db.bite[b].state = "live" /\ b \in Bite
  BY <1>0 DEF LiveBites, Database, BiteRow
<1>3. /\ new.bite = [db.bite EXCEPT ![b] = row]
      /\ new.area = db.area /\ new.slice = db.slice /\ new.plan = db.plan
      /\ new.reported = db.reported /\ new.announced = db.announced
      /\ new.completed = db.completed /\ new.dismissed = db.dismissed
  BY <1>0 DEF Database
<1> HIDE DEF new, ok, row, b
<1>4. AreasTold(new) /\ FlagsKept(db, new)
  BY <1>3, SameAreasTold
<1>5. ASSUME ok, Calm
      PROVE  Faithful(db, new)
  <2>1. \A x \in Bite : \/ new.bite[x] = db.bite[x]
                        \/ db.bite[x].state # "deleted" /\ new.bite[x].state = "live"
    BY <1>0, <1>2, <1>3, <1>5 DEF Database
  <2>2. QED
    BY <1>0, <1>3, <1>5, <2>1, CalmNow, BitesFaithful
<1>6. QED
  BY <1>1, <1>4, <1>5, AttemptOrdered

\* The event of a deletion names the bite before the bite goes.
LEMMA DeleteBiteOrdered ==
  ASSUME OInv, NEW w \in Worker, Serving(w, "bite"), DeleteBite(w)
  PROVE  Keeps
<1> DEFINE b == request[w].id
           gone == {b} \cap LiveBites(db)
           told == [db EXCEPT !.announced = @ \cup {b}]
           new == WithoutBites(told, gone)
           ok == request[w].row.plan \in LivePlans(db)
<1>0. db \in Database /\ NoOrphansIn(db)
  BY Now DEF Good
<1>1. b \in Bite /\ request[w].kind # "idle"
  BY HeldBite DEF OInv, Serving
<1>2. PICK failed \in BOOLEAN :
        Attempt(w, ok, IF failed THEN told ELSE new)
  BY DEF DeleteBite
<1>3. /\ told \in Database
      /\ told.area = db.area /\ told.slice = db.slice /\ told.plan = db.plan
      /\ told.bite = db.bite /\ told.reported = db.reported
      /\ told.announced = db.announced \cup {b}
      /\ told.completed = db.completed /\ told.dismissed = db.dismissed
  BY <1>0, <1>1 DEF Database
<1> HIDE DEF told, b
<1>4. AreasTold(told) /\ FlagsKept(db, told)
  BY Now, <1>3 DEF AreasTold, FlagsKept
<1>5. Calm => Faithful(db, told)
  BY <1>0, <1>3, CalmNow, FlagsFaithful
<1>6. /\ new.area = told.area /\ new.slice = told.slice /\ new.plan = told.plan
      /\ new.reported = told.reported /\ new.announced = told.announced
      /\ new.completed = told.completed /\ new.dismissed = told.dismissed
      /\ \A x \in Bite : /\ new.bite[x].plan = told.bite[x].plan
                         /\ new.bite[x].state = IF x \in gone THEN "deleted"
                                                ELSE told.bite[x].state
  BY <1>3, WithoutBitesParts
<1>7. gone \subseteq {b} /\ gone \subseteq LiveBites(db)
  OBVIOUS
<1> HIDE DEF new, gone
<1>8. AreasTold(new) /\ FlagsKept(db, new)
  BY <1>3, <1>4, <1>6 DEF AreasTold, FlagsKept
<1>9. ASSUME Calm
      PROVE  Faithful(db, new)
  <2>1. InOrder(db)
    BY <1>9, CalmNow
  <2>2. BitesTold(new)
    <3> SUFFICES ASSUME NEW x \in Bite, new.bite[x].state = "deleted"
                 PROVE  /\ new.bite[x].plan \in LivePlans(new) => x \in new.announced
                        /\ new.bite[x].plan \in Plan
                        /\ new.plan[new.bite[x].plan].state # "absent"
      BY DEF BitesTold
    <3>1. CASE x \in gone
      BY <1>0, <1>3, <1>6, <1>7, <3>1 DEF NoOrphansIn, LivePlans
    <3>2. CASE x \notin gone
      <4>1. db.bite[x].state = "deleted" /\ new.bite[x].plan = db.bite[x].plan
            /\ new.plan = db.plan /\ db.announced \subseteq new.announced
        BY <1>3, <1>6, <3>2
      <4>2. QED
        BY <2>1, <4>1 DEF InOrder, BitesTold, LivePlans
    <3>3. QED
      BY <3>1, <3>2
  <2>3. NothingReturns(db, new)
    BY <1>3, <1>6 DEF NothingReturns
  <2>4. StatusesTold(new) /\ KeysApart(new)
    BY <1>3, <1>6, <2>1 DEF InOrder, StatusesTold, KeysApart, LiveSlices
  <2>5. QED
    BY <2>2, <2>3, <2>4 DEF Faithful, InOrder
<1> HIDE DEF ok
<1>10. QED
  BY <1>1, <1>2, <1>4, <1>5, <1>8, <1>9, AttemptOrdered

LEMMA BiteStepOrdered ==
  ASSUME OInv, NEW w \in Worker, BiteStep(w)
  PROVE  Stepped(w)
<1>1. CASE BiteToggleView(w)
  <2>1. \E status \in BiteStatuses : SetBiteStatus(w, status)
    BY <1>1 DEF BiteToggleView, BiteStatuses
  <2>2. QED
    BY <1>1, <2>1, SetBiteStatusOrdered DEF BiteToggleView, Stepped
<1>2. CASE BiteCreateView(w) \/ AddBitesTool(w)
  BY <1>2, AddBitesOrdered DEF BiteCreateView, AddBitesTool, Serving, Stepped
<1>3. CASE BiteBodyView(w) \/ BiteEditView(w) \/ UpdateBiteTool(w)
  BY <1>3, UpdateBiteOrdered DEF BiteBodyView, BiteEditView, UpdateBiteTool, Stepped, Saves
<1>4. CASE BiteDeleteView(w)
  BY <1>4, DeleteBiteOrdered DEF BiteDeleteView, Stepped
<1>5. QED
  BY <1>1, <1>2, <1>3, <1>4 DEF BiteStep

-----------------------------------------------------------------------------
(* Pages *)

LEMMA StutterOrdered == OInv /\ UNCHANGED vars => Keeps
<1> SUFFICES ASSUME OInv, UNCHANGED vars PROVE Keeps
  OBVIOUS
<1>1. UNCHANGED <<db, request, served, overlapped, checklist>>
  BY DEF vars
<1>2. Ordered'
  BY <1>1 DEF OInv, Ordered, Lone, Holds
<1>3. QED
  BY <1>1, <1>2 DEF Keeps, Moves, StaysCalm, Calm, NothingReturns

\* Only a page that found neither flag set shows the checklist: if nobody has set
\* one since, the checklist was not gone.
LEMMA RenderPageOrdered ==
  ASSUME OInv, NEW w \in Worker, RenderPage(w)
  PROVE  KeepsHolding(w)
<1> DEFINE new == [db EXCEPT !.completed = @ \/ OnboardingDone(db)]
<1>0. db \in Database /\ AreasTold(db) /\ request[w].kind = "page"
  BY Now DEF RenderPage, Serving
<1>1. /\ new.area = db.area /\ new.slice = db.slice
      /\ new.plan = db.plan /\ new.bite = db.bite
      /\ new.reported = db.reported /\ new.announced = db.announced
      /\ new.completed = (db.completed \/ OnboardingDone(db)) /\ new.dismissed = db.dismissed
  BY <1>0 DEF Database
<1>2. /\ db' = new /\ request' = [request EXCEPT ![w] = Idle] /\ overlapped' = overlapped
      /\ checklist' = IF OnboardingDone(db) THEN "gone"
                      ELSE IF checklist = "gone" THEN "returned" ELSE checklist
  BY DEF RenderPage
<1> HIDE DEF new
<1>3. AreasTold(db')
  BY <1>0, <1>1, <1>2 DEF AreasTold
<1>4. checklist' # "unseen" => db'.completed \/ db'.dismissed
  BY <1>1, <1>2 DEF OInv, Ordered
<1>5. ~overlapped => Lone'
  <2>1. Holds(Idle)'
    BY DEF Holds, Idle
  <2>2. QED
    BY <1>0, <1>2, <2>1, LoneAfter
<1>6. ASSUME Calm, Holds(request[w])
      PROVE  StaysCalm
  <2>1. checklist = "unseen"
    BY <1>0, <1>6 DEF Holds, OInv, Ordered
  <2>2. checklist' # "returned"
    BY <1>2, <2>1
  <2>3. Faithful(db, new)
    BY <1>0, <1>1, <1>6, CalmNow, FlagsFaithful
  <2>4. QED
    BY <1>2, <2>2, <2>3 DEF StaysCalm, Calm, Faithful
<1>7. QED
  BY <1>2, <1>3, <1>4, <1>5, <1>6 DEF KeepsHolding, Moves, Ordered

LEMMA DismissOrdered ==
  ASSUME OInv, NEW w \in Worker, DismissOnboarding(w)
  PROVE  Keeps
<1> DEFINE new == [db EXCEPT !.dismissed = TRUE]
<1>0. db \in Database /\ AreasTold(db)
  BY Now
<1>1. /\ new.area = db.area /\ new.slice = db.slice
      /\ new.plan = db.plan /\ new.bite = db.bite
      /\ new.reported = db.reported /\ new.announced = db.announced
      /\ new.dismissed
  BY <1>0 DEF Database
<1>2. /\ db' = new /\ request' = request /\ request[w].kind = "idle"
      /\ checklist' = IF checklist = "returned" THEN "returned" ELSE "gone"
      /\ overlapped' = (overlapped \/ \E v \in Worker \ {w} : request[v].kind # "idle")
  BY DEF DismissOnboarding
<1> HIDE DEF new
<1>3. AreasTold(db') /\ db'.dismissed
  BY <1>0, <1>1, <1>2 DEF AreasTold
<1>4. ~overlapped' => Lone'
  BY <1>2 DEF Lone
<1>5. ASSUME Calm
      PROVE  StaysCalm
  <2>1. Faithful(db, new)
    BY <1>0, <1>1, <1>5, CalmNow, FlagsFaithful
  <2>2. checklist' # "returned"
    BY <1>2, <1>5 DEF Calm
  <2>3. QED
    BY <1>2, <2>1, <2>2 DEF StaysCalm, Calm, Faithful
<1>6. QED
  BY <1>2, <1>3, <1>4, <1>5 DEF Keeps, Moves, Ordered

LEMMA PageStepOrdered ==
  ASSUME OInv, NEW w \in Worker, PageStep(w)
  PROVE  Stepped(w)
<1>1. CASE PageWithoutChecklist(w)
  BY <1>1, StutterOrdered DEF PageWithoutChecklist, Stepped
<1>2. CASE LoadPage(w)
  <2>1. Holds([kind |-> "page", id |-> None, row |-> None])
    BY <1>2 DEF Holds, LoadPage
  <2>2. QED
    BY <1>2, <2>1, TakeOrdered DEF LoadPage, Stepped
<1>3. CASE RenderPage(w)
  BY <1>3, RenderPageOrdered DEF Stepped, Saves
<1>4. CASE DismissOnboarding(w)
  BY <1>4, DismissOrdered DEF Stepped
<1>5. QED
  BY <1>1, <1>2, <1>3, <1>4 DEF PageStep

-----------------------------------------------------------------------------
(* Every step *)

LEMMA InitOrdered == Init => OInv /\ Calm /\ ~overlapped
<1> SUFFICES ASSUME Init PROVE OInv /\ Calm /\ ~overlapped
  OBVIOUS
<1>1. \A a \in Area : db.area[a] # "deleted"
  BY SeedAssumption DEF Init
<1>2. \A b \in Bite : db.bite[b].state # "deleted"
  BY SeedAssumption DEF Init
<1>3. StatusesTold(db)
  BY SeedAssumption DEF Init, StatusesTold
<1>4. KeysApart(db)
  BY SeedAssumption DEF Init, KeysApart
<1>5. Lone /\ ~overlapped /\ checklist = "unseen"
  BY DEF Init, Lone, Idle
<1>6. QED
  BY <1>1, <1>2, <1>3, <1>4, <1>5, InitKeeps
  DEF OInv, Ordered, AreasTold, Calm, InOrder, BitesTold

LEMMA StepOrdered ==
  ASSUME OInv, [Next]_vars
  PROVE  Keeps \/ \E w \in Worker : Saves(w) /\ KeepsHolding(w)
<1>1. CASE UNCHANGED vars
  BY <1>1, StutterOrdered
<1>2. CASE Next
  <2>1. PICK w \in Worker : \/ Load(w) \/ AreaStep(w) \/ SliceStep(w)
                            \/ PlanStep(w) \/ BiteStep(w) \/ PageStep(w)
    BY <1>2 DEF Next
  <2>2. Stepped(w)
    BY <2>1, LoadOrdered, AreaStepOrdered, SliceStepOrdered, PlanStepOrdered,
       BiteStepOrdered, PageStepOrdered DEF Stepped
  <2>3. QED
    BY <2>2 DEF Stepped
<1>3. QED
  BY <1>1, <1>2

LEMMA StepMoves == OInv /\ [Next]_vars => Moves
  BY StepOrdered DEF Keeps, KeepsHolding

LEMMA NextOrdered == OInv /\ [Next]_vars => OInv'
  BY StepMoves, NextKeeps DEF OInv, Moves

\* While all is well, a step that saves nothing stale leaves it so.
LEMMA FreshStepCalm == OInv /\ Calm /\ [Next]_vars /\ [NothingStale]_vars => StaysCalm
<1> SUFFICES ASSUME OInv, Calm, [Next]_vars, [NothingStale]_vars PROVE StaysCalm
  OBVIOUS
<1>1. ASSUME UNCHANGED <<db, checklist>>
      PROVE  StaysCalm
  BY <1>1 DEF StaysCalm, Calm, NothingReturns
<1>2. CASE Keeps
  BY <1>2 DEF Keeps
<1>3. CASE \E w \in Worker : Saves(w) /\ KeepsHolding(w)
  <2>1. PICK w \in Worker : Saves(w) /\ KeepsHolding(w)
    BY <1>3
  <2>2. CASE UNCHANGED vars
    BY <1>1, <2>2 DEF vars
  <2>3. CASE NothingStale
    BY <1>1, <2>1, <2>3 DEF NothingStale, KeepsHolding
  <2>4. QED
    BY <2>2, <2>3
<1>4. QED
  BY <1>2, <1>3, StepOrdered

LEMMA SaveServes ==
  ASSUME NEW w \in Worker, Saves(w)
  PROVE  request[w].kind # "idle"
  BY DEF Saves, Serving, CreateSliceInsert, CreateSliceRerun, SliceEditView, UpdateSliceTool,
         SliceTagsView, SetSameStatus, PlanEditView, UpdatePlanTool,
         BiteBodyView, BiteEditView, UpdateBiteTool, RenderPage

\* In order the only request under way holds what the tables hold.
LEMMA SerialStepsAreFresh == OInv /\ ~overlapped => NothingStale
  BY SaveServes, SerialHolds DEF NothingStale

SInv == OInv /\ (~overlapped => Calm)

LEMMA NextSerial ==
  SInv /\ [Next]_vars => SInv' /\ (~overlapped' => NothingReturns(db, db'))
<1> SUFFICES ASSUME SInv, [Next]_vars
             PROVE  SInv' /\ (~overlapped' => NothingReturns(db, db'))
  OBVIOUS
<1>1. OInv' /\ Moves
  BY NextOrdered, StepMoves DEF SInv
<1>2. ~overlapped' => StaysCalm
  BY <1>1, SerialStepsAreFresh, FreshStepCalm DEF SInv, Moves
<1>3. QED
  BY <1>1, <1>2 DEF SInv, StaysCalm

LEMMA SerialInvariant == Spec => []SInv
<1>1. Init => SInv
  BY InitOrdered DEF SInv
<1>2. SInv /\ [Next]_vars => SInv'
  BY NextSerial
<1>3. QED
  BY <1>1, <1>2, PTL DEF Spec

-----------------------------------------------------------------------------
(* Theorems *)

\* However many requests overlap, if no step saves what is stale then the log tells
\* what happened, external keys stay apart, the checklist goes once and no slice,
\* plan or bite comes back: the stale saves are the only way any of it fails, and
\* Saves names the services to guard.
THEOREM FreshSavesAreFaithful ==
  Spec /\ [][NothingStale]_vars => []Calm /\ [][NothingReturns(db, db')]_vars
<1>1. Init => OInv /\ Calm
  BY InitOrdered
<1>2. OInv /\ Calm /\ [Next]_vars /\ [NothingStale]_vars => OInv' /\ Calm'
  BY NextOrdered, FreshStepCalm DEF StaysCalm
<1>3. OInv /\ Calm /\ [Next]_vars /\ [NothingStale]_vars => [NothingReturns(db, db')]_vars
  BY FreshStepCalm DEF StaysCalm
<1>4. QED
  BY <1>1, <1>2, <1>3, PTL DEF Spec

\* The log announces every area that is gone however requests interleave and
\* wherever a deletion stopped.  In order it also announces the bites that were
\* deleted and tells the status of every slice, for every number of rows.
THEOREM LogIsFaithful == Spec => []LogTellsWhatHappened
<1>1. SInv => LogTellsWhatHappened
  BY DEF SInv, OInv, Ordered, AreasTold, Calm, InOrder, StatusesTold, BitesTold,
         LogTellsWhatHappened
<1>2. QED
  BY <1>1, SerialInvariant, PTL

\* In order no agent's re-run makes a second slice of the same key, although
\* nothing but the lookup of create_slice keeps the keys apart.
THEOREM KeysNameOneSlice == Spec => []OneSlicePerKey
<1>1. SInv => OneSlicePerKey
  BY DEF SInv, Calm, InOrder, KeysApart, OneSlicePerKey
<1>2. QED
  BY <1>1, SerialInvariant, PTL

\* In order the checklist goes once: whatever is deleted afterwards, the flag
\* that hid it stays.
THEOREM ChecklistGoesOnce == Spec => []ChecklistNeverReturns
<1>1. SInv => ChecklistNeverReturns
  BY DEF SInv, Calm, ChecklistNeverReturns
<1>2. QED
  BY <1>1, SerialInvariant, PTL

\* With any number of rows and of requests that overlap, what goes wrong goes
\* wrong in a stale save.
THEOREM HarmIsStale == Spec => OnlyStaleSavesHarm
<1>1. Init => OInv
  BY InitOrdered
<1>2. OInv /\ [Next]_vars => OInv'
  BY NextOrdered
<1>3. OInv /\ [Next]_vars =>
        [Calm => StaysCalm \/ \E w \in Worker : Saves(w) /\ ~Holds(request[w])]_vars
  BY StepOrdered DEF Keeps, KeepsHolding
<1>4. QED
  BY <1>1, <1>2, <1>3, PTL DEF Spec, OnlyStaleSavesHarm
=============================================================================
