----------------------------- MODULE MCDelivery -----------------------------
(* Values for the constants of Delivery and Board: three databases to start from. *)
EXTENDS Board, TLC

CONSTANTS w1, w2, a1, a2, s1, s2, p1, p2, b1, b2, k1

\* A new org.
EmptyOrg ==
    [area |-> [a \in Area |-> "absent"], slice |-> [s \in Slice |-> NoSlice],
     plan |-> [p \in Plan |-> NoPlan], bite |-> [b \in Bite |-> NoBite],
     someday |-> {}, reported |-> [s \in Slice |-> None], announced |-> {},
     connected |-> FALSE, completed |-> FALSE, dismissed |-> FALSE]

\* A slice of a1 that is being built: one bite done, one to do.  An agent
\* is connected, so the checklist is complete.
BuildingOrg ==
    [EmptyOrg EXCEPT
        !.area[a1] = "live",
        !.slice[s1] = [NoSlice EXCEPT !.state = "live", !.area = a1, !.status = "building",
                                      !.spec = TRUE, !.key = k1],
        !.plan[p1] = [state |-> "live", slice |-> s1],
        !.bite = (b1 :> [state |-> "live", plan |-> p1, status |-> "done"])
              @@ (b2 :> [state |-> "live", plan |-> p1, status |-> "todo"]),
        !.reported[s1] = "building", !.connected = TRUE]

\* Work in two areas: one slice planned, one shipped.
BusyOrg ==
    [EmptyOrg EXCEPT
        !.area = [a \in Area |-> "live"],
        !.slice = (s1 :> [NoSlice EXCEPT !.state = "live", !.area = a1, !.spec = TRUE])
               @@ (s2 :> [NoSlice EXCEPT !.state = "live", !.area = a2, !.status = "shipped",
                                         !.completed = TRUE]),
        !.someday = {s2},
        !.reported = (s1 :> "planned") @@ (s2 :> "shipped")]

MCSeeds == {EmptyOrg, BuildingOrg, BusyOrg}
MCWorkers == Permutations(Worker)
=============================================================================
