-------------------------- MODULE TicketLifecycle --------------------------
(***************************************************************************)
(* What triage promises about one ticket, without rows, workers or links:  *)
(* the abstract state machine behind core/services/tickets.py.             *)
(*                                                                         *)
(*   open        in the Inbox                                              *)
(*   dismissed   decided against; duplicate: covered elsewhere             *)
(*   origin      promoted: a slice carries its number                      *)
(*   absorbed    folded into a slice that has another number               *)
(*   stranded    promoted, and its slice was deleted with an area          *)
(***************************************************************************)
CONSTANT Ticket

VARIABLE stage

Stages == {"absent", "open", "dismissed", "duplicate", "origin", "absorbed", "stranded"}

Move(t, from, to) == stage[t] = from /\ stage' = [stage EXCEPT ![t] = to]

Capture(t) == Move(t, "absent", "open")
Promote(t) == Move(t, "open", "origin")
Absorb(t) == Move(t, "open", "absorbed")
Release(t) == Move(t, "absorbed", "open")

Resolve(t) == \E resolution \in {"dismissed", "duplicate"} : Move(t, "open", resolution)
Reopen(t) == \E resolution \in {"dismissed", "duplicate"} : Move(t, resolution, "open")

\* Only the loss of their slice ends the promotion of several tickets at once.
Strand(lost) ==
    /\ \A t \in lost : stage[t] \in {"origin", "absorbed"}
    /\ stage' = [t \in Ticket |-> IF t \in lost THEN "stranded" ELSE stage[t]]

Init == stage = [t \in Ticket |-> "absent"]

Next ==
    \/ \E t \in Ticket : \/ Capture(t) \/ Promote(t) \/ Absorb(t)
                         \/ Release(t) \/ Resolve(t) \/ Reopen(t)
    \/ \E lost \in SUBSET Ticket : Strand(lost)

Spec == Init /\ [][Next]_stage
=============================================================================
