------------------------------ MODULE MCTickets ------------------------------
(***************************************************************************)
(* Instances of Tickets for TLC: which operations a surface offers.        *)
(***************************************************************************)
EXTENDS Tickets, TLC

\* The web views of web/views/capture.py; agents can also create with a key.
WebOperations == AllOperations \ {"update"}

\* A double-submitted promotion among captures, slices and area deletions.
PromotionRetries == {"create", "promote", "create_slice", "delete_area"}

\* No action reads the log, so runs whose properties do not either can leave
\* it out of the states they tell apart.
WithoutLog == <<tickets, slices, areas, nextNumber, request>>

Symmetry == Permutations(Ticket) \cup Permutations(Slice) \cup Permutations(Area)
                \cup Permutations(Worker)
=============================================================================
