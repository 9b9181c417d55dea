------------------------------ MODULE Connection ------------------------------
(***************************************************************************)
(* What Access promises of an authorisation and of an API token, seen from *)
(* outside: each has one life.  An authorisation is offered as a code,     *)
(* redeemed once, and then connects an app until it is over; however often *)
(* the tokens behind it are rotated or stamped, what is over stays over.   *)
(***************************************************************************)
CONSTANTS Code, Key

VARIABLES
    grant,   \* grant[g]: how far the authorisation behind code g is
    key      \* key[k]: whether API token k exists

Phase == {"none", "offered", "redeeming", "connected", "over"}
KeyPhase == {"absent", "live", "deleted"}

Init ==
    /\ grant \in [Code -> Phase \ {"redeeming"}]
    /\ key \in [Key -> KeyPhase]

\* The moves of an authorisation.
Forward == {<<"none", "offered">>, <<"offered", "redeeming">>, <<"offered", "over">>,
            <<"redeeming", "connected">>, <<"redeeming", "over">>, <<"connected", "over">>}

\* Disconnecting an app may end several authorisations at once.
Progress ==
    /\ grant' \in [Code -> Phase]
    /\ \A g \in Code : grant'[g] # grant[g] => <<grant[g], grant'[g]>> \in Forward
    /\ UNCHANGED key

CreateKey(k) == key[k] = "absent" /\ key' = [key EXCEPT ![k] = "live"] /\ UNCHANGED grant
RevokeKey(k) == key[k] = "live" /\ key' = [key EXCEPT ![k] = "deleted"] /\ UNCHANGED grant

Next == Progress \/ \E k \in Key : CreateKey(k) \/ RevokeKey(k)

Spec == Init /\ [][Next]_<<grant, key>>
=============================================================================
