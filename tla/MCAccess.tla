------------------------------ MODULE MCAccess ------------------------------
(* Values for the constants of Access: three databases to start from. *)
EXTENDS Access, TLC

CONSTANTS w1, w2, e1, e2, i1, i2, c1, c2, o1, o2, g1, g2, t1, t2, t3, t4, k1

\* A new installation.
NewSite ==
    [user |-> [e \in Email |-> "absent"], social |-> [i \in Identity |-> NoSocial],
     pending |-> {}, client |-> {}, code |-> [g \in Code |-> NoCode],
     access |-> [t \in Token |-> NoAccess], refresh |-> {}, key |-> [k \in Key |-> "absent"]]

\* An app connected to both orgs, one of its tokens expired.
ConnectedSite ==
    [NewSite EXCEPT
        !.user = (e1 :> "password") @@ (e2 :> "passwordless"),
        !.social[i2] = [user |-> e2, verified |-> FALSE],
        !.client = {c1},
        !.code = [g \in Code |-> [state |-> "deleted", client |-> c1,
                                  org |-> IF g = g1 THEN o1 ELSE o2, expired |-> FALSE]],
        !.access[t1] = [state |-> "live", client |-> c1, org |-> o1, expired |-> TRUE,
                        grant |-> g1],
        !.access[t2] = [state |-> "live", client |-> c1, org |-> o2, expired |-> FALSE,
                        grant |-> g2],
        !.refresh = {t1, t2},
        !.key[k1] = "live"]

\* A user who is about to connect an app.
SignedUpSite ==
    [NewSite EXCEPT !.user[e1] = "password", !.client = {c1}]

MCSeeds == {NewSite, ConnectedSite, SignedUpSite}
MCWorkers == Permutations(Worker)
=============================================================================
