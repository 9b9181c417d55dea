-------------------------------- MODULE Access --------------------------------
(***************************************************************************)
(* Who may act: accounts (core/services/accounts.py), sign-in through a    *)
(* provider (core/services/social, web/views/social.py), the OAuth server  *)
(* that connects an agent's app to an org (web/views/oauth.py,             *)
(* core/services/oauth.py, oauth_apps.py), API tokens                      *)
(* (core/services/tokens.py) and the resolution of an MCP caller           *)
(* (core/mcp/auth.py).                                                     *)
(*                                                                         *)
(* A statement outside a transaction is a step, and so is a transaction;   *)
(* between two steps other workers run, and the server may fail.  A        *)
(* request that its first query refuses changes nothing and is not a step. *)
(*                                                                         *)
(* Secrets, hashes, redirect URIs and PKCE are abstracted to whether they  *)
(* fit; times to whether a row has expired.  A refresh token is named by   *)
(* the access token it belongs to (a OneToOneField).                       *)
(***************************************************************************)
EXTENDS Naturals, FiniteSets

CONSTANTS
    Worker,             \* the workers serving requests
    Email,              \* addresses; a user is named by theirs (unique)
    Identity,           \* (provider, uid) pairs, each with a browser
    Client, Org,
    Code, Token, Key,   \* rows of codes, access tokens and API tokens
    None,
    RegistrationOpen,   \* settings.REGISTRATION_OPEN
    Seeds,              \* the databases the runs start from
    MaxRequests         \* Bound: requests that may change the tables

App == Client \X Org

UserState == {"absent", "password", "passwordless"}
RowState == {"absent", "live", "deleted"}
NoCode == [state |-> "absent", client |-> None, org |-> None, expired |-> FALSE]
NoAccess == [state |-> "absent", client |-> None, org |-> None, expired |-> FALSE,
             grant |-> None]
CodeRow == {NoCode} \cup [state : {"live", "deleted"}, client : Client, org : Org,
                          expired : BOOLEAN]
AccessRow == {NoAccess} \cup [state : {"live", "deleted"}, client : Client, org : Org,
                              expired : BOOLEAN, grant : Code]
SocialRow == [user : Email \cup {None}, verified : BOOLEAN]

\* The tables.  pending: the browsers whose session holds a sign-in under way;
\* grant (ghost): the code a token goes back to.
Database == [user : [Email -> UserState], social : [Identity -> SocialRow],
             pending : SUBSET Identity, client : SUBSET Client,
             code : [Code -> CodeRow], access : [Token -> AccessRow],
             refresh : SUBSET Token, key : [Key -> RowState]]

NoSocial == [user |-> None, verified |-> FALSE]

LiveTokens(d) == {t \in Token : d.access[t].state = "live"}
AppOf(row) == <<row.client, row.org>>

\* What the foreign keys and the services keep in every database.
PairsIn(d) ==
    /\ d.refresh \subseteq LiveTokens(d)
    /\ \A t, u \in LiveTokens(d) :
           t # u => d.access[t].grant # d.access[u].grant
    /\ \A t \in LiveTokens(d) : d.code[d.access[t].grant].state = "deleted"
SignUpsIn(d) ==
    /\ \A e \in Email : d.user[e] = "passwordless" => \E i \in Identity : d.social[i].user = e
    /\ \A i \in Identity :
           LET s == d.social[i] IN
           s.user # None => /\ d.user[s.user] # "absent"
                            /\ s.verified \/ d.user[s.user] = "passwordless"

ASSUME NoneAssumption ==
    None \notin Email \cup Identity \cup Client \cup Org \cup Code \cup Token \cup Key
ASSUME OptionAssumption == RegistrationOpen \in BOOLEAN
ASSUME BoundAssumption == MaxRequests \in Nat
ASSUME SeedAssumption ==
    \A d \in Seeds : d \in Database /\ PairsIn(d) /\ SignUpsIn(d) /\ d.refresh = LiveTokens(d)

VARIABLES
    db,            \* the tables
    request,       \* request[w]: what worker w has in memory
    served,        \* how many requests that may change the tables have begun
    overlapped,    \* ghost: a request has begun while another one was served
    torn,          \* ghost: tokens whose refresh token could not be stored
    disconnected   \* ghost: apps disconnected and not authorised since

vars == <<db, request, served, overlapped, torn, disconnected>>
ghosts == <<overlapped, torn, disconnected>>

Idle == [kind |-> "idle"]
Request ==
    {Idle} \cup [kind : {"register"}, email : Email]
           \cup [kind : {"identity"}, id : Identity, email : Email \cup {None},
                 verified : BOOLEAN]
           \cup [kind : {"link", "signup"}, id : Identity, email : Email, verified : BOOLEAN]
           \cup [kind : {"issue"}, code : Code]
           \cup [kind : {"pair", "rotate", "call"}, token : Token]
           \cup [kind : {"key"}, key : Key]
           \cup [kind : {"disconnect"}, app : App, tokens : SUBSET Token]

TypeOK ==
    /\ db \in Database
    /\ request \in [Worker -> Request]
    /\ served \in 0..MaxRequests
    /\ overlapped \in BOOLEAN
    /\ torn \subseteq Token
    /\ disconnected \subseteq App

-----------------------------------------------------------------------------
(* Serving a request *)

Busy(w) == request[w] # Idle
Serving(w, kind) == request[w].kind = kind
Overlaps(w) == overlapped \/ \E v \in Worker \ {w} : Busy(v)

\* A request is taken up, having changed the tables to new ...
Take(w, loaded, new) ==
    /\ ~Busy(w)
    /\ db' = new
    /\ request' = [request EXCEPT ![w] = loaded]
    /\ overlapped' = Overlaps(w)
    /\ UNCHANGED torn
Begin(w, loaded, new) ==
    /\ served < MaxRequests
    /\ served' = served + 1
    /\ Take(w, loaded, new)
    /\ UNCHANGED disconnected
\* ... goes on ...
Continue(w, loaded, new) ==
    /\ db' = new
    /\ request' = [request EXCEPT ![w] = loaded]
    /\ UNCHANGED <<served, overlapped>>
\* ... and ends.
End(w, new) == Continue(w, Idle, new)

Fresh(rows) == {x \in DOMAIN rows : rows[x].state = "absent"}
NextKey(fresh) == CHOOSE x \in fresh : TRUE

-----------------------------------------------------------------------------
(* Accounts *)

\* create_account(): no user has the address.  auth_entry() calls it while
\* registration is open, register_invited() for an invited address in any case;
\* who is invited is no business of these tables, so any address may be ...
RegisterLookUp(w) ==
    \E e \in Email : db.user[e] = "absent" /\ Begin(w, [kind |-> "register", email |-> e], db)

\* ... and, if the password will do and the invitation is open still, the user is
\* saved; the address is unique.
RegisterSave(w) ==
    /\ Serving(w, "register")
    /\ \E valid \in BOOLEAN :
           LET e == request[w].email IN
           End(w, IF valid /\ db.user[e] = "absent"
                  THEN [db EXCEPT !.user[e] = "password"] ELSE db)
    /\ UNCHANGED <<torn, disconnected>>

-----------------------------------------------------------------------------
(* Signing in through a provider *)

\* social_begin(): the state and the verifier go into the browser's session.
SocialBegin(w) ==
    /\ \E i \in Identity \ db.pending : Take(w, Idle, [db EXCEPT !.pending = @ \cup {i}])
    /\ UNCHANGED <<served, disconnected>>

\* social_callback(): the sign-in was cancelled, its state differs, or the
\* provider does not answer.
SocialCancelled(w) ==
    /\ \E i \in db.pending : Take(w, Idle, [db EXCEPT !.pending = @ \ {i}])
    /\ UNCHANGED <<served, disconnected>>

\* social_callback(), exchange_and_fetch(): what the provider says of the
\* person today.  The session is written when the request ends, so a second
\* callback may still find the sign-in there.
SocialCallback(w) ==
    \E i \in db.pending, e \in Email \cup {None}, verified \in BOOLEAN :
        Begin(w, [kind |-> "identity", id |-> i, email |-> e, verified |-> verified], db)

SignedIn(w, new) == End(w, [new EXCEPT !.pending = @ \ {request[w].id}])

\* resolve_social_login(): the queries of its transaction.
SocialResolve(w) ==
    /\ Serving(w, "identity")
    /\ LET r == request[w]
           known == db.social[r.id].user # None
           matched == r.email # None /\ db.user[r.email] # "absent"
           new == RegistrationOpen /\ r.email # None
       IN  \/ known /\ SignedIn(w, db)
           \/ ~known /\ matched /\ ~r.verified /\ SignedIn(w, db)
           \/ ~known /\ ~matched /\ ~new /\ SignedIn(w, db)
           \/ ~known /\ matched /\ r.verified /\ Continue(w, [r EXCEPT !.kind = "link"], db)
           \/ ~known /\ ~matched /\ new /\ Continue(w, [r EXCEPT !.kind = "signup"], db)
    /\ UNCHANGED <<torn, disconnected>>

Bound(d, r) == [d EXCEPT !.social[r.id] = [user |-> r.email, verified |-> r.verified]]

\* ... and its INSERTs, committed together.  (provider, uid) and the address
\* are unique; a failure answers 500, and the session is not written.
SocialLink(w) ==
    /\ Serving(w, "link")
    /\ IF db.social[request[w].id].user = None
       THEN SignedIn(w, Bound(db, request[w])) ELSE End(w, db)
    /\ UNCHANGED <<torn, disconnected>>

\* Mutant: without the transaction the user stays.
SocialSignUpUnprotected(w) ==
    /\ Serving(w, "signup")
    /\ LET r == request[w]
           made == [db EXCEPT !.user[r.email] = "passwordless"]
       IN  IF db.user[r.email] # "absent" THEN SignedIn(w, db) \/ End(w, db)
           ELSE IF db.social[r.id].user = None THEN SignedIn(w, Bound(made, r))
           ELSE End(w, made)
    /\ UNCHANGED <<torn, disconnected>>

\* An address taken by now is refused by create_social_account(), whose answer
\* ends the sign-in, or, taken after that, by the INSERT.
SocialSignUp(w) ==
    /\ Serving(w, "signup")
    /\ LET r == request[w]
           free == db.user[r.email] = "absent"
           unlinked == db.social[r.id].user = None
       IN  \/ /\ free /\ unlinked
              /\ SignedIn(w, Bound([db EXCEPT !.user[r.email] = "passwordless"], r))
           \/ ~free /\ SignedIn(w, db)
           \/ ~(free /\ unlinked) /\ End(w, db)
    /\ UNCHANGED <<torn, disconnected>>

-----------------------------------------------------------------------------
(* Connecting an app *)

\* register(), create_client()
RegisterClient(w) ==
    /\ \E c \in Client \ db.client : Take(w, Idle, [db EXCEPT !.client = @ \cup {c}])
    /\ UNCHANGED <<served, disconnected>>

\* create_authorization_code()
NewCode(c, o) == [state |-> "live", client |-> c, org |-> o, expired |-> FALSE]

\* authorize(): a signed-in user allows the app into one of their orgs.
Authorize(w) ==
    /\ \E e \in Email : db.user[e] # "absent"
    /\ Fresh(db.code) # {}
    /\ \E c \in db.client, o \in Org :
        Begin(w, Idle, [db EXCEPT !.code[NextKey(Fresh(db.code))] = NewCode(c, o)])

\* consume_authorization_code(): what it asks of the code it has just deleted.
Accepted(row, client, fits) == client = row.client /\ fits /\ ~row.expired

\* token(), grant authorization_code: the code is deleted "regardless of
\* validity".  fits: the redirect URI and the verifier do; allowed: the token
\* hook says so.
Exchange(w) ==
    \E g \in Code, client \in db.client, fits, allowed \in BOOLEAN :
        LET row == db.code[g] IN
        /\ row.state = "live"
        /\ Begin(w, IF allowed /\ Accepted(row, client, fits)
                    THEN [kind |-> "issue", code |-> g] ELSE Idle,
                 [db EXCEPT !.code[g].state = "deleted"])

\* Mutant: nothing says when the token expires.
GrantedForever(row, g) ==
    [state |-> "live", client |-> row.client, org |-> row.org, expired |-> None, grant |-> g]

Granted(row, g) ==
    [state |-> "live", client |-> row.client, org |-> row.org, expired |-> FALSE, grant |-> g]

\* issue_tokens(): the INSERT of the access token ...
IssueAccess(w) ==
    /\ Serving(w, "issue")
    /\ \E failed \in BOOLEAN :
        LET g == request[w].code
            t == NextKey(Fresh(db.access))
        IN  IF failed \/ Fresh(db.access) = {}
            THEN End(w, db) /\ UNCHANGED <<torn, disconnected>>
            ELSE /\ Continue(w, [kind |-> "pair", token |-> t],
                             [db EXCEPT !.access[t] = Granted(db.code[g], g)])
                 /\ disconnected' = disconnected \ {AppOf(db.code[g])}
                 /\ UNCHANGED torn

\* ... and of its refresh token, which needs it.
IssueRefresh(w) ==
    /\ Serving(w, "pair")
    /\ \E failed \in BOOLEAN :
        LET t == request[w].token IN
        IF failed \/ t \notin LiveTokens(db)
        THEN End(w, db) /\ torn' = torn \cup {t}
        ELSE End(w, [db EXCEPT !.refresh = @ \cup {t}]) /\ UNCHANGED torn
    /\ UNCHANGED disconnected

\* token(), grant refresh_token: the first lookup, and the hook.
PresentRefresh(w) ==
    \E t \in db.refresh : Begin(w, [kind |-> "rotate", token |-> t], db)

\* Deleting access tokens takes their refresh tokens along.
Without(d, tokens) ==
    [d EXCEPT !.access = [t \in Token |-> IF t \in tokens \cap LiveTokens(d)
                          THEN [d.access[t] EXCEPT !.state = "deleted"] ELSE d.access[t]],
              !.refresh = @ \ tokens]

\* Mutant: the row found by the first lookup is not looked up again.
RotateWhatWasFound(w) ==
    /\ Serving(w, "rotate")
    /\ LET t == request[w].token
           u == NextKey(Fresh(db.access))
       IN  IF Fresh(db.access) = {} THEN End(w, db)
           ELSE End(w, [Without(db, {t}) EXCEPT
                            !.access[u] = Granted(db.access[t], db.access[t].grant),
                            !.refresh = @ \cup {u}])
    /\ UNCHANGED <<torn, disconnected>>

\* rotate_refresh_token(): one transaction, on the locked row if it is still
\* there.  (The column revoked is set and the row deleted in one breath.)
Rotate(w) ==
    /\ Serving(w, "rotate")
    /\ \E failed \in BOOLEAN :
        LET t == request[w].token
            u == NextKey(Fresh(db.access))
        IN  IF failed \/ t \notin db.refresh \/ Fresh(db.access) = {} THEN End(w, db)
            ELSE End(w, [Without(db, {t}) EXCEPT
                             !.access[u] = Granted(db.access[t], db.access[t].grant),
                             !.refresh = @ \cup {u}])
    /\ UNCHANGED <<torn, disconnected>>

\* list_connected_apps()
ConnectedApps(o) == {db.access[t].client : t \in {u \in LiveTokens(db) : db.access[u].org = o}}

\* Mutant: only tokens still in force are collected.
CollectInForce(w) ==
    \E o \in Org : \E c \in ConnectedApps(o) :
        Begin(w, [kind |-> "disconnect", app |-> <<c, o>>,
                  tokens |-> {t \in LiveTokens(db) : AppOf(db.access[t]) = <<c, o>>
                                                     /\ ~db.access[t].expired}], db)

\* disconnect_app(): delete() collects the tokens ...
DisconnectCollect(w) ==
    \E o \in Org : \E c \in ConnectedApps(o) :
        Begin(w, [kind |-> "disconnect", app |-> <<c, o>>,
                  tokens |-> {t \in LiveTokens(db) : AppOf(db.access[t]) = <<c, o>>}], db)

\* ... and deletes these in a transaction, with the refresh tokens they have by
\* then.
DisconnectDelete(w) ==
    /\ Serving(w, "disconnect")
    /\ End(w, Without(db, request[w].tokens))
    /\ disconnected' = disconnected \cup {request[w].app}
    /\ UNCHANGED torn

-----------------------------------------------------------------------------
(* API tokens, and the calls of agents *)

\* generate_token(), of the settings page and of the Get-started panel.
CreateKey(w) ==
    \E k \in Key : db.key[k] = "absent" /\ Begin(w, Idle, [db EXCEPT !.key[k] = "live"])

\* revoke_token()
RevokeKey(w) ==
    \E k \in Key : db.key[k] = "live" /\ Begin(w, Idle, [db EXCEPT !.key[k] = "deleted"])

\* resolve_oauth_org(), resolve_oauth_caller(): the access tokens in force.
Resolvable == {t \in LiveTokens(db) : ~db.access[t].expired}

\* require_caller(), require_org(): one of them, or else an API token.
Call(w) ==
    /\ \/ \E t \in Resolvable : Take(w, [kind |-> "call", token |-> t], db)
       \/ \E k \in Key : db.key[k] = "live" /\ Take(w, [kind |-> "key", key |-> k], db)
    /\ UNCHANGED <<served, disconnected>>

\* Mutant: save() without update_fields inserts a row that is gone.
StampSavingAll(w) ==
    /\ \/ /\ Serving(w, "call")
          /\ End(w, [db EXCEPT !.access[request[w].token].state = "live"])
       \/ Serving(w, "key") /\ End(w, [db EXCEPT !.key[request[w].key] = "live"])
    /\ UNCHANGED <<torn, disconnected>>

\* resolve_oauth_caller(), resolve_org(): save(update_fields) stamps
\* last_used_at; it stores nothing and fails when the row is gone.
Stamp(w) ==
    /\ Serving(w, "call") \/ Serving(w, "key")
    /\ End(w, db)
    /\ UNCHANGED <<torn, disconnected>>

\* Time passes.
Expire ==
    /\ \/ \E g \in Code : /\ db.code[g].state = "live" /\ ~db.code[g].expired
                          /\ db' = [db EXCEPT !.code[g].expired = TRUE]
       \/ \E t \in LiveTokens(db) : /\ ~db.access[t].expired
                                    /\ db' = [db EXCEPT !.access[t].expired = TRUE]
    /\ UNCHANGED <<request, served, ghosts>>

-----------------------------------------------------------------------------
Init ==
    /\ db \in Seeds
    /\ request = [w \in Worker |-> Idle]
    /\ served = 0
    /\ overlapped = FALSE
    /\ torn = {}
    /\ disconnected = {}

AccountStep(w) ==
    \/ RegisterLookUp(w) \/ RegisterSave(w)
    \/ SocialBegin(w) \/ SocialCancelled(w) \/ SocialCallback(w)
    \/ SocialResolve(w) \/ SocialLink(w) \/ SocialSignUp(w)

AppStep(w) ==
    \/ RegisterClient(w) \/ Authorize(w) \/ Exchange(w) \/ IssueAccess(w) \/ IssueRefresh(w)
    \/ PresentRefresh(w) \/ Rotate(w) \/ DisconnectCollect(w) \/ DisconnectDelete(w)

AgentStep(w) == CreateKey(w) \/ RevokeKey(w) \/ Call(w) \/ Stamp(w)

Next == Expire \/ \E w \in Worker : AccountStep(w) \/ AppStep(w) \/ AgentStep(w)

Spec == Init /\ [][Next]_vars

-----------------------------------------------------------------------------
(* Properties *)

\* One authorisation is one connection: however its code is retried, rotated
\* and raced, at most one access token goes back to it, the code is gone, and
\* no refresh token outlives its access token (consume_authorization_code,
\* rotate_refresh_token, the cascade).  An access token without its refresh
\* token is one whose request is not over, or failed half way (issue_tokens).
OnePairPerGrant ==
    /\ PairsIn(db)
    /\ \A t \in LiveTokens(db) \ db.refresh :
           t \in torn \/ \E w \in Worker : Serving(w, "pair") /\ request[w].token = t

\* Every account can be entered and every identity leads to one: a user without
\* a password has an identity, also when two callbacks of one person race, and
\* an account with a password is only bound to an identity whose address the
\* provider verified (resolve_social_login).
SignUpIsWhole == SignUpsIn(db)

\* "Revoke every access token (and, by cascade, its refresh token) this client
\* holds": while requests do not overlap, a disconnected app has no token in
\* force until a code is exchanged for it again (disconnect_app).
DisconnectedStaysOut ==
    ~overlapped => \A t \in LiveTokens(db) :
        AppOf(db.access[t]) \in disconnected => db.access[t].expired

\* How far the authorisation behind code g is.
Held(g) == \E t \in LiveTokens(db) : db.access[t].grant = g
Redeemed(g) == \E w \in Worker : request[w] = [kind |-> "issue", code |-> g]
Phase(g) ==
    CASE Held(g) -> "connected"
      [] ~Held(g) /\ db.code[g].state = "live" -> "offered"
      [] ~Held(g) /\ db.code[g].state # "live" /\ Redeemed(g) -> "redeeming"
      [] OTHER -> IF db.code[g].state = "absent" THEN "none" ELSE "over"

Promised == INSTANCE Connection WITH grant <- [g \in Code |-> Phase(g)], key <- db.key

\* What was used up or revoked never comes back: every authorisation and every
\* API token has one life, although calls that found a token stamp it after a
\* disconnect, and rotations delete and insert (consume_authorization_code,
\* issue_tokens, rotate_refresh_token, disconnect_app, resolve_oauth_caller).
ImplementsConnection == Promised!Spec

=============================================================================
