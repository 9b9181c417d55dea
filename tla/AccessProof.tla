----------------------------- MODULE AccessProof -----------------------------
(***************************************************************************)
(* Theorems about Access, for every set of workers, users, apps, codes,    *)
(* tokens and keys, and every bound on the requests.                       *)
(***************************************************************************)
EXTENDS Access, TLAPS

\* A code that is being exchanged is used up and has no token yet, and one
\* worker only exchanges it.
ExchangesSound ==
    /\ \A w \in Worker : Serving(w, "issue") =>
           /\ db.code[request[w].code].state = "deleted"
           /\ \A t \in LiveTokens(db) : db.access[t].grant # request[w].code
    /\ \A v, w \in Worker : v # w /\ Serving(v, "issue") /\ Serving(w, "issue")
                               => request[v].code # request[w].code

\* Whoever is about to be linked to an identity has an account, and the provider
\* vouched for the address.
LinksSound ==
    \A w \in Worker : Serving(w, "link") =>
        request[w].verified /\ db.user[request[w].email] # "absent"

\* As long as no two requests overlap, a disconnection deletes every token the
\* app has, and an app that was disconnected has none.
DisconnectsSound ==
    ~overlapped =>
        /\ \A v, w \in Worker : Busy(v) /\ Busy(w) => v = w
        /\ \A w \in Worker : Serving(w, "disconnect") =>
               \A t \in LiveTokens(db) :
                   AppOf(db.access[t]) = request[w].app => t \in request[w].tokens
        /\ \A t \in LiveTokens(db) : AppOf(db.access[t]) \notin disconnected

IInv ==
    /\ TypeOK
    /\ OnePairPerGrant
    /\ ExchangesSound
    /\ SignUpIsWhole
    /\ LinksSound
    /\ DisconnectsSound

-----------------------------------------------------------------------------
(* Types *)

LEMMA CodeRowKept ==
  ASSUME NEW row \in CodeRow, row.state # "absent"
  PROVE  /\ row.client \in Client /\ row.org \in Org
         /\ [row EXCEPT !.state = "deleted"] \in CodeRow
         /\ [row EXCEPT !.expired = TRUE] \in CodeRow
<1>1. row \in [state : {"live", "deleted"}, client : Client, org : Org, expired : BOOLEAN]
  BY DEF CodeRow, NoCode
<1>2. QED
  BY <1>1 DEF CodeRow

LEMMA AccessRowKept ==
  ASSUME NEW row \in AccessRow, row.state # "absent"
  PROVE  /\ row.client \in Client /\ row.org \in Org /\ row.grant \in Code
         /\ [row EXCEPT !.state = "deleted"] \in AccessRow
         /\ [row EXCEPT !.expired = TRUE] \in AccessRow
<1>1. row \in [state : {"live", "deleted"}, client : Client, org : Org, expired : BOOLEAN,
               grant : Code]
  BY DEF AccessRow, NoAccess
<1>2. QED
  BY <1>1 DEF AccessRow

LEMMA FreshKey ==
  ASSUME NEW rows, Fresh(rows) # {}
  PROVE  NextKey(Fresh(rows)) \in DOMAIN rows /\ rows[NextKey(Fresh(rows))].state = "absent"
  BY DEF Fresh, NextKey

LEMMA InitTyped == Init => TypeOK
<1> SUFFICES ASSUME Init PROVE TypeOK
  OBVIOUS
<1>1. db \in Database
  BY SeedAssumption DEF Init
<1>2. Idle \in Request
  BY DEF Idle, Request
<1>3. 0 \in 0..MaxRequests
  BY BoundAssumption
<1>4. QED
  BY <1>1, <1>2, <1>3 DEF Init, TypeOK

\* A worker takes up, goes on with or ends a request: the rest is the type of
\* what it has in memory then and of the tables.
LEMMA ContinueTyped ==
  ASSUME TypeOK, NEW w \in Worker, NEW loaded \in Request, NEW new \in Database,
         Continue(w, loaded, new), torn' \subseteq Token, disconnected' \subseteq App
  PROVE  TypeOK'
  BY DEF TypeOK, Continue

LEMMA TakeTyped ==
  ASSUME TypeOK, NEW w \in Worker, NEW loaded \in Request, NEW new \in Database,
         Take(w, loaded, new), UNCHANGED <<served, disconnected>>
  PROVE  TypeOK'
  BY DEF TypeOK, Take, Overlaps

LEMMA BeginTyped ==
  ASSUME TypeOK, NEW w \in Worker, NEW loaded \in Request, NEW new \in Database,
         Begin(w, loaded, new)
  PROVE  TypeOK'
  BY BoundAssumption DEF TypeOK, Begin, Take, Overlaps

LEMMA IdleTyped == Idle \in Request
  BY DEF Idle, Request

LEMMA AccountStepTyped ==
  ASSUME TypeOK, NEW w \in Worker, AccountStep(w)
  PROVE  TypeOK'
<1> USE DEF TypeOK
<1>1. CASE RegisterLookUp(w)
  <2>1. PICK e \in Email : Begin(w, [kind |-> "register", email |-> e], db)
    BY <1>1 DEF RegisterLookUp
  <2>2. [kind |-> "register", email |-> e] \in Request
    BY DEF Request
  <2>3. QED
    BY <2>1, <2>2, BeginTyped
<1>2. CASE RegisterSave(w)
  <2>1. request[w].email \in Email
    BY <1>2 DEF RegisterSave, Serving, Request, Idle
  <2>2. [db EXCEPT !.user[request[w].email] = "password"] \in Database
    BY <2>1 DEF Database, UserState
  <2>3. PICK new \in Database : End(w, new)
    BY <1>2, <2>2 DEF RegisterSave
  <2>4. QED
    BY <1>2, <2>3, IdleTyped, ContinueTyped DEF RegisterSave, End
<1>3. CASE SocialBegin(w)
  <2>1. PICK i \in Identity : Take(w, Idle, [db EXCEPT !.pending = @ \cup {i}])
    BY <1>3 DEF SocialBegin
  <2>2. [db EXCEPT !.pending = @ \cup {i}] \in Database
    BY DEF Database
  <2>3. QED
    BY <1>3, <2>1, <2>2, IdleTyped, TakeTyped DEF SocialBegin
<1>4. CASE SocialCancelled(w)
  <2>1. PICK i \in db.pending : Take(w, Idle, [db EXCEPT !.pending = @ \ {i}])
    BY <1>4 DEF SocialCancelled
  <2>2. [db EXCEPT !.pending = @ \ {i}] \in Database
    BY DEF Database
  <2>3. QED
    BY <1>4, <2>1, <2>2, IdleTyped, TakeTyped DEF SocialCancelled
<1>5. CASE SocialCallback(w)
  <2>1. PICK i \in db.pending, e \in Email \cup {None}, verified \in BOOLEAN :
             Begin(w, [kind |-> "identity", id |-> i, email |-> e, verified |-> verified], db)
    BY <1>5 DEF SocialCallback
  <2>2. i \in Identity
    BY DEF Database
  <2>3. [kind |-> "identity", id |-> i, email |-> e, verified |-> verified] \in Request
    BY <2>2 DEF Request
  <2>4. QED
    BY <2>1, <2>3, BeginTyped
<1>6. CASE SocialResolve(w)
  <2> DEFINE r == request[w]
  <2>1. r \in [kind : {"identity"}, id : Identity, email : Email \cup {None}, verified : BOOLEAN]
    BY <1>6 DEF SocialResolve, Serving, Request, Idle
  <2>2. [db EXCEPT !.pending = @ \ {r.id}] \in Database
    BY DEF Database
  <2>3. \/ SignedIn(w, db)
        \/ r.email # None /\ Continue(w, [r EXCEPT !.kind = "link"], db)
        \/ r.email # None /\ Continue(w, [r EXCEPT !.kind = "signup"], db)
    BY <1>6 DEF SocialResolve
  <2>4. r.email # None => /\ [r EXCEPT !.kind = "link"] \in Request
                          /\ [r EXCEPT !.kind = "signup"] \in Request
    BY <2>1 DEF Request
  <2>5. torn' \subseteq Token /\ disconnected' \subseteq App
    BY <1>6 DEF SocialResolve
  <2>6. QED
    BY <2>2, <2>3, <2>4, <2>5, IdleTyped, ContinueTyped DEF SignedIn, End
<1>7. CASE SocialLink(w)
  <2> DEFINE r == request[w]
  <2>1. r.id \in Identity /\ r.email \in Email /\ r.verified \in BOOLEAN
    BY <1>7 DEF SocialLink, Serving, Request, Idle
  <2>2. Bound(db, r) \in Database
    BY <2>1 DEF Bound, Database, SocialRow
  <2>3. [Bound(db, r) EXCEPT !.pending = @ \ {r.id}] \in Database
    BY <2>2 DEF Database
  <2>4. QED
    BY <1>7, <2>3, IdleTyped, ContinueTyped DEF SocialLink, SignedIn, End
<1>8. CASE SocialSignUp(w)
  <2> DEFINE r == request[w]
             made == [db EXCEPT !.user[r.email] = "passwordless"]
  <2>1. r.id \in Identity /\ r.email \in Email /\ r.verified \in BOOLEAN
    BY <1>8 DEF SocialSignUp, Serving, Request, Idle
  <2>2. made \in Database
    BY <2>1 DEF Database, UserState
  <2>3. Bound(made, r) \in Database
    BY <2>1, <2>2 DEF Bound, Database, SocialRow
  <2>4. /\ [Bound(made, r) EXCEPT !.pending = @ \ {r.id}] \in Database
        /\ [db EXCEPT !.pending = @ \ {r.id}] \in Database
    BY <2>3 DEF Database
  <2>5. QED
    BY <1>8, <2>4, IdleTyped, ContinueTyped DEF SocialSignUp, SignedIn, End
<1>9. QED
  BY <1>1, <1>2, <1>3, <1>4, <1>5, <1>6, <1>7, <1>8 DEF AccountStep

LEMMA WithoutTyped ==
  ASSUME NEW d \in Database, NEW tokens
  PROVE  Without(d, tokens) \in Database
<1>1. \A t \in LiveTokens(d) : [d.access[t] EXCEPT !.state = "deleted"] \in AccessRow
  BY AccessRowKept DEF Database, LiveTokens
<1>2. [t \in Token |-> IF t \in tokens \cap LiveTokens(d)
                        THEN [d.access[t] EXCEPT !.state = "deleted"] ELSE d.access[t]]
      \in [Token -> AccessRow]
  BY <1>1 DEF Database
<1>3. QED
  BY <1>2 DEF Without, Database

\* The row of a new access token, issued for a code or rotated.
LEMMA GrantedTyped ==
  ASSUME NEW row, row.client \in Client, row.org \in Org, NEW g \in Code
  PROVE  Granted(row, g) \in AccessRow
  BY DEF Granted, AccessRow

LEMMA NextToken ==
  ASSUME TypeOK, Fresh(db.access) # {}
  PROVE  NextKey(Fresh(db.access)) \in Token /\ NextKey(Fresh(db.access)) \notin LiveTokens(db)
<1>1. DOMAIN db.access = Token
  BY DEF TypeOK, Database
<1>2. QED
  BY <1>1, FreshKey DEF LiveTokens

\* The tables after a rotation.
Rotated(t) ==
    [Without(db, {t}) EXCEPT
        !.access[NextKey(Fresh(db.access))] = Granted(db.access[t], db.access[t].grant),
        !.refresh = @ \cup {NextKey(Fresh(db.access))}]

LEMMA RotatedTyped ==
  ASSUME TypeOK, NEW t \in LiveTokens(db), Fresh(db.access) # {}
  PROVE  Rotated(t) \in Database
<1> DEFINE u == NextKey(Fresh(db.access))
<1>1. u \in Token
  BY NextToken
<1>2. Granted(db.access[t], db.access[t].grant) \in AccessRow
  BY GrantedTyped, AccessRowKept DEF TypeOK, Database, LiveTokens
<1>3. Without(db, {t}) \in Database
  BY WithoutTyped DEF TypeOK
<1>4. QED
  BY <1>1, <1>2, <1>3 DEF Rotated, Database

LEMMA AppStepTyped ==
  ASSUME IInv, NEW w \in Worker, AppStep(w)
  PROVE  TypeOK'
<1>0. TypeOK
  BY DEF IInv
<1> USE <1>0 DEF TypeOK
<1>1. CASE RegisterClient(w)
  <2>1. PICK c \in Client : Take(w, Idle, [db EXCEPT !.client = @ \cup {c}])
    BY <1>1 DEF RegisterClient
  <2>2. [db EXCEPT !.client = @ \cup {c}] \in Database
    BY DEF Database
  <2>3. QED
    BY <1>1, <2>1, <2>2, IdleTyped, TakeTyped DEF RegisterClient
<1>2. CASE Authorize(w)
  <2> DEFINE g == NextKey(Fresh(db.code))
  <2>1. PICK c \in db.client, o \in Org : Begin(w, Idle, [db EXCEPT !.code[g] = NewCode(c, o)])
    BY <1>2 DEF Authorize
  <2>2. NewCode(c, o) \in CodeRow
    BY DEF NewCode, CodeRow, RowState, Database
  <2>3. [db EXCEPT !.code[g] = NewCode(c, o)] \in Database
    BY <2>2 DEF Database
  <2>4. QED
    BY <2>1, <2>3, IdleTyped, BeginTyped
<1>3. CASE Exchange(w)
  <2>1. PICK g \in Code :
             /\ db.code[g].state = "live"
             /\ \E loaded \in {[kind |-> "issue", code |-> g], Idle} :
                    Begin(w, loaded, [db EXCEPT !.code[g].state = "deleted"])
    BY <1>3 DEF Exchange
  <2>2. [kind |-> "issue", code |-> g] \in Request
    BY DEF Request
  <2>3. [db.code[g] EXCEPT !.state = "deleted"] \in CodeRow
    BY <2>1, CodeRowKept DEF Database
  <2>4. [db EXCEPT !.code[g].state = "deleted"] \in Database
    BY <2>3 DEF Database
  <2>5. QED
    BY <2>1, <2>2, <2>4, IdleTyped, BeginTyped
<1>4. CASE IssueAccess(w)
  <2> DEFINE g == request[w].code
             t == NextKey(Fresh(db.access))
             new == [db EXCEPT !.access[t] = Granted(db.code[g], g)]
  <2>1. g \in Code
    BY <1>4 DEF IssueAccess, Serving, Request, Idle
  <2>2. CASE End(w, db) /\ UNCHANGED <<torn, disconnected>>
    BY <2>2, IdleTyped, ContinueTyped DEF End
  <2>3. CASE /\ Fresh(db.access) # {}
             /\ Continue(w, [kind |-> "pair", token |-> t], new)
             /\ disconnected' = disconnected \ {AppOf(db.code[g])}
             /\ UNCHANGED torn
    <3>1. t \in Token
      BY <2>3, NextToken
    <3>2. Granted(db.code[g], g) \in AccessRow
      <4>1. db.code[g].state # "absent" /\ db.code[g] \in CodeRow
        BY <1>4, <2>1 DEF IInv, ExchangesSound, IssueAccess, Database
      <4>2. QED
        BY <2>1, <4>1, GrantedTyped, CodeRowKept
    <3>3. new \in Database
      BY <3>1, <3>2 DEF Database
    <3>4. [kind |-> "pair", token |-> t] \in Request
      BY <3>1 DEF Request
    <3>5. QED
      BY <2>3, <3>3, <3>4, ContinueTyped
  <2>4. QED
    BY <1>4, <2>2, <2>3 DEF IssueAccess
<1>5. CASE IssueRefresh(w)
  <2> DEFINE t == request[w].token
  <2>1. t \in Token
    BY <1>5 DEF IssueRefresh, Serving, Request, Idle
  <2>2. [db EXCEPT !.refresh = @ \cup {t}] \in Database
    BY <2>1 DEF Database
  <2>3. torn' \subseteq Token /\ disconnected' \subseteq App
    BY <1>5, <2>1 DEF IssueRefresh
  <2>4. PICK new \in Database : End(w, new)
    BY <1>5, <2>2 DEF IssueRefresh
  <2>5. QED
    BY <2>3, <2>4, IdleTyped, ContinueTyped DEF End
<1>6. CASE PresentRefresh(w)
  <2>1. PICK t \in db.refresh : Begin(w, [kind |-> "rotate", token |-> t], db)
    BY <1>6 DEF PresentRefresh
  <2>2. [kind |-> "rotate", token |-> t] \in Request
    BY DEF Request, Database
  <2>3. QED
    BY <2>1, <2>2, BeginTyped
<1>7. CASE Rotate(w)
  <2> DEFINE t == request[w].token
  <2>1. \/ End(w, db)
        \/ t \in LiveTokens(db) /\ Fresh(db.access) # {} /\ End(w, Rotated(t))
    BY <1>7 DEF Rotate, Rotated, IInv, OnePairPerGrant, PairsIn
  <2>3. PICK new \in Database : End(w, new)
    BY <2>1, RotatedTyped
  <2>4. QED
    BY <1>7, <2>3, IdleTyped, ContinueTyped DEF Rotate, End
<1>8. CASE DisconnectCollect(w)
  <2>1. PICK o \in Org : \E c \in ConnectedApps(o), tokens \in SUBSET Token :
             Begin(w, [kind |-> "disconnect", app |-> <<c, o>>, tokens |-> tokens], db)
    BY <1>8 DEF DisconnectCollect, LiveTokens
  <2>2. \A c \in ConnectedApps(o) : <<c, o>> \in App
    <3>1. \A t \in LiveTokens(db) : db.access[t].client \in Client
      BY AccessRowKept DEF LiveTokens, Database
    <3>2. QED
      BY <3>1 DEF ConnectedApps, App
  <2>3. \A c \in ConnectedApps(o), tokens \in SUBSET Token :
            [kind |-> "disconnect", app |-> <<c, o>>, tokens |-> tokens] \in Request
    BY <2>2 DEF Request
  <2>4. QED
    BY <2>1, <2>3, BeginTyped
<1>9. CASE DisconnectDelete(w)
  <2>1. Without(db, request[w].tokens) \in Database
    BY WithoutTyped
  <2>2. request[w].app \in App
    BY <1>9 DEF DisconnectDelete, Serving, Request, Idle
  <2>3. QED
    BY <1>9, <2>1, <2>2, IdleTyped, ContinueTyped DEF DisconnectDelete, End
<1>10. QED
  BY <1>1, <1>2, <1>3, <1>4, <1>5, <1>6, <1>7, <1>8, <1>9 DEF AppStep

LEMMA AgentStepTyped ==
  ASSUME TypeOK, NEW w \in Worker, AgentStep(w)
  PROVE  TypeOK'
<1> USE DEF TypeOK
<1>1. CASE CreateKey(w)
  <2>1. PICK k \in Key : Begin(w, Idle, [db EXCEPT !.key[k] = "live"])
    BY <1>1 DEF CreateKey
  <2>2. [db EXCEPT !.key[k] = "live"] \in Database
    BY DEF Database, RowState
  <2>3. QED
    BY <2>1, <2>2, IdleTyped, BeginTyped
<1>2. CASE RevokeKey(w)
  <2>1. PICK k \in Key : Begin(w, Idle, [db EXCEPT !.key[k] = "deleted"])
    BY <1>2 DEF RevokeKey
  <2>2. [db EXCEPT !.key[k] = "deleted"] \in Database
    BY DEF Database, RowState
  <2>3. QED
    BY <2>1, <2>2, IdleTyped, BeginTyped
<1>3. CASE Call(w)
  <2>1. \A t \in Token : [kind |-> "call", token |-> t] \in Request
    BY DEF Request
  <2>2. \A k \in Key : [kind |-> "key", key |-> k] \in Request
    BY DEF Request
  <2>3. PICK loaded \in Request : Take(w, loaded, db)
    BY <1>3, <2>1, <2>2 DEF Call, Resolvable, LiveTokens
  <2>4. QED
    BY <1>3, <2>3, TakeTyped DEF Call
<1>4. CASE Stamp(w)
  BY <1>4, IdleTyped, ContinueTyped DEF Stamp, End
<1>5. QED
  BY <1>1, <1>2, <1>3, <1>4 DEF AgentStep

LEMMA ExpireTyped ==
  ASSUME TypeOK, Expire
  PROVE  TypeOK'
<1>1. ASSUME NEW g \in Code, db.code[g].state = "live"
      PROVE  [db EXCEPT !.code[g].expired = TRUE] \in Database
  <2>1. [db.code[g] EXCEPT !.expired = TRUE] \in CodeRow
    BY <1>1, CodeRowKept DEF TypeOK, Database
  <2>2. QED
    BY <2>1 DEF TypeOK, Database
<1>2. ASSUME NEW t \in LiveTokens(db)
      PROVE  [db EXCEPT !.access[t].expired = TRUE] \in Database
  <2>1. [db.access[t] EXCEPT !.expired = TRUE] \in AccessRow
    BY AccessRowKept DEF TypeOK, Database, LiveTokens
  <2>2. QED
    BY <2>1 DEF TypeOK, Database, LiveTokens
<1>3. db' \in Database
  BY <1>1, <1>2 DEF Expire, LiveTokens
<1>4. QED
  BY <1>3 DEF TypeOK, Expire, ghosts

LEMMA StutterTyped ==
  ASSUME TypeOK, UNCHANGED vars
  PROVE  TypeOK'
  BY DEF TypeOK, vars

-----------------------------------------------------------------------------
(* Steps that leave a part of the system alone *)

\* Nobody begins or ends a request of these kinds.
Keeps(kinds) ==
    \A v \in Worker : request[v].kind \in kinds \/ request'[v].kind \in kinds
                          => request'[v] = request[v]

SamePairs ==
    /\ LiveTokens(db') = LiveTokens(db)
    /\ \A t \in LiveTokens(db) : /\ db'.access[t].grant = db.access[t].grant
                                 /\ AppOf(db'.access[t]) = AppOf(db.access[t])
    /\ \A g \in Code : db'.code[g].state = db.code[g].state
    /\ db'.refresh = db.refresh
    /\ torn' = torn
    /\ Keeps({"issue", "pair"})

SameAccounts ==
    /\ db'.user = db.user
    /\ db'.social = db.social
    /\ Keeps({"link"})

Alone == ~overlapped => \A v, w \in Worker : Busy(v) /\ Busy(w) => v = w

LEMMA SamePairsKeep ==
  ASSUME IInv, SamePairs
  PROVE  OnePairPerGrant' /\ ExchangesSound'
<1>1. PairsIn(db)'
  <2>1. \A t \in LiveTokens(db) : db.access[t].grant \in Code
    BY AccessRowKept DEF IInv, TypeOK, Database, LiveTokens
  <2>2. QED
    BY <2>1 DEF IInv, OnePairPerGrant, PairsIn, SamePairs
<1>2. OnePairPerGrant'
  BY <1>1 DEF IInv, OnePairPerGrant, SamePairs, Keeps, Serving
<1>3. ExchangesSound'
  <2>1. \A w \in Worker : Serving(w, "issue") => request[w].code \in Code
    BY DEF IInv, TypeOK, Serving, Request, Idle
  <2>2. \A w \in Worker : Serving(w, "issue")' => Serving(w, "issue") /\ request'[w] = request[w]
    BY DEF SamePairs, Keeps, Serving
  <2>3. QED
    BY <2>1, <2>2 DEF IInv, ExchangesSound, SamePairs
<1>4. QED
  BY <1>2, <1>3

LEMMA SameAccountsKeep ==
  ASSUME IInv, SameAccounts
  PROVE  SignUpIsWhole' /\ LinksSound'
<1>1. \A w \in Worker : Serving(w, "link")' => Serving(w, "link") /\ request'[w] = request[w]
  BY DEF SameAccounts, Keeps, Serving
<1>2. QED
  BY <1>1 DEF IInv, SignUpIsWhole, SignUpsIn, LinksSound, SameAccounts

OthersKeep(w) == \A v \in Worker \ {w} : request'[v] = request[v]

\* A request that is taken up while another one is served sets overlapped.
LEMMA TakeFrame ==
  ASSUME IInv, NEW w \in Worker, NEW loaded, NEW new, Take(w, loaded, new)
  PROVE  /\ OthersKeep(w) /\ request[w] = Idle /\ request'[w] = loaded
         /\ db' = new /\ torn' = torn
         /\ Alone' /\ (overlapped => overlapped')
  BY DEF IInv, TypeOK, Take, Overlaps, Alone, Busy, OthersKeep

LEMMA ContinueFrame ==
  ASSUME IInv, NEW w \in Worker, Busy(w), NEW loaded, NEW new, Continue(w, loaded, new)
  PROVE  /\ OthersKeep(w) /\ request'[w] = loaded /\ db' = new
         /\ Alone' /\ overlapped' = overlapped
  BY DEF IInv, TypeOK, DisconnectsSound, Continue, Alone, Busy, OthersKeep

\* Tokens may go, and expire, but none is issued.
LEMMA DisconnectsKeep ==
  ASSUME IInv, Alone', overlapped => overlapped', Keeps({"disconnect"}),
         disconnected' = disconnected,
         LiveTokens(db') \subseteq LiveTokens(db),
         \A t \in LiveTokens(db') : AppOf(db'.access[t]) = AppOf(db.access[t])
  PROVE  DisconnectsSound'
<1>1. \A w \in Worker : Serving(w, "disconnect")' =>
          Serving(w, "disconnect") /\ request'[w] = request[w]
  BY DEF Keeps, Serving
<1>2. QED
  BY <1>1 DEF IInv, DisconnectsSound, Alone

LEMMA ServingBusy ==
  ASSUME NEW w \in Worker, NEW kind, kind # "idle", Serving(w, kind)
  PROVE  Busy(w)
  BY DEF Serving, Busy, Idle

\* A step of one worker keeps all requests of a kind it neither ends nor begins.
LEMMA OneWorkerKeeps ==
  ASSUME NEW w \in Worker, OthersKeep(w),
         NEW kinds, request[w].kind \notin kinds, request'[w].kind \notin kinds
  PROVE  Keeps(kinds)
  BY DEF OthersKeep, Keeps

\* What account requests, and those that only read or change keys, leave alone.
SameConnections ==
    /\ db'.code = db.code /\ db'.access = db.access /\ db'.refresh = db.refresh
    /\ UNCHANGED <<torn, disconnected>>
    /\ Keeps({"issue", "pair", "disconnect"})

LEMMA SameConnectionsKeep ==
  ASSUME IInv, SameConnections, Alone', overlapped => overlapped'
  PROVE  OnePairPerGrant' /\ ExchangesSound' /\ DisconnectsSound' /\ SamePairs
<1>1. SamePairs
  BY DEF SameConnections, SamePairs, Keeps, LiveTokens
<1>2. DisconnectsSound'
  BY DisconnectsKeep DEF SameConnections, Keeps, LiveTokens
<1>3. QED
  BY <1>1, <1>2, SamePairsKeep

-----------------------------------------------------------------------------
(* Accounts *)

AccountKinds == {"idle", "register", "identity", "link", "signup"}

\* What a step of an account request does besides.
AccountFrame(w) ==
    /\ OthersKeep(w) /\ request[w].kind \in AccountKinds /\ request'[w].kind \in AccountKinds
    /\ db'.code = db.code /\ db'.access = db.access /\ db'.refresh = db.refresh
    /\ db'.key = db.key
    /\ UNCHANGED <<torn, disconnected>>
    /\ Alone' /\ (overlapped => overlapped')

LEMMA AccountStepFrame ==
  ASSUME IInv, NEW w \in Worker, AccountStep(w)
  PROVE  AccountFrame(w)
<1>0. TypeOK /\ db \in Database
  BY DEF IInv, TypeOK
<1>1. ASSUME NEW loaded, NEW new, Take(w, loaded, new), loaded.kind \in AccountKinds,
             new.code = db.code, new.access = db.access, new.refresh = db.refresh,
             new.key = db.key, disconnected' = disconnected
      PROVE  AccountFrame(w)
  BY <1>1, TakeFrame DEF AccountFrame, AccountKinds, Idle
<1>2. ASSUME NEW loaded, NEW new, Busy(w), Continue(w, loaded, new),
             request[w].kind \in AccountKinds, loaded.kind \in AccountKinds,
             new.code = db.code, new.access = db.access, new.refresh = db.refresh,
             new.key = db.key, UNCHANGED <<torn, disconnected>>
      PROVE  AccountFrame(w)
  BY <1>2, ContinueFrame DEF AccountFrame
<1>3. "idle" \in AccountKinds /\ Idle.kind = "idle"
  BY DEF AccountKinds, Idle
<1>4. CASE RegisterLookUp(w)
  <2>1. PICK e \in Email : Begin(w, [kind |-> "register", email |-> e], db)
    BY <1>4 DEF RegisterLookUp
  <2>2. QED
    BY <2>1, <1>1 DEF Begin, AccountKinds
<1>5. CASE SocialBegin(w)
  <2>1. PICK i \in Identity : Take(w, Idle, [db EXCEPT !.pending = @ \cup {i}])
    BY <1>5 DEF SocialBegin
  <2>2. QED
    BY <1>0, <1>1, <1>3, <1>5, <2>1 DEF SocialBegin, Database
<1>6. CASE SocialCancelled(w)
  <2>1. PICK i \in db.pending : Take(w, Idle, [db EXCEPT !.pending = @ \ {i}])
    BY <1>6 DEF SocialCancelled
  <2>2. QED
    BY <1>0, <1>1, <1>3, <1>6, <2>1 DEF SocialCancelled, Database
<1>7. CASE SocialCallback(w)
  <2>1. PICK i \in db.pending, e \in Email \cup {None}, verified \in BOOLEAN :
             Begin(w, [kind |-> "identity", id |-> i, email |-> e, verified |-> verified], db)
    BY <1>7 DEF SocialCallback
  <2>2. QED
    BY <2>1, <1>1 DEF Begin, AccountKinds
<1>8. CASE RegisterSave(w)
  <2>1. Busy(w) /\ request[w].kind \in AccountKinds
    BY <1>8 DEF RegisterSave, Serving, Busy, Idle, AccountKinds
  <2>2. \/ Continue(w, Idle, [db EXCEPT !.user[request[w].email] = "password"])
        \/ Continue(w, Idle, db)
    BY <1>8 DEF RegisterSave, End
  <2>3. QED
    BY <1>0, <1>2, <1>3, <1>8, <2>1, <2>2 DEF RegisterSave, Database
<1>9. CASE SocialResolve(w)
  <2>1. Busy(w) /\ request[w].kind \in AccountKinds
    BY <1>9 DEF SocialResolve, Serving, Busy, Idle, AccountKinds
  <2>2. request[w] \in [kind : {"identity"}, id : Identity, email : Email \cup {None},
                        verified : BOOLEAN]
    BY <1>0, <1>9 DEF SocialResolve, Serving, TypeOK, Request, Idle
  <2>3. \/ Continue(w, Idle, [db EXCEPT !.pending = @ \ {request[w].id}])
        \/ Continue(w, [request[w] EXCEPT !.kind = "link"], db)
        \/ Continue(w, [request[w] EXCEPT !.kind = "signup"], db)
    BY <1>9 DEF SocialResolve, SignedIn, End
  <2>4. /\ [request[w] EXCEPT !.kind = "link"].kind \in AccountKinds
        /\ [request[w] EXCEPT !.kind = "signup"].kind \in AccountKinds
    BY <2>2 DEF AccountKinds
  <2>5. QED
    BY <1>0, <1>2, <1>3, <1>9, <2>1, <2>3, <2>4 DEF SocialResolve, Database
<1>10. CASE SocialLink(w)
  <2> DEFINE linked == [Bound(db, request[w]) EXCEPT !.pending = @ \ {request[w].id}]
  <2>1. Busy(w) /\ request[w].kind \in AccountKinds
    BY <1>10 DEF SocialLink, Serving, Busy, Idle, AccountKinds
  <2>2. Continue(w, Idle, linked) \/ Continue(w, Idle, db)
    BY <1>10 DEF SocialLink, SignedIn, End
  <2>3. /\ linked.code = db.code /\ linked.access = db.access
        /\ linked.refresh = db.refresh /\ linked.key = db.key
    BY <1>0 DEF Bound, Database
  <2>4. QED
    BY <1>2, <1>3, <1>10, <2>1, <2>2, <2>3 DEF SocialLink
<1>11. CASE SocialSignUp(w)
  <2> DEFINE r == request[w]
             made == [db EXCEPT !.user[r.email] = "passwordless"]
             signedUp == [Bound(made, r) EXCEPT !.pending = @ \ {r.id}]
             refused == [db EXCEPT !.pending = @ \ {r.id}]
  <2>1. Busy(w) /\ request[w].kind \in AccountKinds
    BY <1>11 DEF SocialSignUp, Serving, Busy, Idle, AccountKinds
  <2>2. \/ Continue(w, Idle, signedUp) \/ Continue(w, Idle, refused) \/ Continue(w, Idle, db)
    BY <1>11 DEF SocialSignUp, SignedIn, End
  <2>3. /\ signedUp.code = db.code /\ signedUp.access = db.access
        /\ signedUp.refresh = db.refresh /\ signedUp.key = db.key
        /\ refused.code = db.code /\ refused.access = db.access
        /\ refused.refresh = db.refresh /\ refused.key = db.key
    BY <1>0 DEF Bound, Database
  <2>4. QED
    BY <1>2, <1>3, <1>11, <2>1, <2>2, <2>3 DEF SocialSignUp
<1>12. QED
  BY <1>4, <1>5, <1>6, <1>7, <1>8, <1>9, <1>10, <1>11 DEF AccountStep

LEMMA AccountStepKeepsPairs ==
  ASSUME IInv, NEW w \in Worker, AccountStep(w)
  PROVE  OnePairPerGrant' /\ ExchangesSound' /\ DisconnectsSound' /\ SamePairs
<1>1. AccountFrame(w)
  BY AccountStepFrame
<1>2. Keeps({"issue", "pair", "disconnect"})
  BY <1>1, OneWorkerKeeps DEF AccountFrame, AccountKinds
<1>3. SameConnections /\ Alone' /\ (overlapped => overlapped')
  BY <1>1, <1>2 DEF AccountFrame, SameConnections
<1>4. QED
  BY <1>3, SameConnectionsKeep

\* An account step that is neither a link nor the beginning of one.
LEMMA NoNewLink ==
  ASSUME IInv, NEW w \in Worker, OthersKeep(w), request'[w].kind # "link"
  PROVE  \A v \in Worker : Serving(v, "link")' =>
             Serving(v, "link") /\ request'[v] = request[v] /\ request[v].email \in Email
<1>1. \A v \in Worker : Serving(v, "link") => request[v].email \in Email
  BY DEF IInv, TypeOK, Serving, Request, Idle
<1>2. QED
  BY <1>1 DEF OthersKeep, Serving

LEMMA AccountStepKeepsAccounts ==
  ASSUME IInv, NEW w \in Worker, AccountStep(w)
  PROVE  SignUpIsWhole' /\ LinksSound'
<1> DEFINE r == request[w]
<1>0. TypeOK /\ db \in Database /\ OthersKeep(w)
  BY AccountStepFrame DEF IInv, TypeOK, AccountFrame
<1>1. CASE RegisterLookUp(w) \/ SocialBegin(w) \/ SocialCancelled(w) \/ SocialCallback(w)
  <2>1. db'.user = db.user /\ db'.social = db.social
    BY <1>0, <1>1 DEF RegisterLookUp, SocialBegin, SocialCancelled, SocialCallback, Begin,
                      Take, Database
  <2>2. request'[w].kind # "link" /\ request[w].kind # "link"
    BY <1>0, <1>1 DEF RegisterLookUp, SocialBegin, SocialCancelled, SocialCallback, Begin,
                      Take, TypeOK, Busy, Idle
  <2>3. Keeps({"link"})
    BY <1>0, <2>2, OneWorkerKeeps
  <2>4. QED
    BY <2>1, <2>3, SameAccountsKeep DEF SameAccounts
<1>2. CASE RegisterSave(w)
  <2>1. \/ db' = db
        \/ db.user[r.email] = "absent" /\ db' = [db EXCEPT !.user[r.email] = "password"]
    BY <1>2 DEF RegisterSave, End, Continue
  <2>2. request'[w].kind # "link" /\ request[w].kind # "link"
    BY <1>0, <1>2 DEF RegisterSave, End, Continue, TypeOK, Serving, Idle
  <2>3. CASE db' = db
    <3>1. Keeps({"link"})
      BY <1>0, <2>2, OneWorkerKeeps
    <3>2. QED
      BY <2>3, <3>1, SameAccountsKeep DEF SameAccounts
  <2>4. CASE db.user[r.email] = "absent" /\ db' = [db EXCEPT !.user[r.email] = "password"]
    <3>1. r.email \in Email
      BY <1>0, <1>2 DEF RegisterSave, TypeOK, Serving, Request, Idle
    <3>2. /\ db'.social = db.social
          /\ db'.user[r.email] = "password"
          /\ \A e \in Email : e # r.email => db'.user[e] = db.user[e]
      BY <1>0, <2>4, <3>1 DEF Database
    <3>3. \A i \in Identity : db.social[i].user \in Email \cup {None}
      BY <1>0 DEF Database, SocialRow
    <3>4. SignUpIsWhole'
      BY <2>4, <3>1, <3>2, <3>3 DEF IInv, SignUpIsWhole, SignUpsIn
    <3>5. LinksSound'
      BY <1>0, <2>2, <3>2, NoNewLink DEF IInv, LinksSound
    <3>6. QED
      BY <3>4, <3>5
  <2>5. QED
    BY <2>1, <2>3, <2>4
<1>3. CASE SocialResolve(w)
  <2>1. r \in [kind : {"identity"}, id : Identity, email : Email \cup {None}, verified : BOOLEAN]
    BY <1>0, <1>3 DEF SocialResolve, Serving, TypeOK, Request, Idle
  <2>2. db'.user = db.user /\ db'.social = db.social
    BY <1>0, <1>3 DEF SocialResolve, SignedIn, End, Continue, Database
  <2>3. request'[w].kind = "link" => request'[w].verified /\ db.user[request'[w].email] # "absent"
    BY <1>0, <1>3, <2>1 DEF SocialResolve, SignedIn, End, Continue, Idle, TypeOK
  <2>4. LinksSound'
    BY <1>0, <2>2, <2>3 DEF IInv, LinksSound, Serving, OthersKeep
  <2>5. QED
    BY <2>2, <2>4 DEF IInv, SignUpIsWhole, SignUpsIn
<1>4. CASE SocialLink(w)
  <2>1. /\ r.id \in Identity /\ r.email \in Email /\ r.verified
        /\ db.user[r.email] # "absent"
    BY <1>0, <1>4 DEF SocialLink, Serving, TypeOK, Request, Idle, IInv, LinksSound
  <2>2. /\ db'.user = db.user
        /\ \/ db'.social = db.social
           \/ /\ db.social[r.id].user = None
              /\ db'.social = [db.social EXCEPT ![r.id] = [user |-> r.email, verified |-> r.verified]]
    BY <1>0, <1>4 DEF SocialLink, SignedIn, End, Continue, Bound, Database
  <2>3. request'[w].kind # "link"
    BY <1>0, <1>4 DEF SocialLink, SignedIn, End, Continue, TypeOK, Idle
  <2>4. LinksSound'
    BY <1>0, <2>2, <2>3, NoNewLink DEF IInv, LinksSound
  <2>5. SignUpIsWhole'
    BY <1>0, <2>1, <2>2, NoneAssumption
    DEF IInv, SignUpIsWhole, SignUpsIn, Database, SocialRow
  <2>6. QED
    BY <2>4, <2>5
<1>5. CASE SocialSignUp(w)
  <2>1. r.id \in Identity /\ r.email \in Email
    BY <1>0, <1>5 DEF SocialSignUp, Serving, TypeOK, Request, Idle
  <2>2. request'[w].kind # "link" /\ request[w].kind # "link"
    BY <1>0, <1>5 DEF SocialSignUp, SignedIn, End, Continue, TypeOK, Serving, Idle
  <2>3. CASE db'.user = db.user /\ db'.social = db.social
    <3>1. Keeps({"link"})
      BY <1>0, <2>2, OneWorkerKeeps
    <3>2. QED
      BY <2>3, <3>1, SameAccountsKeep DEF SameAccounts
  <2>4. CASE /\ db.user[r.email] = "absent" /\ db.social[r.id].user = None
             /\ db'.user = [db.user EXCEPT ![r.email] = "passwordless"]
             /\ db'.social = [db.social EXCEPT ![r.id] = [user |-> r.email, verified |-> r.verified]]
    <3>1. /\ db'.user[r.email] = "passwordless"
          /\ \A e \in Email : e # r.email => db'.user[e] = db.user[e]
          /\ db'.social[r.id].user = r.email
          /\ \A i \in Identity : i # r.id => db'.social[i] = db.social[i]
          /\ \A i \in Identity : db.social[i].user \in Email \cup {None}
      BY <1>0, <2>1, <2>4 DEF Database, SocialRow
    <3>2. LinksSound'
      BY <1>0, <2>2, <3>1, NoNewLink DEF IInv, LinksSound
    <3>3. \A e \in Email : db'.user[e] = "passwordless" => \E i \in Identity : db'.social[i].user = e
      BY <2>1, <2>4, <3>1, NoneAssumption DEF IInv, SignUpIsWhole, SignUpsIn
    <3>4. \A i \in Identity : db'.social[i].user # None =>
              /\ db'.user[db'.social[i].user] # "absent"
              /\ db'.social[i].verified \/ db'.user[db'.social[i].user] = "passwordless"
      BY <2>1, <2>4, <3>1 DEF IInv, SignUpIsWhole, SignUpsIn
    <3>5. QED
      BY <3>2, <3>3, <3>4 DEF SignUpIsWhole, SignUpsIn
  <2>5. QED
    BY <1>0, <1>5, <2>3, <2>4 DEF SocialSignUp, SignedIn, End, Continue, Bound, Database
<1>6. QED
  BY <1>1, <1>2, <1>3, <1>4, <1>5 DEF AccountStep

LEMMA AccountStepKeepsIInv ==
  ASSUME IInv, NEW w \in Worker, AccountStep(w)
  PROVE  IInv'
  BY AccountStepTyped, AccountStepKeepsPairs, AccountStepKeepsAccounts DEF IInv

-----------------------------------------------------------------------------
(* Agents' calls, keys, and the app steps that change no connection *)

LEMMA QuietStepKeeps ==
  ASSUME IInv, TypeOK', NEW w \in Worker, OthersKeep(w),
         request[w].kind \notin {"issue", "pair", "disconnect", "link"},
         request'[w].kind \notin {"issue", "pair", "disconnect", "link"},
         db'.code = db.code, db'.access = db.access, db'.refresh = db.refresh,
         db'.user = db.user, db'.social = db.social,
         UNCHANGED <<torn, disconnected>>, Alone', overlapped => overlapped'
  PROVE  IInv' /\ SamePairs
<1>1. Keeps({"issue", "pair", "disconnect"}) /\ Keeps({"link"})
  BY OneWorkerKeeps
<1>2. SameConnections /\ SameAccounts
  BY <1>1 DEF SameConnections, SameAccounts
<1>3. QED
  BY <1>2, SameConnectionsKeep, SameAccountsKeep DEF IInv

LEMMA AgentStepKeeps ==
  ASSUME IInv, NEW w \in Worker, AgentStep(w)
  PROVE  IInv' /\ SamePairs
<1> DEFINE kinds == {"issue", "pair", "disconnect", "link"}
<1>0. TypeOK /\ TypeOK' /\ db \in Database
  BY AgentStepTyped DEF IInv, TypeOK
<1>1. ASSUME NEW loaded, NEW new, Take(w, loaded, new), loaded.kind \notin kinds,
             new.code = db.code, new.access = db.access, new.refresh = db.refresh,
             new.user = db.user, new.social = db.social, disconnected' = disconnected
      PROVE  IInv' /\ SamePairs
  BY <1>0, <1>1, TakeFrame, QuietStepKeeps DEF Idle
<1>2. CASE CreateKey(w)
  <2>1. PICK k \in Key : Begin(w, Idle, [db EXCEPT !.key[k] = "live"])
    BY <1>2 DEF CreateKey
  <2>2. QED
    BY <1>0, <1>1, <2>1 DEF Begin, Database, Idle
<1>3. CASE RevokeKey(w)
  <2>1. PICK k \in Key : Begin(w, Idle, [db EXCEPT !.key[k] = "deleted"])
    BY <1>3 DEF RevokeKey
  <2>2. QED
    BY <1>0, <1>1, <2>1 DEF Begin, Database, Idle
<1>4. CASE Call(w)
  <2>1. CASE \E t \in Resolvable : Take(w, [kind |-> "call", token |-> t], db)
    BY <1>1, <1>4, <2>1 DEF Call
  <2>2. CASE \E k \in Key : Take(w, [kind |-> "key", key |-> k], db)
    BY <1>1, <1>4, <2>2 DEF Call
  <2>3. QED
    BY <1>4, <2>1, <2>2 DEF Call
<1>5. CASE Stamp(w)
  <2>1. request[w].kind \notin kinds /\ Busy(w)
    BY <1>5 DEF Stamp, Serving, Busy, Idle
  <2>2. Continue(w, Idle, db) /\ UNCHANGED <<torn, disconnected>>
    BY <1>5 DEF Stamp, End
  <2>3. Idle.kind \notin kinds
    BY DEF Idle
  <2>4. QED
    BY <1>0, <2>1, <2>2, <2>3, ContinueFrame, QuietStepKeeps
<1>6. QED
  BY <1>2, <1>3, <1>4, <1>5 DEF AgentStep

LEMMA RegisterClientKeeps ==
  ASSUME IInv, NEW w \in Worker, RegisterClient(w)
  PROVE  IInv' /\ SamePairs
<1>1. PICK c \in Client : Take(w, Idle, [db EXCEPT !.client = @ \cup {c}])
  BY DEF RegisterClient
<1>2. TypeOK' /\ db \in Database
  BY AppStepTyped DEF AppStep, IInv, TypeOK
<1>3. QED
  BY <1>1, <1>2, TakeFrame, QuietStepKeeps DEF RegisterClient, Idle, Database

LEMMA PresentRefreshKeeps ==
  ASSUME IInv, NEW w \in Worker, PresentRefresh(w)
  PROVE  IInv' /\ SamePairs
<1>1. PICK t \in db.refresh : Begin(w, [kind |-> "rotate", token |-> t], db)
  BY DEF PresentRefresh
<1>2. TypeOK'
  BY AppStepTyped DEF AppStep
<1>3. QED
  BY <1>1, <1>2, TakeFrame, QuietStepKeeps DEF Begin, Idle

LEMMA DisconnectCollectKeeps ==
  ASSUME IInv, NEW w \in Worker, DisconnectCollect(w)
  PROVE  IInv' /\ SamePairs
<1>1. PICK o, c :
         Begin(w, [kind |-> "disconnect", app |-> <<c, o>>,
                   tokens |-> {t \in LiveTokens(db) : AppOf(db.access[t]) = <<c, o>>}], db)
  BY DEF DisconnectCollect
<1> DEFINE loaded == [kind |-> "disconnect", app |-> <<c, o>>,
                      tokens |-> {t \in LiveTokens(db) : AppOf(db.access[t]) = <<c, o>>}]
<1>2. /\ OthersKeep(w) /\ request[w] = Idle /\ request'[w] = loaded
      /\ db' = db /\ torn' = torn /\ disconnected' = disconnected
      /\ Alone' /\ (overlapped => overlapped')
  BY <1>1, TakeFrame DEF Begin
<1>3. TypeOK'
  BY AppStepTyped DEF AppStep
<1>4. Keeps({"issue", "pair"}) /\ Keeps({"link"})
  BY <1>2, OneWorkerKeeps DEF Idle
<1>5. SamePairs /\ SameAccounts
  BY <1>2, <1>4 DEF SamePairs, SameAccounts
<1>6. DisconnectsSound'
  <2> SUFFICES ASSUME ~overlapped' PROVE DisconnectsSound'
    BY DEF DisconnectsSound
  <2>1. \A v, x \in Worker : Busy(v)' /\ Busy(x)' => v = x
    BY <1>2 DEF Alone
  <2>2. \A v \in Worker : Serving(v, "disconnect")' => v = w
    BY <1>2, <2>1 DEF Serving, Busy, Idle
  <2>3. loaded.app = <<c, o>>
        /\ loaded.tokens = {t \in LiveTokens(db) : AppOf(db.access[t]) = <<c, o>>}
    OBVIOUS
  <2>4. QED
    BY <1>2, <2>1, <2>2, <2>3 DEF IInv, DisconnectsSound
<1>7. QED
  BY <1>3, <1>5, <1>6, SamePairsKeep, SameAccountsKeep DEF IInv

LEMMA ExpireKeeps ==
  ASSUME IInv, Expire
  PROVE  IInv' /\ SamePairs
<1>1. TypeOK' /\ db \in Database
  BY ExpireTyped DEF IInv, TypeOK
<1>2. /\ db'.user = db.user /\ db'.social = db.social /\ db'.refresh = db.refresh
      /\ LiveTokens(db') = LiveTokens(db)
      /\ \A t \in LiveTokens(db) : /\ db'.access[t].grant = db.access[t].grant
                                   /\ AppOf(db'.access[t]) = AppOf(db.access[t])
      /\ \A g \in Code : db'.code[g].state = db.code[g].state
  <2>1. CASE \E g \in Code : /\ db.code[g].state = "live"
                             /\ db' = [db EXCEPT !.code[g].expired = TRUE]
    <3>1. PICK g \in Code : /\ db.code[g].state = "live"
                            /\ db' = [db EXCEPT !.code[g].expired = TRUE]
      BY <2>1
    <3>2. [db.code[g] EXCEPT !.expired = TRUE].state = db.code[g].state
      BY <1>1, <3>1 DEF Database, CodeRow, NoCode
    <3>3. QED
      BY <1>1, <3>1, <3>2 DEF Database, LiveTokens
  <2>2. CASE \E t \in LiveTokens(db) : db' = [db EXCEPT !.access[t].expired = TRUE]
    <3>1. PICK t \in LiveTokens(db) : db' = [db EXCEPT !.access[t].expired = TRUE]
      BY <2>2
    <3> DEFINE row == db.access[t]
               later == [row EXCEPT !.expired = TRUE]
    <3>2. /\ later.state = row.state /\ later.grant = row.grant
          /\ later.client = row.client /\ later.org = row.org
      BY <1>1 DEF Database, AccessRow, NoAccess, LiveTokens
    <3>3. /\ db'.access[t] = later
          /\ \A u \in Token : u # t => db'.access[u] = db.access[u]
          /\ db'.user = db.user /\ db'.social = db.social /\ db'.refresh = db.refresh
          /\ db'.code = db.code
      BY <1>1, <3>1 DEF Database, LiveTokens
    <3>4. QED
      BY <3>2, <3>3 DEF LiveTokens, AppOf
  <2>3. QED
    BY <2>1, <2>2 DEF Expire
<1>3. UNCHANGED <<request, overlapped, torn, disconnected>>
  BY DEF Expire, ghosts
<1>4. SamePairs /\ SameAccounts /\ Keeps({"disconnect"})
  BY <1>2, <1>3 DEF SamePairs, SameAccounts, Keeps
<1>5. DisconnectsSound'
  BY <1>2, <1>3 DEF IInv, DisconnectsSound, Busy, Serving
<1>6. QED
  BY <1>1, <1>4, <1>5, SamePairsKeep, SameAccountsKeep DEF IInv

LEMMA StutterKeeps ==
  ASSUME IInv, UNCHANGED vars
  PROVE  IInv' /\ SamePairs
<1>1. UNCHANGED <<db, request, overlapped, torn, disconnected>> /\ TypeOK'
  BY StutterTyped DEF vars, IInv
<1>2. SamePairs /\ SameAccounts
  BY <1>1 DEF SamePairs, SameAccounts, Keeps
<1>3. DisconnectsSound'
  BY <1>1 DEF IInv, DisconnectsSound, Busy, Serving
<1>4. QED
  BY <1>1, <1>2, <1>3, SamePairsKeep, SameAccountsKeep DEF IInv

-----------------------------------------------------------------------------
(* The app steps that change a connection *)

\* They touch no account and no link, and are as alone as they were.
ConnectionFrame(w) ==
    /\ TypeOK' /\ OthersKeep(w) /\ SameAccounts
    /\ Alone' /\ (overlapped => overlapped')

LEMMA TakeConnectionFrame ==
  ASSUME IInv, TypeOK', NEW w \in Worker, NEW loaded, NEW new, Take(w, loaded, new),
         loaded.kind # "link", new.user = db.user, new.social = db.social
  PROVE  ConnectionFrame(w)
<1>1. /\ OthersKeep(w) /\ db' = new /\ request[w] = Idle /\ request'[w] = loaded
      /\ Alone' /\ (overlapped => overlapped')
  BY TakeFrame
<1>2. Keeps({"link"})
  BY <1>1, OneWorkerKeeps DEF Idle
<1>3. QED
  BY <1>1, <1>2 DEF ConnectionFrame, SameAccounts

LEMMA ContinueConnectionFrame ==
  ASSUME IInv, TypeOK', NEW w \in Worker, NEW loaded, NEW new, Continue(w, loaded, new),
         Busy(w), request[w].kind # "link", loaded.kind # "link",
         new.user = db.user, new.social = db.social
  PROVE  ConnectionFrame(w)
<1>1. /\ OthersKeep(w) /\ db' = new /\ request'[w] = loaded
      /\ Alone' /\ (overlapped => overlapped')
  BY ContinueFrame
<1>2. Keeps({"link"})
  BY <1>1, OneWorkerKeeps
<1>3. QED
  BY <1>1, <1>2 DEF ConnectionFrame, SameAccounts

LEMMA AuthorizeEffect ==
  ASSUME IInv, NEW w \in Worker, Authorize(w)
  PROVE  /\ ConnectionFrame(w) /\ request[w] = Idle /\ request'[w] = Idle
         /\ UNCHANGED <<torn, disconnected>>
         /\ db'.access = db.access /\ db'.refresh = db.refresh /\ db'.key = db.key
         /\ \E g \in Code : /\ db.code[g].state = "absent" /\ db'.code[g].state = "live"
                            /\ \A x \in Code \ {g} : db'.code[x] = db.code[x]
<1> DEFINE g == NextKey(Fresh(db.code))
<1>0. TypeOK' /\ db \in Database /\ Fresh(db.code) # {}
  BY AppStepTyped DEF AppStep, IInv, TypeOK, Authorize
<1>1. g \in Code /\ db.code[g].state = "absent"
  BY <1>0, FreshKey DEF Database
<1>2. PICK c \in db.client, o \in Org : Begin(w, Idle, [db EXCEPT !.code[g] = NewCode(c, o)])
  BY DEF Authorize
<1> DEFINE new == [db EXCEPT !.code[g] = NewCode(c, o)]
<1>3. /\ new.user = db.user /\ new.social = db.social /\ new.access = db.access
      /\ new.refresh = db.refresh /\ new.key = db.key
      /\ new.code = [db.code EXCEPT ![g] = NewCode(c, o)]
  BY <1>0 DEF Database
<1>4. Take(w, Idle, new) /\ disconnected' = disconnected
  BY <1>2 DEF Begin
<1> HIDE DEF new
<1>5. db' = new /\ request[w] = Idle /\ request'[w] = Idle /\ torn' = torn
  BY <1>4, TakeFrame
<1>6. ConnectionFrame(w)
  BY <1>0, <1>3, <1>4, TakeConnectionFrame DEF Idle
<1>7. db'.code[g].state = "live" /\ \A x \in Code \ {g} : db'.code[x] = db.code[x]
  BY <1>0, <1>1, <1>3, <1>5 DEF NewCode, Database
<1>8. QED
  BY <1>1, <1>3, <1>4, <1>5, <1>6, <1>7

LEMMA ExchangeEffect ==
  ASSUME IInv, NEW w \in Worker, Exchange(w)
  PROVE  \E g \in Code :
         /\ ConnectionFrame(w) /\ request[w] = Idle
         /\ request'[w] \in {Idle, [kind |-> "issue", code |-> g]}
         /\ UNCHANGED <<torn, disconnected>>
         /\ db'.access = db.access /\ db'.refresh = db.refresh /\ db'.key = db.key
         /\ db.code[g].state = "live" /\ db'.code[g].state = "deleted"
         /\ \A x \in Code \ {g} : db'.code[x] = db.code[x]
<1>0. TypeOK' /\ db \in Database
  BY AppStepTyped DEF AppStep, IInv, TypeOK
<1>a. PICK g \in Code :
           /\ db.code[g].state = "live"
           /\ \E loaded \in {Idle, [kind |-> "issue", code |-> g]} :
                  Begin(w, loaded, [db EXCEPT !.code[g].state = "deleted"])
  BY DEF Exchange
<1>1. PICK loaded \in {Idle, [kind |-> "issue", code |-> g]} :
           Begin(w, loaded, [db EXCEPT !.code[g].state = "deleted"])
  BY <1>a
<1> DEFINE new == [db EXCEPT !.code[g].state = "deleted"]
<1>2. /\ new.user = db.user /\ new.social = db.social /\ new.access = db.access
      /\ new.refresh = db.refresh /\ new.key = db.key
      /\ new.code = [db.code EXCEPT ![g] = [db.code[g] EXCEPT !.state = "deleted"]]
  BY <1>0 DEF Database
<1>3. Take(w, loaded, new) /\ disconnected' = disconnected
  BY <1>1 DEF Begin
<1> HIDE DEF new
<1>4. db' = new /\ request[w] = Idle /\ request'[w] = loaded /\ torn' = torn
  BY <1>3, TakeFrame
<1>5. ConnectionFrame(w)
  BY <1>0, <1>2, <1>3, TakeConnectionFrame DEF Idle
<1>6. [db.code[g] EXCEPT !.state = "deleted"].state = "deleted"
  <2>1. db.code[g] \in [state : {"live", "deleted"}, client : Client, org : Org,
                        expired : BOOLEAN]
    BY <1>0, <1>a DEF Database, CodeRow, NoCode
  <2>2. QED
    BY <2>1
<1>7. db'.code[g].state = "deleted" /\ \A x \in Code \ {g} : db'.code[x] = db.code[x]
  BY <1>0, <1>2, <1>4, <1>6 DEF Database
<1>8. QED
  BY <1>a, <1>1, <1>2, <1>3, <1>4, <1>5, <1>7

\* The access token of an exchanged code.
LEMMA IssueAccessEffect ==
  ASSUME IInv, NEW w \in Worker, IssueAccess(w)
  PROVE  /\ ConnectionFrame(w) /\ request[w].kind = "issue" /\ request[w].code \in Code
         /\ request[w] = [kind |-> "issue", code |-> request[w].code]
         /\ torn' = torn /\ db'.code = db.code /\ db'.refresh = db.refresh /\ db'.key = db.key
         /\ \/ request'[w] = Idle /\ db'.access = db.access /\ disconnected' = disconnected
            \/ \E t \in Token :
                 /\ request'[w] = [kind |-> "pair", token |-> t]
                 /\ t \notin LiveTokens(db) /\ LiveTokens(db') = LiveTokens(db) \cup {t}
                 /\ db'.access[t].grant = request[w].code
                 /\ \A u \in LiveTokens(db) : db'.access[u] = db.access[u]
                 /\ disconnected' = disconnected \ {AppOf(db'.access[t])}
<1> DEFINE g == request[w].code
           t == NextKey(Fresh(db.access))
           new == [db EXCEPT !.access[t] = Granted(db.code[g], g)]
<1>0. TypeOK' /\ db \in Database /\ TypeOK
  BY AppStepTyped DEF AppStep, IInv, TypeOK
<1>1. /\ request[w].kind = "issue" /\ Busy(w) /\ g \in Code
      /\ request[w] = [kind |-> "issue", code |-> g]
  BY <1>0 DEF IssueAccess, Serving, TypeOK, Request, Idle, Busy
<1>2. \/ Continue(w, Idle, db) /\ UNCHANGED <<torn, disconnected>>
      \/ /\ Fresh(db.access) # {}
         /\ Continue(w, [kind |-> "pair", token |-> t], new)
         /\ disconnected' = disconnected \ {AppOf(db.code[g])} /\ torn' = torn
  BY DEF IssueAccess, End
<1>3. CASE Continue(w, Idle, db) /\ UNCHANGED <<torn, disconnected>>
  BY <1>0, <1>1, <1>3, ContinueFrame, ContinueConnectionFrame DEF Idle
<1>4. CASE /\ Fresh(db.access) # {}
           /\ Continue(w, [kind |-> "pair", token |-> t], new)
           /\ disconnected' = disconnected \ {AppOf(db.code[g])} /\ torn' = torn
  <2>1. t \in Token /\ t \notin LiveTokens(db)
    BY <1>0, <1>4, NextToken
  <2>2. /\ new.user = db.user /\ new.social = db.social /\ new.code = db.code
        /\ new.refresh = db.refresh /\ new.key = db.key
        /\ new.access = [db.access EXCEPT ![t] = Granted(db.code[g], g)]
    BY <1>0 DEF Database
  <2> HIDE DEF new
  <2>3. ConnectionFrame(w)
    <3>1. [kind |-> "pair", token |-> t].kind # "link"
      OBVIOUS
    <3>2. QED
      BY <1>0, <1>1, <1>4, <2>2, <3>1, ContinueConnectionFrame
  <2>4. db' = new /\ request'[w] = [kind |-> "pair", token |-> t]
    BY <1>1, <1>4, ContinueFrame
  <2>5. /\ db'.access[t] = Granted(db.code[g], g)
        /\ \A u \in Token : u # t => db'.access[u] = db.access[u]
    BY <1>0, <2>1, <2>2, <2>4 DEF Database
  <2>6. /\ db'.access[t].state = "live" /\ db'.access[t].grant = g
        /\ AppOf(db'.access[t]) = AppOf(db.code[g])
    BY <2>5 DEF Granted, AppOf
  <2>7. LiveTokens(db') = LiveTokens(db) \cup {t}
    BY <2>1, <2>5, <2>6 DEF LiveTokens
  <2>8. \A u \in LiveTokens(db) : db'.access[u] = db.access[u]
    BY <2>1, <2>5 DEF LiveTokens
  <2>9. QED
    BY <1>1, <1>4, <2>1, <2>2, <2>3, <2>4, <2>6, <2>7, <2>8
<1>5. QED
  BY <1>2, <1>3, <1>4

\* The refresh token of the access token that w has issued.
LEMMA IssueRefreshEffect ==
  ASSUME IInv, NEW w \in Worker, IssueRefresh(w)
  PROVE  /\ ConnectionFrame(w) /\ request[w].kind = "pair" /\ request'[w] = Idle
         /\ disconnected' = disconnected
         /\ db'.code = db.code /\ db'.access = db.access /\ db'.key = db.key
         /\ \/ db'.refresh = db.refresh /\ torn' = torn \cup {request[w].token}
            \/ /\ request[w].token \in LiveTokens(db) /\ torn' = torn
               /\ db'.refresh = db.refresh \cup {request[w].token}
<1> DEFINE t == request[w].token
           new == [db EXCEPT !.refresh = @ \cup {t}]
<1>0. TypeOK' /\ db \in Database
  BY AppStepTyped DEF AppStep, IInv, TypeOK
<1>1. request[w].kind = "pair" /\ Busy(w)
  BY DEF IssueRefresh, Serving, Idle, Busy
<1>2. /\ \/ Continue(w, Idle, db) /\ torn' = torn \cup {t}
         \/ t \in LiveTokens(db) /\ torn' = torn /\ Continue(w, Idle, new)
      /\ disconnected' = disconnected
  BY DEF IssueRefresh, End
<1>3. /\ new.user = db.user /\ new.social = db.social /\ new.code = db.code
      /\ new.access = db.access /\ new.key = db.key /\ new.refresh = db.refresh \cup {t}
  BY <1>0 DEF Database
<1> HIDE DEF new
<1>4. ConnectionFrame(w)
  BY <1>0, <1>1, <1>2, <1>3, ContinueConnectionFrame DEF Idle
<1>5. request'[w] = Idle /\ (db' = db \/ db' = new)
  BY <1>1, <1>2, ContinueFrame
<1>6. QED
  BY <1>1, <1>2, <1>3, <1>4, ContinueFrame

\* What a deletion of tokens leaves.
LEMMA WithoutParts ==
  ASSUME NEW d \in Database, NEW tokens, NEW new, new = Without(d, tokens)
  PROVE  /\ LiveTokens(new) = LiveTokens(d) \ tokens
         /\ \A t \in LiveTokens(new) : new.access[t] = d.access[t]
         /\ new.access \in [Token -> AccessRow]
         /\ new.refresh = d.refresh \ tokens
         /\ new.code = d.code /\ new.user = d.user /\ new.social = d.social
         /\ new.key = d.key
<1> DEFINE gone == tokens \cap LiveTokens(d)
           rows == [t \in Token |-> IF t \in gone THEN [d.access[t] EXCEPT !.state = "deleted"]
                                                  ELSE d.access[t]]
<1>1. /\ new.access = rows /\ new.refresh = d.refresh \ tokens
      /\ new.code = d.code /\ new.user = d.user /\ new.social = d.social
      /\ new.key = d.key
  BY DEF Without, Database
<1>2. \A t \in Token : rows[t] = IF t \in gone THEN [d.access[t] EXCEPT !.state = "deleted"]
                                               ELSE d.access[t]
  OBVIOUS
<1>3. \A t \in gone : [d.access[t] EXCEPT !.state = "deleted"].state = "deleted"
  <2> TAKE t \in gone
  <2>1. d.access[t] \in [state : {"live", "deleted"}, client : Client, org : Org,
                         expired : BOOLEAN, grant : Code]
    BY DEF Database, LiveTokens, AccessRow, NoAccess
  <2>2. QED
    BY <2>1
<1>4. new.access \in [Token -> AccessRow]
  BY WithoutTyped DEF Database
<1> HIDE DEF rows
<1>5. \A t \in Token : new.access[t].state = "live" <=> t \in LiveTokens(d) /\ t \notin tokens
  BY <1>1, <1>2, <1>3 DEF LiveTokens
<1>6. LiveTokens(new) = LiveTokens(d) \ tokens
  BY <1>5 DEF LiveTokens
<1>7. \A t \in LiveTokens(new) : new.access[t] = d.access[t]
  BY <1>1, <1>2, <1>6 DEF LiveTokens
<1>8. QED
  BY <1>1, <1>4, <1>6, <1>7

\* A rotation replaces a pair by one of the same grant and app.
LEMMA RotateEffect ==
  ASSUME IInv, NEW w \in Worker, Rotate(w)
  PROVE  /\ ConnectionFrame(w) /\ request[w].kind = "rotate" /\ request'[w] = Idle
         /\ UNCHANGED <<torn, disconnected>>
         /\ db'.code = db.code /\ db'.key = db.key
         /\ \/ db'.access = db.access /\ db'.refresh = db.refresh
            \/ \E t \in LiveTokens(db), u \in Token \ LiveTokens(db) :
                 /\ LiveTokens(db') = (LiveTokens(db) \ {t}) \cup {u}
                 /\ db'.refresh = (db.refresh \ {t}) \cup {u}
                 /\ db'.access[u].grant = db.access[t].grant
                 /\ AppOf(db'.access[u]) = AppOf(db.access[t])
                 /\ \A x \in LiveTokens(db) \ {t} : db'.access[x] = db.access[x]
<1> DEFINE t == request[w].token
           u == NextKey(Fresh(db.access))
           rest == Without(db, {t})
           row == Granted(db.access[t], db.access[t].grant)
           new == Rotated(t)
<1>0. TypeOK' /\ TypeOK /\ db \in Database
  BY AppStepTyped DEF AppStep, IInv, TypeOK
<1>1. request[w].kind = "rotate" /\ Busy(w)
  BY DEF Rotate, Serving, Idle, Busy
<1>2. /\ \/ Continue(w, Idle, db)
         \/ /\ t \in LiveTokens(db) /\ Fresh(db.access) # {}
            /\ Continue(w, Idle, new)
      /\ UNCHANGED <<torn, disconnected>>
  BY DEF Rotate, Rotated, End, IInv, OnePairPerGrant, PairsIn
<1>3. CASE Continue(w, Idle, db) /\ UNCHANGED <<torn, disconnected>>
  BY <1>0, <1>1, <1>3, ContinueFrame, ContinueConnectionFrame DEF Idle
<1>4. CASE /\ t \in LiveTokens(db) /\ Fresh(db.access) # {}
           /\ Continue(w, Idle, new) /\ UNCHANGED <<torn, disconnected>>
  <2>1. u \in Token /\ u \notin LiveTokens(db)
    BY <1>0, <1>4, NextToken
  <2>2. rest \in Database /\ rest = Without(db, {t})
    BY <1>0, WithoutTyped
  <2>3. /\ new.user = rest.user /\ new.social = rest.social /\ new.code = rest.code
        /\ new.key = rest.key /\ new.refresh = rest.refresh \cup {u}
        /\ new.access = [rest.access EXCEPT ![u] = row]
    BY <2>2 DEF Rotated, Database
  <2> HIDE DEF rest, new
  <2>4. /\ LiveTokens(rest) = LiveTokens(db) \ {t}
        /\ \A x \in LiveTokens(rest) : rest.access[x] = db.access[x]
        /\ rest.access \in [Token -> AccessRow]
        /\ rest.refresh = db.refresh \ {t} /\ rest.code = db.code /\ rest.user = db.user
        /\ rest.social = db.social /\ rest.key = db.key
    <3> DEFINE tokens == {t}
    <3>1. rest = Without(db, tokens)
      BY <2>2
    <3> HIDE DEF tokens
    <3>2. /\ LiveTokens(rest) = LiveTokens(db) \ tokens
          /\ \A x \in LiveTokens(rest) : rest.access[x] = db.access[x]
          /\ rest.access \in [Token -> AccessRow]
          /\ rest.refresh = db.refresh \ tokens /\ rest.code = db.code
          /\ rest.user = db.user /\ rest.social = db.social /\ rest.key = db.key
      BY <1>0, <3>1, WithoutParts
    <3>3. QED
      BY <3>2 DEF tokens
  <2>5. row.state = "live" /\ row.grant = db.access[t].grant /\ AppOf(row) = AppOf(db.access[t])
    BY DEF Granted, AppOf
  <2> HIDE DEF row, t, u
  <2>6. ConnectionFrame(w)
    BY <1>0, <1>1, <1>4, <2>3, <2>4, ContinueConnectionFrame DEF Idle
  <2>7. request'[w] = Idle /\ db' = new
    BY <1>1, <1>4, ContinueFrame
  <2>8. new.access[u] = row /\ \A x \in Token : x # u => new.access[x] = rest.access[x]
    BY <2>1, <2>3, <2>4
  <2>9. LiveTokens(new) = (LiveTokens(db) \ {t}) \cup {u}
    BY <2>1, <2>4, <2>5, <2>8 DEF LiveTokens
  <2>10. \A x \in LiveTokens(db) \ {t} : new.access[x] = db.access[x]
    BY <2>1, <2>4, <2>8 DEF LiveTokens
  <2>11. QED
    BY <1>1, <1>4, <2>1, <2>3, <2>4, <2>5, <2>6, <2>7, <2>8, <2>9, <2>10
<1>5. QED
  BY <1>2, <1>3, <1>4

LEMMA DisconnectDeleteEffect ==
  ASSUME IInv, NEW w \in Worker, DisconnectDelete(w)
  PROVE  /\ ConnectionFrame(w) /\ request[w].kind = "disconnect" /\ request'[w] = Idle
         /\ torn' = torn /\ disconnected' = disconnected \cup {request[w].app}
         /\ db'.code = db.code /\ db'.key = db.key
         /\ LiveTokens(db') = LiveTokens(db) \ request[w].tokens
         /\ db'.refresh = db.refresh \ request[w].tokens
         /\ \A t \in LiveTokens(db') : db'.access[t] = db.access[t]
<1> DEFINE new == Without(db, request[w].tokens)
<1>0. TypeOK' /\ db \in Database
  BY AppStepTyped DEF AppStep, IInv, TypeOK
<1>1. request[w].kind = "disconnect" /\ Busy(w)
  BY DEF DisconnectDelete, Serving, Idle, Busy
<1>2. /\ Continue(w, Idle, new)
      /\ torn' = torn /\ disconnected' = disconnected \cup {request[w].app}
  BY DEF DisconnectDelete, End
<1>3. /\ LiveTokens(new) = LiveTokens(db) \ request[w].tokens
      /\ \A t \in LiveTokens(new) : new.access[t] = db.access[t]
      /\ new.refresh = db.refresh \ request[w].tokens
      /\ new.code = db.code /\ new.user = db.user /\ new.social = db.social
      /\ new.key = db.key
  BY <1>0, WithoutParts
<1> HIDE DEF new
<1>4. ConnectionFrame(w)
  BY <1>0, <1>1, <1>2, <1>3, ContinueConnectionFrame DEF Idle
<1>5. request'[w] = Idle /\ db' = new
  BY <1>1, <1>2, ContinueFrame
<1>6. QED
  BY <1>1, <1>2, <1>3, <1>4, <1>5

-----------------------------------------------------------------------------
(* Authorisations go forward *)

PhaseOf(held, state, redeemed) ==
    IF held THEN "connected"
    ELSE IF state = "live" THEN "offered"
    ELSE IF redeemed THEN "redeeming"
    ELSE IF state = "absent" THEN "none" ELSE "over"

LEMMA PhaseIs ==
  ASSUME NEW g \in Code
  PROVE  /\ Phase(g) = PhaseOf(Held(g), db.code[g].state, Redeemed(g))
         /\ Phase(g)' = PhaseOf(Held(g)', db'.code[g].state, Redeemed(g)')
<1>1. Phase(g) = PhaseOf(Held(g), db.code[g].state, Redeemed(g))
  BY DEF Phase, PhaseOf
<1>2. Phase(g)' = PhaseOf(Held(g)', db'.code[g].state, Redeemed(g)')
  BY DEF Phase, PhaseOf
<1>3. QED
  BY <1>1, <1>2

Steps == \A g \in Code :
    Phase(g)' # Phase(g) => <<Phase(g), Phase(g)'>> \in Promised!Forward

\* What the invariant says of an authorisation.
LEMMA PhaseFacts ==
  ASSUME IInv, NEW g \in Code
  PROVE  /\ Held(g) => db.code[g].state = "deleted" /\ ~Redeemed(g)
         /\ Redeemed(g) => db.code[g].state = "deleted"
         /\ db.code[g].state \in RowState
  BY DEF IInv, OnePairPerGrant, PairsIn, ExchangesSound, Held, Redeemed, Serving, TypeOK,
         Database, CodeRow, NoCode, RowState

\* Who redeems a code after a step of one worker.
LEMMA RedeemedAfter ==
  ASSUME NEW w \in Worker, OthersKeep(w), NEW g \in Code
  PROVE  Redeemed(g)' <=> \/ request'[w] = [kind |-> "issue", code |-> g]
                          \/ \E v \in Worker \ {w} : request[v] = [kind |-> "issue", code |-> g]
  BY DEF OthersKeep, Redeemed

LEMMA SamePairsSteps ==
  ASSUME IInv, SamePairs
  PROVE  \A g \in Code : Phase(g)' = Phase(g)
<1> TAKE g \in Code
<1>1. Held(g)' <=> Held(g)
  BY DEF SamePairs, Held
<1>2. Redeemed(g)' <=> Redeemed(g)
  BY DEF SamePairs, Keeps, Redeemed
<1>3. db'.code[g].state = db.code[g].state
  BY DEF SamePairs
<1>4. QED
  BY <1>1, <1>2, <1>3, PhaseIs DEF PhaseOf

LEMMA AuthorizeKeeps ==
  ASSUME IInv, NEW w \in Worker, Authorize(w)
  PROVE  IInv' /\ Steps
<1>1. PICK g \in Code :
         /\ ConnectionFrame(w) /\ request[w] = Idle /\ request'[w] = Idle
         /\ UNCHANGED <<torn, disconnected>>
         /\ db'.access = db.access /\ db'.refresh = db.refresh
         /\ db.code[g].state = "absent" /\ db'.code[g].state = "live"
         /\ \A x \in Code \ {g} : db'.code[x] = db.code[x]
  BY AuthorizeEffect
<1>2. Keeps({"issue", "pair", "disconnect"})
  BY <1>1, OneWorkerKeeps DEF ConnectionFrame, Idle
<1>3. LiveTokens(db') = LiveTokens(db)
  BY <1>1 DEF LiveTokens
<1>4. OnePairPerGrant'
  <2>1. \A t \in LiveTokens(db) : db.access[t].grant \in Code \ {g}
    BY <1>1, AccessRowKept DEF IInv, TypeOK, OnePairPerGrant, PairsIn, Database, LiveTokens
  <2>2. PairsIn(db)'
    BY <1>1, <1>3, <2>1 DEF IInv, OnePairPerGrant, PairsIn
  <2>3. QED
    BY <1>1, <1>2, <1>3, <2>2 DEF IInv, OnePairPerGrant, Serving, Keeps
<1>5. ExchangesSound'
  <2>1. \A v \in Worker : Serving(v, "issue")' =>
            Serving(v, "issue") /\ request'[v] = request[v] /\ request[v].code \in Code \ {g}
    <3>1. \A v \in Worker : Serving(v, "issue") => request[v].code \in Code \ {g}
      BY <1>1 DEF IInv, TypeOK, ExchangesSound, Serving, Request, Idle
    <3>2. QED
      BY <1>2, <3>1 DEF Keeps, Serving
  <2>2. QED
    BY <1>1, <1>3, <2>1 DEF IInv, ExchangesSound
<1>6. DisconnectsSound'
  BY <1>1, <1>2, <1>3, DisconnectsKeep DEF ConnectionFrame, Keeps
<1>7. IInv'
  BY <1>1, <1>4, <1>5, <1>6, SameAccountsKeep DEF IInv, ConnectionFrame
<1>8. Steps
  <2> SUFFICES ASSUME NEW x \in Code, Phase(x)' # Phase(x)
               PROVE  <<Phase(x), Phase(x)'>> \in Promised!Forward
    BY DEF Steps
  <2>1. Held(x)' <=> Held(x)
    BY <1>1, <1>3 DEF Held
  <2>2. Redeemed(x)' <=> Redeemed(x)
    BY <1>1, <1>2 DEF Redeemed, ConnectionFrame, OthersKeep, Idle
  <2>3. x = g
    BY <1>1, <2>1, <2>2, PhaseIs DEF PhaseOf
  <2>4. Phase(x) = "none" /\ Phase(x)' = "offered"
    BY <1>1, <2>1, <2>2, <2>3, PhaseIs, PhaseFacts DEF PhaseOf
  <2>5. QED
    BY <2>4 DEF Promised!Forward
<1>9. QED
  BY <1>7, <1>8

LEMMA ExchangeKeeps ==
  ASSUME IInv, NEW w \in Worker, Exchange(w)
  PROVE  IInv' /\ Steps
<1>1. PICK g \in Code :
         /\ ConnectionFrame(w) /\ request[w] = Idle
         /\ request'[w] \in {Idle, [kind |-> "issue", code |-> g]}
         /\ UNCHANGED <<torn, disconnected>>
         /\ db'.access = db.access /\ db'.refresh = db.refresh
         /\ db.code[g].state = "live" /\ db'.code[g].state = "deleted"
         /\ \A x \in Code \ {g} : db'.code[x] = db.code[x]
  BY ExchangeEffect
<1>2. Keeps({"pair", "disconnect"})
  BY <1>1, OneWorkerKeeps DEF ConnectionFrame, Idle
<1>3. LiveTokens(db') = LiveTokens(db)
  BY <1>1 DEF LiveTokens
<1>a. \A t \in LiveTokens(db) : db.access[t].grant \in Code \ {g}
  BY <1>1, AccessRowKept DEF IInv, TypeOK, OnePairPerGrant, PairsIn, Database, LiveTokens
<1>4. OnePairPerGrant'
  <2>1. PairsIn(db)'
    BY <1>1, <1>3, <1>a DEF IInv, OnePairPerGrant, PairsIn
  <2>2. QED
    BY <1>1, <1>2, <1>3, <2>1 DEF IInv, OnePairPerGrant, Serving, Keeps
<1>b. \A v \in Worker : Serving(v, "issue") => request[v].code \in Code \ {g}
  BY <1>1 DEF IInv, TypeOK, ExchangesSound, Serving, Request, Idle
<1>5. ExchangesSound'
  <2>1. \A v \in Worker \ {w} : Serving(v, "issue")' =>
            Serving(v, "issue") /\ request'[v] = request[v] /\ request[v].code \in Code \ {g}
    BY <1>1, <1>b DEF ConnectionFrame, OthersKeep, Serving
  <2>2. Serving(w, "issue")' => request'[w].code = g
    BY <1>1 DEF Serving, Idle
  <2>3. QED
    BY <1>1, <1>3, <1>a, <2>1, <2>2 DEF IInv, ExchangesSound
<1>6. DisconnectsSound'
  BY <1>1, <1>2, <1>3, DisconnectsKeep DEF ConnectionFrame, Keeps
<1>7. IInv'
  BY <1>1, <1>4, <1>5, <1>6, SameAccountsKeep DEF IInv, ConnectionFrame
<1>8. Steps
  <2> SUFFICES ASSUME NEW x \in Code, Phase(x)' # Phase(x)
               PROVE  <<Phase(x), Phase(x)'>> \in Promised!Forward
    BY DEF Steps
  <2>1. Held(x)' <=> Held(x)
    BY <1>1, <1>3 DEF Held
  <2>2. Redeemed(x)' <=> \/ request'[w] = [kind |-> "issue", code |-> x]
                         \/ \E v \in Worker \ {w} : request[v] = [kind |-> "issue", code |-> x]
    BY <1>1, RedeemedAfter DEF ConnectionFrame
  <2>3. x # g => request'[w] # [kind |-> "issue", code |-> x]
    BY <1>1 DEF Idle
  <2>4. x # g => (Redeemed(x)' <=> Redeemed(x))
    BY <1>1, <2>2, <2>3 DEF Redeemed, Idle
  <2>5. x = g
    BY <1>1, <2>1, <2>4, PhaseIs DEF PhaseOf
  <2>6. Phase(x) = "offered" /\ Phase(x)' \in {"redeeming", "over"}
    BY <1>1, <2>1, <2>5, PhaseIs, PhaseFacts DEF PhaseOf
  <2>7. QED
    BY <2>6 DEF Promised!Forward
<1>9. QED
  BY <1>7, <1>8

LEMMA IssueAccessKeeps ==
  ASSUME IInv, NEW w \in Worker, IssueAccess(w)
  PROVE  IInv' /\ Steps
<1> DEFINE g == request[w].code
<1>1. /\ ConnectionFrame(w) /\ request[w].kind = "issue" /\ g \in Code
      /\ request[w] = [kind |-> "issue", code |-> g]
      /\ torn' = torn /\ db'.code = db.code /\ db'.refresh = db.refresh
  BY IssueAccessEffect
<1>2. /\ db.code[g].state = "deleted" /\ ~Held(g)
      /\ \A v \in Worker \ {w} : Serving(v, "issue") => request[v].code # g
  BY <1>1 DEF IInv, ExchangesSound, Serving, Held
<1>3. \A v \in Worker \ {w} : request'[v] = request[v]
  BY <1>1 DEF ConnectionFrame, OthersKeep
<1>4. request'[w].kind # "issue" =>
        \A x \in Code : Redeemed(x)' <=> (x # g /\ Redeemed(x))
  <2> SUFFICES ASSUME request'[w].kind # "issue", NEW x \in Code
               PROVE  Redeemed(x)' <=> (x # g /\ Redeemed(x))
    OBVIOUS
  <2>1. Redeemed(x)' <=> \E v \in Worker \ {w} : request[v] = [kind |-> "issue", code |-> x]
    BY <1>1, RedeemedAfter DEF ConnectionFrame
  <2>2. request[w] = [kind |-> "issue", code |-> x] <=> x = g
    BY <1>1
  <2>3. \A v \in Worker \ {w} : request[v] # [kind |-> "issue", code |-> g]
    BY <1>2 DEF Serving
  <2>4. QED
    BY <2>1, <2>2, <2>3 DEF Redeemed
<1>5. CASE request'[w] = Idle /\ db'.access = db.access /\ disconnected' = disconnected
  <2>1. LiveTokens(db') = LiveTokens(db)
    BY <1>5 DEF LiveTokens
  <2>2. Keeps({"pair", "disconnect"})
    BY <1>1, <1>5, OneWorkerKeeps DEF ConnectionFrame, Idle
  <2>3. OnePairPerGrant'
    BY <1>1, <1>5, <2>1, <2>2 DEF IInv, OnePairPerGrant, PairsIn, Serving, Keeps
  <2>4. ExchangesSound'
    BY <1>1, <1>3, <1>5, <2>1 DEF IInv, ExchangesSound, Serving, Idle
  <2>5. DisconnectsSound'
    BY <1>1, <1>5, <2>1, <2>2, DisconnectsKeep DEF ConnectionFrame, Keeps
  <2>6. IInv'
    BY <1>1, <2>3, <2>4, <2>5, SameAccountsKeep DEF IInv, ConnectionFrame
  <2>7. Steps
    <3> SUFFICES ASSUME NEW x \in Code, Phase(x)' # Phase(x)
                 PROVE  <<Phase(x), Phase(x)'>> \in Promised!Forward
      BY DEF Steps
    <3>1. Held(x)' <=> Held(x)
      BY <1>5, <2>1 DEF Held
    <3>2. Redeemed(x)' <=> (x # g /\ Redeemed(x))
      BY <1>4, <1>5 DEF Idle
    <3>3. x = g
      BY <1>1, <3>1, <3>2, PhaseIs DEF PhaseOf
    <3>4. Redeemed(g)
      BY <1>1 DEF Redeemed
    <3>5. Phase(x) = "redeeming" /\ Phase(x)' = "over"
      BY <1>1, <1>2, <3>1, <3>2, <3>3, <3>4, PhaseIs DEF PhaseOf
    <3>6. QED
      BY <3>5 DEF Promised!Forward
  <2>8. QED
    BY <2>6, <2>7
<1>6. ASSUME NEW t \in Token,
             request'[w] = [kind |-> "pair", token |-> t],
             t \notin LiveTokens(db), LiveTokens(db') = LiveTokens(db) \cup {t},
             db'.access[t].grant = g,
             \A u \in LiveTokens(db) : db'.access[u] = db.access[u],
             disconnected' = disconnected \ {AppOf(db'.access[t])}
      PROVE  IInv' /\ Steps
  <2>1. PairsIn(db)'
    BY <1>1, <1>2, <1>6 DEF IInv, OnePairPerGrant, PairsIn, Held
  <2>2. OnePairPerGrant'
    <3>1. Serving(w, "pair")' /\ request'[w].token = t
      BY <1>6 DEF Serving
    <3>2. \A v \in Worker : Serving(v, "pair") => Serving(v, "pair")' /\ request'[v] = request[v]
      BY <1>1, <1>3 DEF Serving
    <3>3. \A u \in LiveTokens(db') \ db'.refresh : u = t \/ u \in LiveTokens(db) \ db.refresh
      BY <1>1, <1>6
    <3>4. QED
      BY <1>1, <2>1, <3>1, <3>2, <3>3 DEF IInv, OnePairPerGrant
  <2>3. ExchangesSound'
    <3>1. \A v \in Worker : Serving(v, "issue")' => v # w /\ Serving(v, "issue")
      BY <1>3, <1>6 DEF Serving
    <3>2. QED
      BY <1>1, <1>2, <1>3, <1>6, <3>1 DEF IInv, ExchangesSound
  <2>4. DisconnectsSound'
    <3> SUFFICES ASSUME ~overlapped' PROVE DisconnectsSound'
      BY DEF DisconnectsSound
    <3>1. \A v, x \in Worker : Busy(v)' /\ Busy(x)' => v = x
      BY <1>1 DEF Alone, ConnectionFrame
    <3>2. \A v \in Worker : ~Serving(v, "disconnect")'
      BY <1>6, <3>1 DEF Serving, Busy, Idle
    <3>3. \A u \in LiveTokens(db') : AppOf(db'.access[u]) \notin disconnected'
      BY <1>1, <1>6 DEF IInv, DisconnectsSound, ConnectionFrame
    <3>4. QED
      BY <3>1, <3>2, <3>3 DEF DisconnectsSound
  <2>5. IInv'
    BY <1>1, <2>2, <2>3, <2>4, SameAccountsKeep DEF IInv, ConnectionFrame
  <2>6. Steps
    <3> SUFFICES ASSUME NEW x \in Code, Phase(x)' # Phase(x)
                 PROVE  <<Phase(x), Phase(x)'>> \in Promised!Forward
      BY DEF Steps
    <3>1. Held(x)' <=> (x = g \/ Held(x))
      BY <1>6 DEF Held
    <3>2. Redeemed(x)' <=> (x # g /\ Redeemed(x))
      BY <1>4, <1>6
    <3>3. x = g
      BY <1>1, <3>1, <3>2, PhaseIs DEF PhaseOf
    <3>4. Redeemed(g)
      BY <1>1 DEF Redeemed
    <3>5. Phase(x) = "redeeming" /\ Phase(x)' = "connected"
      BY <1>1, <1>2, <3>1, <3>2, <3>3, <3>4, PhaseIs DEF PhaseOf
    <3>6. QED
      BY <3>5 DEF Promised!Forward
  <2>7. QED
    BY <2>5, <2>6
<1>7. QED
  BY <1>5, <1>6, IssueAccessEffect

\* A step that begins and ends no exchange, and holds the same grants.
LEMMA SameHoldingSteps ==
  ASSUME NEW w \in Worker, OthersKeep(w), request[w].kind # "issue", request'[w].kind # "issue",
         \A g \in Code : (Held(g)' <=> Held(g)) /\ db'.code[g].state = db.code[g].state
  PROVE  Steps
<1>1. Keeps({"issue"})
  BY OneWorkerKeeps
<1>2. \A g \in Code : Redeemed(g)' <=> Redeemed(g)
  BY <1>1 DEF Keeps, Redeemed
<1>3. QED
  BY <1>2, PhaseIs DEF PhaseOf, Steps

LEMMA IssueRefreshKeeps ==
  ASSUME IInv, NEW w \in Worker, IssueRefresh(w)
  PROVE  IInv' /\ Steps
<1> DEFINE t == request[w].token
<1>1. /\ ConnectionFrame(w) /\ request[w].kind = "pair" /\ request'[w] = Idle
      /\ disconnected' = disconnected
      /\ db'.code = db.code /\ db'.access = db.access
      /\ \/ db'.refresh = db.refresh /\ torn' = torn \cup {t}
         \/ /\ t \in LiveTokens(db) /\ torn' = torn
            /\ db'.refresh = db.refresh \cup {t}
  BY IssueRefreshEffect
<1>2. Keeps({"issue", "disconnect"})
  BY <1>1, OneWorkerKeeps DEF ConnectionFrame, Idle
<1>3. LiveTokens(db') = LiveTokens(db)
  BY <1>1 DEF LiveTokens
<1>4. OnePairPerGrant'
  <2>1. PairsIn(db)'
    BY <1>1, <1>3 DEF IInv, OnePairPerGrant, PairsIn
  <2>2. \A v \in Worker \ {w} : Serving(v, "pair") => Serving(v, "pair")' /\ request'[v] = request[v]
    BY <1>1 DEF ConnectionFrame, OthersKeep, Serving
  <2>3. \A u \in LiveTokens(db') \ db'.refresh : u \in LiveTokens(db) \ db.refresh
                                                 /\ (u = t => u \in torn')
    BY <1>1, <1>3
  <2>4. torn \subseteq torn'
    BY <1>1
  <2>5. QED
    BY <2>1, <2>2, <2>3, <2>4 DEF IInv, OnePairPerGrant
<1>5. ExchangesSound'
  <2>1. \A v \in Worker : Serving(v, "issue")' => Serving(v, "issue") /\ request'[v] = request[v]
    BY <1>2 DEF Keeps, Serving
  <2>2. QED
    BY <1>1, <1>3, <2>1 DEF IInv, ExchangesSound
<1>6. DisconnectsSound'
  BY <1>1, <1>2, <1>3, DisconnectsKeep DEF ConnectionFrame, Keeps
<1>7. IInv'
  BY <1>1, <1>4, <1>5, <1>6, SameAccountsKeep DEF IInv, ConnectionFrame
<1>8. Steps
  <2>1. \A g \in Code : (Held(g)' <=> Held(g)) /\ db'.code[g].state = db.code[g].state
    BY <1>1, <1>3 DEF Held
  <2>2. QED
    BY <1>1, <2>1, SameHoldingSteps DEF ConnectionFrame, Idle
<1>9. QED
  BY <1>7, <1>8

LEMMA RotateKeeps ==
  ASSUME IInv, NEW w \in Worker, Rotate(w)
  PROVE  IInv' /\ Steps
<1>1. /\ ConnectionFrame(w) /\ request[w].kind = "rotate" /\ request'[w] = Idle
      /\ UNCHANGED <<torn, disconnected>> /\ db'.code = db.code
  BY RotateEffect
<1>2. Keeps({"issue", "pair", "disconnect"})
  BY <1>1, OneWorkerKeeps DEF ConnectionFrame, Idle
<1>3. CASE db'.access = db.access /\ db'.refresh = db.refresh
  <2>1. SamePairs
    BY <1>1, <1>2, <1>3 DEF SamePairs, LiveTokens, Keeps
  <2>2. DisconnectsSound'
    BY <1>1, <1>2, <1>3, DisconnectsKeep DEF ConnectionFrame, Keeps, LiveTokens
  <2>3. QED
    BY <1>1, <2>1, <2>2, SamePairsKeep, SamePairsSteps, SameAccountsKeep
    DEF IInv, ConnectionFrame, Steps
<1>4. ASSUME NEW t \in LiveTokens(db), NEW u \in Token \ LiveTokens(db),
             LiveTokens(db') = (LiveTokens(db) \ {t}) \cup {u},
             db'.refresh = (db.refresh \ {t}) \cup {u},
             db'.access[u].grant = db.access[t].grant,
             AppOf(db'.access[u]) = AppOf(db.access[t]),
             \A x \in LiveTokens(db) \ {t} : db'.access[x] = db.access[x]
      PROVE  IInv' /\ Steps
  <2>1. PairsIn(db)'
    BY <1>1, <1>4 DEF IInv, OnePairPerGrant, PairsIn
  <2>2. OnePairPerGrant'
    <3>1. \A v \in Worker : Serving(v, "pair") => Serving(v, "pair")' /\ request'[v] = request[v]
      BY <1>2 DEF Keeps, Serving
    <3>2. \A x \in LiveTokens(db') \ db'.refresh : x \in LiveTokens(db) \ db.refresh
      BY <1>4
    <3>3. QED
      BY <1>1, <2>1, <3>1, <3>2 DEF IInv, OnePairPerGrant
  <2>3. ExchangesSound'
    <3>1. \A v \in Worker : Serving(v, "issue")' => Serving(v, "issue") /\ request'[v] = request[v]
      BY <1>2 DEF Keeps, Serving
    <3>2. QED
      BY <1>1, <1>4, <3>1 DEF IInv, ExchangesSound
  <2>4. DisconnectsSound'
    <3> SUFFICES ASSUME ~overlapped' PROVE DisconnectsSound'
      BY DEF DisconnectsSound
    <3>1. \A v, x \in Worker : Busy(v)' /\ Busy(x)' => v = x
      BY <1>1 DEF Alone, ConnectionFrame
    <3>2. \A v \in Worker : Serving(v, "disconnect")' => v # w /\ Serving(v, "disconnect")
      BY <1>1, <1>2 DEF Serving, Keeps, Idle
    <3>3. \A v \in Worker : ~Serving(v, "disconnect")'
      BY <1>1, <3>2, ServingBusy DEF IInv, DisconnectsSound, ConnectionFrame, Serving
    <3>4. \A x \in LiveTokens(db') : AppOf(db'.access[x]) \notin disconnected'
      BY <1>1, <1>4 DEF IInv, DisconnectsSound, ConnectionFrame
    <3>5. QED
      BY <3>1, <3>3, <3>4 DEF DisconnectsSound
  <2>5. IInv'
    BY <1>1, <2>2, <2>3, <2>4, SameAccountsKeep DEF IInv, ConnectionFrame
  <2>6. \A g \in Code : (Held(g)' <=> Held(g)) /\ db'.code[g].state = db.code[g].state
    BY <1>1, <1>4 DEF Held
  <2>7. QED
    BY <1>1, <2>5, <2>6, SameHoldingSteps DEF ConnectionFrame, Idle
<1>5. QED
  BY <1>3, <1>4, RotateEffect

LEMMA DisconnectDeleteKeeps ==
  ASSUME IInv, NEW w \in Worker, DisconnectDelete(w)
  PROVE  IInv' /\ Steps
<1> DEFINE gone == request[w].tokens
<1>1. /\ ConnectionFrame(w) /\ request[w].kind = "disconnect" /\ request'[w] = Idle
      /\ torn' = torn /\ disconnected' = disconnected \cup {request[w].app}
      /\ db'.code = db.code
      /\ LiveTokens(db') = LiveTokens(db) \ gone
      /\ db'.refresh = db.refresh \ gone
      /\ \A t \in LiveTokens(db') : db'.access[t] = db.access[t]
  BY DisconnectDeleteEffect
<1>2. Keeps({"issue", "pair"})
  BY <1>1, OneWorkerKeeps DEF ConnectionFrame, Idle
<1>3. OnePairPerGrant'
  <2>1. PairsIn(db)'
    BY <1>1 DEF IInv, OnePairPerGrant, PairsIn
  <2>2. QED
    BY <1>1, <1>2, <2>1 DEF IInv, OnePairPerGrant, Serving, Keeps
<1>4. ExchangesSound'
  <2>1. \A v \in Worker : Serving(v, "issue")' => Serving(v, "issue") /\ request'[v] = request[v]
    BY <1>2 DEF Keeps, Serving
  <2>2. QED
    BY <1>1, <2>1 DEF IInv, ExchangesSound
<1>5. DisconnectsSound'
  <2> SUFFICES ASSUME ~overlapped' PROVE DisconnectsSound'
    BY DEF DisconnectsSound
  <2>1. \A v, x \in Worker : Busy(v)' /\ Busy(x)' => v = x
    BY <1>1 DEF Alone, ConnectionFrame
  <2>2. ~overlapped /\ Serving(w, "disconnect") /\ Busy(w)
    BY <1>1, ServingBusy DEF ConnectionFrame, Serving
  <2>3. \A v \in Worker : ~Serving(v, "disconnect")'
    BY <1>1, <2>2, ServingBusy DEF IInv, DisconnectsSound, ConnectionFrame, OthersKeep, Serving, Idle
  <2>4. \A t \in LiveTokens(db') : AppOf(db'.access[t]) \notin disconnected'
    BY <1>1, <2>2 DEF IInv, DisconnectsSound
  <2>5. QED
    BY <2>1, <2>3, <2>4 DEF DisconnectsSound
<1>6. IInv'
  BY <1>1, <1>3, <1>4, <1>5, SameAccountsKeep DEF IInv, ConnectionFrame
<1>7. Steps
  <2> SUFFICES ASSUME NEW x \in Code, Phase(x)' # Phase(x)
               PROVE  <<Phase(x), Phase(x)'>> \in Promised!Forward
    BY DEF Steps
  <2>1. Held(x)' => Held(x)
    BY <1>1 DEF Held
  <2>2. Redeemed(x)' <=> Redeemed(x)
    BY <1>2 DEF Keeps, Redeemed
  <2>3. Held(x) /\ ~Held(x)'
    BY <1>1, <2>1, <2>2, PhaseIs DEF PhaseOf
  <2>4. Phase(x) = "connected" /\ Phase(x)' = "over"
    BY <1>1, <2>2, <2>3, PhaseIs, PhaseFacts DEF PhaseOf
  <2>5. QED
    BY <2>4 DEF Promised!Forward
<1>8. QED
  BY <1>6, <1>7

-----------------------------------------------------------------------------
(* Theorems *)

LEMMA InitKeeps == Init => IInv
<1> SUFFICES ASSUME Init PROVE IInv
  OBVIOUS
<1>1. PairsIn(db) /\ SignUpsIn(db) /\ db.refresh = LiveTokens(db)
  BY SeedAssumption DEF Init
<1>2. \A w \in Worker : request[w] = Idle
  BY DEF Init
<1>3. OnePairPerGrant /\ SignUpIsWhole
  BY <1>1 DEF OnePairPerGrant, SignUpIsWhole
<1>4. ExchangesSound /\ LinksSound /\ DisconnectsSound
  BY <1>2 DEF ExchangesSound, LinksSound, DisconnectsSound, Serving, Busy, Idle, Init
<1>5. QED
  BY <1>3, <1>4, InitTyped DEF IInv

\* Every step keeps the invariant and moves authorisations forward.
LEMMA NextKeeps == IInv /\ [Next]_vars => IInv' /\ Steps
<1> SUFFICES ASSUME IInv, [Next]_vars PROVE IInv' /\ Steps
  OBVIOUS
<1>1. SamePairs => Steps
  BY SamePairsSteps DEF Steps
<1>2. CASE Expire
  BY <1>1, <1>2, ExpireKeeps
<1>3. CASE UNCHANGED vars
  BY <1>1, <1>3, StutterKeeps
<1>4. ASSUME NEW w \in Worker, AccountStep(w) PROVE IInv' /\ Steps
  BY <1>1, <1>4, AccountStepKeepsIInv, AccountStepKeepsPairs
<1>5. ASSUME NEW w \in Worker, AgentStep(w) PROVE IInv' /\ Steps
  BY <1>1, <1>5, AgentStepKeeps
<1>6. ASSUME NEW w \in Worker, AppStep(w) PROVE IInv' /\ Steps
  BY <1>1, <1>6, RegisterClientKeeps, AuthorizeKeeps, ExchangeKeeps, IssueAccessKeeps,
     IssueRefreshKeeps, PresentRefreshKeeps, RotateKeeps, DisconnectCollectKeeps,
     DisconnectDeleteKeeps DEF AppStep
<1>7. QED
  BY <1>2, <1>3, <1>4, <1>5, <1>6 DEF Next

LEMMA Invariant == Spec => []IInv
  BY InitKeeps, NextKeeps, PTL DEF Spec

\* Whatever the requests and however they interleave, the tables stay what the
\* schema allows.
THEOREM TypeCorrect == Spec => []TypeOK
<1>1. IInv => TypeOK
  BY DEF IInv
<1>2. QED
  BY <1>1, Invariant, PTL

\* However a code is retried, its tokens are rotated, raced and disconnected,
\* and whichever INSERT fails, one authorisation holds one pair of tokens.
THEOREM OneAuthorisationOnePair == Spec => []OnePairPerGrant
<1>1. IInv => OnePairPerGrant
  BY DEF IInv
<1>2. QED
  BY <1>1, Invariant, PTL

\* Any number of callbacks and registrations race, and no account is left that
\* nobody can enter, nor bound on the word of an unverified address.
THEOREM NoHalfAccount == Spec => []SignUpIsWhole
<1>1. IInv => SignUpIsWhole
  BY DEF IInv
<1>2. QED
  BY <1>1, Invariant, PTL

\* As long as requests do not overlap, an app that was disconnected has no token
\* in force until it is authorised again.
THEOREM DisconnectionHolds == Spec => []DisconnectedStaysOut
<1>1. IInv => DisconnectedStaysOut
  BY DEF IInv, DisconnectsSound, DisconnectedStaysOut
<1>2. QED
  BY <1>1, Invariant, PTL

\* API tokens: created once, revoked once, and touched by nothing else.
LEMMA KeySteps ==
  ASSUME IInv, [Next]_vars
  PROVE  \/ db'.key = db.key
         \/ SamePairs /\ \E k \in Key :
              \/ db.key[k] = "absent" /\ db'.key = [db.key EXCEPT ![k] = "live"]
              \/ db.key[k] = "live" /\ db'.key = [db.key EXCEPT ![k] = "deleted"]
<1>0. db \in Database
  BY DEF IInv, TypeOK
<1>1. CASE Expire
  BY <1>0, <1>1 DEF Expire, Database
<1>2. CASE UNCHANGED vars
  BY <1>2 DEF vars
<1>3. ASSUME NEW w \in Worker, AccountStep(w) PROVE db'.key = db.key
  BY <1>3, AccountStepFrame DEF AccountFrame
<1>4. ASSUME NEW w \in Worker, AppStep(w) PROVE db'.key = db.key
  <2>1. CASE RegisterClient(w)
    BY <1>0, <2>1 DEF RegisterClient, Take, Database
  <2>2. CASE PresentRefresh(w)
    BY <2>2 DEF PresentRefresh, Begin, Take
  <2>3. CASE DisconnectCollect(w)
    BY <2>3 DEF DisconnectCollect, Begin, Take
  <2>4. CASE Authorize(w) \/ Exchange(w) \/ IssueAccess(w) \/ IssueRefresh(w) \/ Rotate(w)
             \/ DisconnectDelete(w)
    BY <2>4, AuthorizeEffect, ExchangeEffect, IssueAccessEffect, IssueRefreshEffect,
       RotateEffect, DisconnectDeleteEffect
  <2>5. QED
    BY <1>4, <2>1, <2>2, <2>3, <2>4 DEF AppStep
<1>5. ASSUME NEW w \in Worker, AgentStep(w)
      PROVE  \/ db'.key = db.key
             \/ \E k \in Key :
                  \/ db.key[k] = "absent" /\ db'.key = [db.key EXCEPT ![k] = "live"]
                  \/ db.key[k] = "live" /\ db'.key = [db.key EXCEPT ![k] = "deleted"]
  <2>1. CASE CreateKey(w)
    BY <1>0, <2>1 DEF CreateKey, Begin, Take, Database
  <2>2. CASE RevokeKey(w)
    BY <1>0, <2>2 DEF RevokeKey, Begin, Take, Database
  <2>3. CASE Call(w) \/ Stamp(w)
    BY <2>3 DEF Call, Stamp, Take, End, Continue
  <2>4. QED
    BY <1>5, <2>1, <2>2, <2>3 DEF AgentStep
<1>6. QED
  BY <1>1, <1>2, <1>3, <1>4, <1>5, AgentStepKeeps DEF Next

Phases == [g \in Code |-> Phase(g)]

LEMMA InitImplements == Init => Promised!Init
<1> SUFFICES ASSUME Init PROVE Promised!Init
  OBVIOUS
<1>1. db \in Database
  BY InitTyped DEF TypeOK
<1>2. \A g \in Code : ~Redeemed(g)
  BY DEF Init, Redeemed, Idle
<1>3. \A g \in Code : Phase(g) \in Promised!Phase \ {"redeeming"}
  BY <1>2, PhaseIs DEF PhaseOf, Promised!Phase
<1>4. QED
  BY <1>1, <1>3 DEF Promised!Init, Promised!Phase, Promised!KeyPhase, Database, RowState

LEMMA NextImplements ==
  IInv /\ IInv' /\ [Next]_vars => [Promised!Next]_<<Phases, db.key>>
<1> SUFFICES ASSUME IInv, IInv', [Next]_vars PROVE [Promised!Next]_<<Phases, db.key>>
  OBVIOUS
<1>1. Steps
  BY NextKeeps
<1>2. CASE db'.key = db.key
  <2>1. Phases' \in [Code -> Promised!Phase]
    <3>1. \A g \in Code : Phase(g)' \in Promised!Phase
      BY PhaseIs DEF PhaseOf, Promised!Phase
    <3>2. QED
      BY <3>1 DEF Phases
  <2>2. \A g \in Code : Phases'[g] # Phases[g] => <<Phases[g], Phases'[g]>> \in Promised!Forward
    BY <1>1 DEF Phases, Steps
  <2>3. Promised!Progress
    BY <1>2, <2>1, <2>2 DEF Promised!Progress, Phases
  <2>4. QED
    BY <2>3 DEF Promised!Next
<1>3. CASE SamePairs /\ \E k \in Key :
              \/ db.key[k] = "absent" /\ db'.key = [db.key EXCEPT ![k] = "live"]
              \/ db.key[k] = "live" /\ db'.key = [db.key EXCEPT ![k] = "deleted"]
  <2>1. Phases' = Phases
    BY <1>3, SamePairsSteps DEF Phases
  <2>2. PICK k \in Key :
              \/ db.key[k] = "absent" /\ db'.key = [db.key EXCEPT ![k] = "live"]
              \/ db.key[k] = "live" /\ db'.key = [db.key EXCEPT ![k] = "deleted"]
    BY <1>3
  <2>3. Promised!CreateKey(k) \/ Promised!RevokeKey(k)
    BY <2>1, <2>2 DEF Promised!CreateKey, Promised!RevokeKey, Phases
  <2>4. QED
    BY <2>3 DEF Promised!Next
<1>4. QED
  BY <1>2, <1>3, KeySteps

\* Every behaviour of the server is one that Connection promises: what was used
\* up, disconnected or revoked never comes back.
THEOREM ConnectionImplemented == Spec => ImplementsConnection
<1>1. Init => Promised!Init
  BY InitImplements
<1>2. IInv /\ IInv' /\ [Next]_vars => [Promised!Next]_<<Phases, db.key>>
  BY NextImplements
<1>3. QED
  BY <1>1, <1>2, Invariant, PTL DEF Spec, ImplementsConnection, Promised!Spec, Phases


-----------------------------------------------------------------------------
(* Requests that overlap, and one app *)

\* No token of app a is issued between the moment a disconnection of a collects
\* tokens and the moment it deletes them: neither a rotation nor the exchange of
\* a code of a ends there.
NothingSlips(a) ==
    (\E w \in Worker : Serving(w, "disconnect") /\ request[w].app = a) =>
        \A t \in LiveTokens(db') : AppOf(db'.access[t]) = a => t \in LiveTokens(db)

StaysOut(a) == a \in disconnected => \A t \in LiveTokens(db) : AppOf(db.access[t]) # a

\* What a disconnection has collected is all there is to delete.
CollectsAll(a) ==
    \A w \in Worker : Serving(w, "disconnect") /\ request[w].app = a =>
        \A t \in LiveTokens(db) : AppOf(db.access[t]) = a => t \in request[w].tokens

Out(a) == StaysOut(a) /\ CollectsAll(a)

\* Tokens may go, and expire, but none is issued.
LEMMA NoTokenKeepsOut ==
  ASSUME NEW a \in App, Out(a), Keeps({"disconnect"}), disconnected' = disconnected,
         LiveTokens(db') \subseteq LiveTokens(db),
         \A t \in LiveTokens(db') : AppOf(db'.access[t]) = AppOf(db.access[t])
  PROVE  Out(a)'
<1>1. \A w \in Worker : Serving(w, "disconnect")' =>
          Serving(w, "disconnect") /\ request'[w] = request[w]
  BY DEF Keeps, Serving
<1>2. QED
  BY <1>1 DEF Out, StaysOut, CollectsAll

\* A new token is of an app that is connected again, or was all along.
LEMMA NewTokenKeepsOut ==
  ASSUME NEW a \in App, Out(a), NothingSlips(a), Keeps({"disconnect"}),
         NEW u \in Token \ LiveTokens(db), u \in LiveTokens(db'),
         LiveTokens(db') \subseteq LiveTokens(db) \cup {u},
         \A t \in LiveTokens(db') \ {u} : AppOf(db'.access[t]) = AppOf(db.access[t]),
         disconnected' \subseteq disconnected,
         AppOf(db'.access[u]) = a => a \notin disconnected'
  PROVE  Out(a)'
<1>1. \A w \in Worker : Serving(w, "disconnect")' =>
          Serving(w, "disconnect") /\ request'[w] = request[w]
  BY DEF Keeps, Serving
<1>2. StaysOut(a)'
  BY DEF Out, StaysOut
<1>3. CollectsAll(a)'
  BY <1>1 DEF Out, CollectsAll, NothingSlips
<1>4. QED
  BY <1>2, <1>3 DEF Out

LEMMA SamePairsKeepOut ==
  ASSUME NEW a \in App, Out(a), SamePairs, Keeps({"disconnect"}), disconnected' = disconnected
  PROVE  Out(a)'
  BY NoTokenKeepsOut DEF SamePairs

LEMMA AppStepKeepsOut ==
  ASSUME IInv, NEW a \in App, Out(a), NothingSlips(a), NEW w \in Worker, AppStep(w)
  PROVE  Out(a)'
<1>1. ASSUME NEW loaded, NEW new, Take(w, loaded, new), loaded.kind # "disconnect",
             new.access = db.access, disconnected' = disconnected
      PROVE  Out(a)'
  <2>1. Keeps({"disconnect"}) /\ db' = new
    BY <1>1, TakeFrame, OneWorkerKeeps DEF Idle
  <2>2. QED
    BY <1>1, <2>1, NoTokenKeepsOut DEF LiveTokens
<1>2. CASE RegisterClient(w)
  <2>1. PICK c \in Client : Take(w, Idle, [db EXCEPT !.client = @ \cup {c}])
    BY <1>2 DEF RegisterClient
  <2>2. QED
    BY <1>1, <1>2, <2>1 DEF RegisterClient, Idle, IInv, TypeOK, Database
<1>3. CASE PresentRefresh(w)
  BY <1>1, <1>3 DEF PresentRefresh, Begin
<1>4. CASE Authorize(w) \/ Exchange(w)
  <2>1. /\ OthersKeep(w) /\ request[w].kind # "disconnect" /\ request'[w].kind # "disconnect"
        /\ db'.access = db.access /\ disconnected' = disconnected
    BY <1>4, AuthorizeEffect, ExchangeEffect DEF ConnectionFrame, Idle
  <2>2. QED
    BY <2>1, OneWorkerKeeps, NoTokenKeepsOut DEF LiveTokens
<1>5. CASE IssueRefresh(w)
  <2>1. /\ OthersKeep(w) /\ request[w].kind # "disconnect" /\ request'[w].kind # "disconnect"
        /\ db'.access = db.access /\ disconnected' = disconnected
    BY <1>5, IssueRefreshEffect DEF ConnectionFrame, Idle
  <2>2. QED
    BY <2>1, OneWorkerKeeps, NoTokenKeepsOut DEF LiveTokens
<1>6. CASE IssueAccess(w)
  <2>1. OthersKeep(w) /\ request[w].kind # "disconnect"
    BY <1>6, IssueAccessEffect DEF ConnectionFrame
  <2>2. CASE request'[w] = Idle /\ db'.access = db.access /\ disconnected' = disconnected
    BY <2>1, <2>2, OneWorkerKeeps, NoTokenKeepsOut DEF LiveTokens, Idle
  <2>3. ASSUME NEW t \in Token, request'[w] = [kind |-> "pair", token |-> t],
               t \notin LiveTokens(db), LiveTokens(db') = LiveTokens(db) \cup {t},
               \A u \in LiveTokens(db) : db'.access[u] = db.access[u],
               disconnected' = disconnected \ {AppOf(db'.access[t])}
        PROVE  Out(a)'
    <3>1. Keeps({"disconnect"})
      BY <2>1, <2>3, OneWorkerKeeps
    <3>2. QED
      BY <2>3, <3>1, NewTokenKeepsOut
  <2>4. QED
    BY <1>6, <2>2, <2>3, IssueAccessEffect
<1>7. CASE Rotate(w)
  <2>1. OthersKeep(w) /\ Keeps({"disconnect"}) /\ disconnected' = disconnected
    BY <1>7, RotateEffect, OneWorkerKeeps DEF ConnectionFrame, Idle
  <2>2. CASE db'.access = db.access
    BY <2>1, <2>2, NoTokenKeepsOut DEF LiveTokens
  <2>3. ASSUME NEW t \in LiveTokens(db), NEW u \in Token \ LiveTokens(db),
               LiveTokens(db') = (LiveTokens(db) \ {t}) \cup {u},
               AppOf(db'.access[u]) = AppOf(db.access[t]),
               \A x \in LiveTokens(db) \ {t} : db'.access[x] = db.access[x]
        PROVE  Out(a)'
    <3>1. AppOf(db'.access[u]) = a => a \notin disconnected'
      BY <2>1, <2>3 DEF Out, StaysOut
    <3>2. \A x \in LiveTokens(db') \ {u} : AppOf(db'.access[x]) = AppOf(db.access[x])
      BY <2>3
    <3>3. QED
      BY <2>1, <2>3, <3>1, <3>2, NewTokenKeepsOut
  <2>4. QED
    BY <1>7, <2>2, <2>3, RotateEffect
<1>8. CASE DisconnectCollect(w)
  <2>1. PICK o, c :
           Begin(w, [kind |-> "disconnect", app |-> <<c, o>>,
                     tokens |-> {t \in LiveTokens(db) : AppOf(db.access[t]) = <<c, o>>}], db)
    BY <1>8 DEF DisconnectCollect
  <2> DEFINE loaded == [kind |-> "disconnect", app |-> <<c, o>>,
                        tokens |-> {t \in LiveTokens(db) : AppOf(db.access[t]) = <<c, o>>}]
  <2>2. /\ OthersKeep(w) /\ request'[w] = loaded /\ db' = db /\ disconnected' = disconnected
    BY <2>1, TakeFrame DEF Begin
  <2>3. /\ loaded.app = <<c, o>>
        /\ loaded.tokens = {t \in LiveTokens(db) : AppOf(db.access[t]) = <<c, o>>}
    OBVIOUS
  <2>4. StaysOut(a)'
    BY <2>2 DEF Out, StaysOut
  <2>5. CollectsAll(a)'
    BY <2>2, <2>3 DEF Out, CollectsAll, OthersKeep, Serving
  <2>6. QED
    BY <2>4, <2>5 DEF Out
<1>9. CASE DisconnectDelete(w)
  <2>1. /\ OthersKeep(w) /\ request[w].kind = "disconnect" /\ request'[w] = Idle
        /\ disconnected' = disconnected \cup {request[w].app}
        /\ LiveTokens(db') = LiveTokens(db) \ request[w].tokens
        /\ \A t \in LiveTokens(db') : db'.access[t] = db.access[t]
    BY <1>9, DisconnectDeleteEffect DEF ConnectionFrame
  <2>2. StaysOut(a)'
    BY <2>1 DEF Out, StaysOut, CollectsAll, Serving
  <2>3. \A v \in Worker : Serving(v, "disconnect")' =>
            Serving(v, "disconnect") /\ request'[v] = request[v]
    BY <2>1 DEF OthersKeep, Serving, Idle
  <2>4. CollectsAll(a)'
    BY <2>1, <2>3 DEF Out, CollectsAll
  <2>5. QED
    BY <2>2, <2>4 DEF Out
<1>10. QED
  BY <1>2, <1>3, <1>4, <1>5, <1>6, <1>7, <1>8, <1>9 DEF AppStep

LEMMA NextKeepsOut ==
  ASSUME IInv, NEW a \in App, Out(a), [Next]_vars, [NothingSlips(a)]_vars
  PROVE  Out(a)'
<1>1. CASE UNCHANGED vars
  BY <1>1 DEF vars, Out, StaysOut, CollectsAll, Serving
<1>2. CASE Expire
  <2>1. SamePairs /\ disconnected' = disconnected /\ Keeps({"disconnect"})
    BY <1>2, ExpireKeeps DEF Expire, ghosts, Keeps
  <2>2. QED
    BY <2>1, SamePairsKeepOut
<1>3. ASSUME NEW w \in Worker, AccountStep(w)
      PROVE  Out(a)'
  <2>1. Keeps({"disconnect"}) /\ db'.access = db.access /\ disconnected' = disconnected
    BY <1>3, AccountStepFrame, OneWorkerKeeps DEF AccountFrame, AccountKinds
  <2>2. QED
    BY <2>1, NoTokenKeepsOut DEF LiveTokens
<1>4. ASSUME NEW w \in Worker, AgentStep(w)
      PROVE  Out(a)'
  <2>1. SamePairs
    BY <1>4, AgentStepKeeps
  <2>2. disconnected' = disconnected
    BY <1>4 DEF AgentStep, CreateKey, RevokeKey, Call, Stamp, Begin
  <2>3. OthersKeep(w) /\ request[w].kind # "disconnect" /\ request'[w].kind # "disconnect"
    BY <1>4 DEF AgentStep, CreateKey, RevokeKey, Call, Stamp, Begin, Take, End, Continue,
                Serving, Busy, Idle, IInv, TypeOK, OthersKeep
  <2>4. QED
    BY <2>1, <2>2, <2>3, OneWorkerKeeps, SamePairsKeepOut
<1>5. ASSUME NEW w \in Worker, AppStep(w), NothingSlips(a)
      PROVE  Out(a)'
  BY <1>5, AppStepKeepsOut
<1>6. QED
  BY <1>1, <1>2, <1>3, <1>4, <1>5 DEF Next

\* "Revoke every access token ... this client holds", for any number of requests
\* that overlap: an app that was disconnected has no token, expired or not, until
\* a code is exchanged for it, if none was issued while its tokens were being
\* deleted.  Requests of other apps do not matter.
THEOREM DisconnectedAppsStayOut ==
  ASSUME NEW a \in App
  PROVE  Spec /\ [][NothingSlips(a)]_vars => []StaysOut(a)
<1>1. Init => IInv /\ Out(a)
  BY InitKeeps DEF Init, Out, StaysOut, CollectsAll, Serving, Idle
<1>2. IInv /\ Out(a) /\ [Next]_vars /\ [NothingSlips(a)]_vars => IInv' /\ Out(a)'
  BY NextKeeps, NextKeepsOut
<1>3. Out(a) => StaysOut(a)
  BY DEF Out
<1>4. QED
  BY <1>1, <1>2, <1>3, PTL DEF Spec
=============================================================================
