----------------------------- MODULE LoginFlow ------------------------------
(***************************************************************************)
(* From registration to the authorization-code grant: POST /register,      *)
(* GET and POST /authorize, the Google callback and the code half of POST  *)
(* /token (handlers.go), the browser-binding cookie and the opportunistic  *)
(* purge (mcpoauth.go), and the client, pending and code tables.           *)
(*                                                                         *)
(* As in RefreshGrant, each action is what a handler does from one access  *)
(* to shared state to the next.  A browser sends its cookie as it is when  *)
(* the request leaves and applies Set-Cookie when the reply arrives;       *)
(* replies arrive in any order or never.  A link or a form can reach any   *)
(* browser, so whatever secret left a server may be presented by anyone.   *)
(*                                                                         *)
(* The person at a browser signs in at Google as themselves: the account a *)
(* code is minted for is named by the browser the callback comes from.     *)
(* A secret and its hash are one value, and so are a PKCE verifier and the *)
(* challenge derived from it.                                              *)
(***************************************************************************)
EXTENDS Naturals, FiniteSets, Sequences

CONSTANTS
    Browsers,        \* browsers, each with one cookie jar and one person
    Reqs,            \* requests in flight
    Clients,         \* client_ids Register can produce (bound)
    Uris,            \* redirect URIs: [scheme, host, fragment, userinfo]
    LoopbackHosts,   \* hosts isLoopbackHost accepts
    Challenges,      \* PKCE challenges
    Handles,         \* consent nonces and Google states randomToken can produce (bound)
    Binders,         \* binder values randomToken can produce (bound)
    Codes,           \* authorization codes randomToken can produce (bound)
    AllowLists,      \* values Config.AllowedRedirectHosts takes over time
    None,            \* no record, no value
    MaxTime,         \* last instant of the clock (bound)
    PendingAuthTTL, AuthCodeTTL, UnusedClientTTL, ClientTTL, PurgeInterval,
    maxBinders,      \* binders one cookie holds
    Tabs,            \* may a browser have several requests in flight
    MayFail          \* may Store calls fail

ASSUME TimesAssumption ==
    /\ {MaxTime, PendingAuthTTL, AuthCodeTTL, UnusedClientTTL, ClientTTL,
        PurgeInterval, maxBinders} \subseteq Nat \ {0}
    /\ Tabs \in BOOLEAN /\ MayFail \in BOOLEAN
ASSUME SecretsAssumption ==
    /\ Handles \cap Binders = {} /\ Handles \cap Codes = {} /\ Binders \cap Codes = {}
    /\ None \notin Handles \cup Binders \cup Codes \cup Browsers
    /\ IsFiniteSet(Binders)

VARIABLES
    clock,
    allowed,     \* Config.AllowedRedirectHosts of the running server
    lastPurge,   \* Provider.lastPurge
    clients,     \* client_id -> registration or None
    pending,     \* handle -> PendingAuth or None
    codes,       \* code -> AuthCode or None
    cookie,      \* browser -> binder cookie
    req,         \* request -> its local state
    drawn,       \* secrets randomToken has produced
    known,       \* client_ids Register has produced
    out,         \* secrets that reached some browser
    consents,    \* history: binder -> the page it was created for
    approvedBy,  \* history: binder -> browser that approved it
    mintedFor,   \* history: code -> browser and binder it was minted for
    granted      \* history: code -> requests that redeemed it

tables == <<clients, pending, codes>>
history == <<consents, approvedBy, mintedFor, granted>>
vars == <<clock, allowed, lastPurge, tables, cookie, req, drawn, known, out, history>>

(* What an authorization request and a code exchange name.                 *)
Ask == [client : Clients, uri : Uris, challenge : Challenges]

(* What the history records of a consent page.                             *)
Page == [browser : Browsers, ask : Ask, at : Nat, allowed : AllowLists, nth : Nat]

ASSUME PageAssumption == None \notin Page

(* No cookie and no row of a table is None.                                *)
ASSUME CookieAssumption == \A n \in 0..maxBinders : None \notin [1..n -> Binders]
ASSUME RowAssumption ==
    /\ None \notin [ask : Ask, binder : Binders, approved : BOOLEAN, expires : Nat]
    /\ None \notin [ask : Ask, user : Browsers, expires : Nat]

Steps == {"idle", "load", "claim", "sweep", "pend", "approve", "restate", "callback",
          "code", "extend", "renew", "redeem", "reply"}

(* The locals of a handler a later step reads; `set' and `gives' are the   *)
(* Set-Cookie and the secret a reply carries.                              *)
Idle == [pc |-> "idle", browser |-> None, cookie |-> <<>>, handle |-> None, ask |-> None,
         rec |-> None, at |-> 0, lease |-> None, set |-> None, gives |-> None]

NoCookie == [values |-> <<>>, until |-> 0]

Init ==
    /\ clock = 1 /\ lastPurge = 0
    /\ allowed \in AllowLists
    /\ clients = [c \in Clients |-> None] /\ known = {}
    /\ pending = [h \in Handles |-> None]
    /\ codes = [k \in Codes |-> None]
    /\ cookie = [b \in Browsers |-> NoCookie]
    /\ req = [r \in Reqs |-> Idle]
    /\ drawn = {} /\ out = {}
    /\ consents = [x \in Binders |-> None]
    /\ approvedBy = [x \in Binders |-> None]
    /\ mintedFor = [k \in Codes |-> None]
    /\ granted = [k \in Codes |-> <<>>]

-----------------------------------------------------------------------------
(* Local computations.  Variants named "...Slip" are plausible mistakes in *)
(* the definition that follows them; no specification uses them.           *)

isLoopbackHost(host) == host \in LoopbackHosts

ValidateRedirectURI(u) ==
    /\ u.scheme # "" /\ u.host # ""
    /\ ~u.fragment /\ ~u.userinfo
    /\ u.scheme = "https" \/ (u.scheme = "http" /\ isLoopbackHost(u.host))

checkRedirectHostPolicy(u) ==
    \/ allowed = {}
    \/ u.scheme = "http" /\ isLoopbackHost(u.host)
    \/ u.host \in allowed

(* The browser drops the cookie when its Max-Age has passed.               *)
readBinders(b) == IF clock < cookie[b].until THEN cookie[b].values ELSE <<>>

(* Slip: the cookie holds the newest flow only.                            *)
addBinderSlip(values, x) == <<x>>

(* Slip: the cookie is never cut.                                          *)
addBinderUncutSlip(values, x) == <<x>> \o values

addBinder(values, x) ==
    SubSeq(<<x>> \o values, 1, IF Len(values) < maxBinders THEN Len(values) + 1 ELSE maxBinders)

(* A cookie holds a binder at most once, for only new ones are prepended.  *)
dropBinder(values, x) ==
    LET At == {i \in 1..Len(values) : values[i] = x}
        i == CHOOSE j \in At : TRUE
    IN IF At = {} THEN values
       ELSE SubSeq(values, 1, i - 1) \o SubSeq(values, i + 1, Len(values))

(* Slip: any binding cookie will do.                                       *)
binderMatchesSlip(values, x) == values # <<>>

binderMatches(values, x) == \E i \in 1..Len(values) : values[i] = x

verifyPKCE(verifier, challenge) == verifier = challenge

(* A table without what PurgeExpired deletes as of now.                    *)
Unexpired(table, now) ==
    [k \in DOMAIN table |->
       IF table[k] # None /\ table[k].expires < now THEN None ELSE table[k]]

Become(r, q) == req' = [req EXCEPT ![r] = q]

Goto(r, pc) == Become(r, [req[r] EXCEPT !.pc = pc])

(* An answer that gives the browser nothing to keep.                       *)
Refuse(r) == Become(r, Idle)

(* An answer on its way to the browser.                                    *)
Reply(r, set, gives) ==
    Become(r, [Idle EXCEPT !.pc = "reply", !.browser = req[r].browser,
                           !.set = set, !.gives = gives])

(* A browser without Tabs waits for each reply.                            *)
Free(b) == Tabs \/ \A r \in Reqs : req[r].browser # b

Send(r, b, pc) == [Idle EXCEPT !.pc = pc, !.browser = b, !.cookie = readBinders(b)]

-----------------------------------------------------------------------------
(* Register: one write, no read.                                           *)
Register(c, uris) ==
    /\ c \notin known /\ uris # {}
    /\ \A u \in uris : ValidateRedirectURI(u) /\ checkRedirectHostPolicy(u)
    /\ known' = known \cup {c}
    /\ clients' = [clients EXCEPT ![c] = [uris |-> uris, expires |-> clock + UnusedClientTTL]]
    /\ UNCHANGED <<clock, allowed, lastPurge, pending, codes, cookie, req, drawn, out, history>>

(* GET /authorize.                                                         *)
Visit(r, b, a) ==
    /\ req[r].pc = "idle" /\ Free(b)
    /\ Become(r, [Send(r, b, "load") EXCEPT !.ask = a])
    /\ UNCHANGED <<clock, allowed, lastPurge, tables, cookie, drawn, known, out, history>>

(* Slip: the redirect URI is not compared with the registered ones.        *)
LoadClientSlip(r) ==
    LET a == req[r].ask IN
    /\ req[r].pc = "load"
    /\ IF clients[a.client] # None /\ checkRedirectHostPolicy(a.uri)
       THEN Goto(r, "claim") ELSE Refuse(r)
    /\ UNCHANGED <<clock, allowed, lastPurge, tables, cookie, drawn, known, out, history>>

(* GetClient; an expired registration that is still there is accepted.     *)
LoadClient(r) ==
    LET a == req[r].ask
        client == clients[a.client]
    IN
    /\ req[r].pc = "load"
    /\ IF client # None /\ a.uri \in client.uris /\ checkRedirectHostPolicy(a.uri)
       THEN Goto(r, "claim") ELSE Refuse(r)
    /\ UNCHANGED <<clock, allowed, lastPurge, tables, cookie, drawn, known, out, history>>

(* maybePurge claims its slot under the mutex; a server that has not       *)
(* purged since it started is always due.                                  *)
maybePurge(r) ==
    LET due == lastPurge = 0 \/ clock - lastPurge >= PurgeInterval IN
    /\ req[r].pc = "claim"
    /\ lastPurge' = IF due THEN clock ELSE lastPurge
    /\ Goto(r, IF due THEN "sweep" ELSE "pend")
    /\ UNCHANGED <<clock, allowed, tables, cookie, drawn, known, out, history>>

PurgeExpired ==
    /\ lastPurge' = clock
    /\ clients' = Unexpired(clients, clock)
    /\ pending' = Unexpired(pending, clock)
    /\ codes' = Unexpired(codes, clock)

Sweep(r) ==
    /\ req[r].pc = "sweep"
    /\ PurgeExpired
    /\ Goto(r, "pend")
    /\ UNCHANGED <<clock, allowed, cookie, drawn, known, out, history>>

(* The unapproved record is stored under the nonce of the consent page.    *)
SaveConsent(r) ==
    LET q == req[r] IN
    /\ q.pc = "pend"
    /\ \/ \E h \in Handles \ drawn, x \in Binders \ drawn :
            /\ drawn' = drawn \cup {h, x}
            /\ pending' = [pending EXCEPT ![h] =
                 [ask |-> q.ask, binder |-> x, approved |-> FALSE,
                  expires |-> clock + PendingAuthTTL]]
            /\ Reply(r, addBinder(q.cookie, x), h)
            /\ consents' = [consents EXCEPT ![x] =
                 [browser |-> q.browser, ask |-> q.ask, at |-> clock, allowed |-> allowed,
                  nth |-> Cardinality({y \in Binders : consents[y] # None}) + 1]]
       \/ /\ Handles \subseteq drawn \/ Binders \subseteq drawn
          /\ Refuse(r)
          /\ UNCHANGED <<drawn, pending, consents>>
    /\ UNCHANGED <<clock, allowed, lastPurge, clients, codes, cookie, known, out,
                   approvedBy, mintedFor, granted>>

(* POST /authorize.                                                        *)
Post(r, b, h) ==
    /\ req[r].pc = "idle" /\ Free(b)
    /\ Become(r, [Send(r, b, "approve") EXCEPT !.handle = h])
    /\ UNCHANGED <<clock, allowed, lastPurge, tables, cookie, drawn, known, out, history>>

(* Slip: a SELECT without the DELETE.                                      *)
ConsumePendingAuthSlip(h) == pending' = pending

ConsumePendingAuth(h) == pending' = [pending EXCEPT ![h] = None]

(* The nonce is burned whether or not the rest succeeds.                   *)
ConsumeConsent(r) ==
    LET q == req[r]
        p == pending[q.handle]
    IN
    /\ q.pc = "approve"
    /\ ConsumePendingAuth(q.handle)
    /\ IF p = None THEN Refuse(r)
       ELSE IF p.approved \/ clock >= p.expires THEN Refuse(r)
       ELSE IF ~binderMatches(q.cookie, p.binder)
       THEN Reply(r, dropBinder(q.cookie, p.binder), None)
       ELSE Become(r, [q EXCEPT !.pc = "restate", !.rec = p])
    /\ UNCHANGED <<clock, allowed, lastPurge, clients, codes, cookie, drawn, known, out, history>>

(* The record comes back approved, under the state handed to Google, with  *)
(* a new deadline; the cookie is not renewed.                              *)
SaveApproved(r) ==
    LET q == req[r] IN
    /\ q.pc = "restate"
    /\ \/ \E h \in Handles \ drawn :
            /\ drawn' = drawn \cup {h}
            /\ pending' = [pending EXCEPT ![h] =
                 [q.rec EXCEPT !.approved = TRUE, !.expires = clock + PendingAuthTTL]]
            /\ Reply(r, None, h)
            /\ approvedBy' = [approvedBy EXCEPT ![q.rec.binder] = q.browser]
       \/ /\ Handles \subseteq drawn
          /\ Refuse(r)
          /\ UNCHANGED <<drawn, pending, approvedBy>>
    /\ UNCHANGED <<clock, allowed, lastPurge, clients, codes, cookie, known, out,
                   consents, mintedFor, granted>>

(* Google sends the browser to the callback.                               *)
Return(r, b, h) ==
    /\ req[r].pc = "idle" /\ Free(b)
    /\ Become(r, [Send(r, b, "callback") EXCEPT !.handle = h])
    /\ UNCHANGED <<clock, allowed, lastPurge, tables, cookie, drawn, known, out, history>>

(* The state is burned whatever happens.  The login at Google may have     *)
(* failed, or the account may be nobody's: no code then.                   *)
ConsumeState(r) ==
    LET q == req[r]
        p == pending[q.handle]
        kept == dropBinder(q.cookie, p.binder)
        Accepted == p.approved /\ binderMatches(q.cookie, p.binder) /\ clock < p.expires
    IN
    /\ q.pc = "callback"
    /\ ConsumePendingAuth(q.handle)
    /\ \/ p = None /\ Refuse(r)
       \/ p # None /\ Reply(r, kept, None)
       \/ /\ p # None /\ Accepted
          /\ Become(r, [q EXCEPT !.pc = "code", !.rec = p, !.set = kept])
    /\ UNCHANGED <<clock, allowed, lastPurge, clients, codes, cookie, drawn, known, out, history>>

SaveCode(r) ==
    LET q == req[r] IN
    /\ q.pc = "code"
    /\ \/ \E k \in Codes \ drawn :
            /\ drawn' = drawn \cup {k}
            /\ codes' = [codes EXCEPT ![k] =
                 [ask |-> q.rec.ask, user |-> q.browser, expires |-> clock + AuthCodeTTL]]
            /\ mintedFor' = [mintedFor EXCEPT ![k] = [browser |-> q.browser, binder |-> q.rec.binder]]
            /\ Become(r, [q EXCEPT !.pc = "extend", !.at = clock, !.gives = k])
       \/ /\ Codes \subseteq drawn
          /\ Reply(r, q.set, None)
          /\ UNCHANGED <<drawn, codes, mintedFor>>
    /\ UNCHANGED <<clock, allowed, lastPurge, clients, pending, cookie, known, out,
                   consents, approvedBy, granted>>

(* extendClient reads the registration ...                                 *)
ExtendRead(r) ==
    LET q == req[r]
        c == q.rec.ask.client
        Short == clients[c] # None /\ clients[c].expires < q.at + ClientTTL
    IN
    /\ q.pc = "extend"
    /\ IF Short THEN Become(r, [q EXCEPT !.pc = "renew", !.lease = clients[c]])
                ELSE Reply(r, q.set, q.gives)
    /\ UNCHANGED <<clock, allowed, lastPurge, tables, cookie, drawn, known, out, history>>

(* ... and writes it back with a new expiry.                               *)
ExtendSave(r) ==
    LET q == req[r]
        c == q.rec.ask.client
    IN
    /\ q.pc = "renew"
    /\ clients' = [clients EXCEPT ![c] = [q.lease EXCEPT !.expires = q.at + ClientTTL]]
    /\ Reply(r, q.set, q.gives)
    /\ UNCHANGED <<clock, allowed, lastPurge, pending, codes, cookie, drawn, known, out, history>>

(* POST /token with grant_type=authorization_code.                         *)
Exchange(r, k, a) ==
    /\ req[r].pc = "idle"
    /\ Become(r, [Idle EXCEPT !.pc = "redeem", !.handle = k, !.ask = a])
    /\ UNCHANGED <<clock, allowed, lastPurge, tables, cookie, drawn, known, out, history>>

(* Slip: a code redeemed with the wrong redirect URI or verifier passes.   *)
RedeemableSlip(ac, a) == ac # None /\ clock < ac.expires /\ ac.ask.client = a.client

Redeemable(ac, a) ==
    /\ ac # None
    /\ clock < ac.expires
    /\ ac.ask.client = a.client /\ ac.ask.uri = a.uri
    /\ verifyPKCE(a.challenge, ac.ask.challenge)

(* ConsumeAuthCode; a code that passes goes to issueTokenPair              *)
(* (RefreshGrant's Login).                                                 *)
Redeem(r) ==
    LET q == req[r] IN
    /\ q.pc = "redeem"
    /\ codes' = [codes EXCEPT ![q.handle] = None]
    /\ granted' = IF Redeemable(codes[q.handle], q.ask)
                  THEN [granted EXCEPT ![q.handle] = Append(@, q.ask)] ELSE granted
    /\ Refuse(r)
    /\ UNCHANGED <<clock, allowed, lastPurge, clients, pending, cookie, drawn, known, out,
                   consents, approvedBy, mintedFor>>

(* A Store call that fails.  Housekeeping errors are ignored, the others   *)
(* end the request; the callback's error still carries its Set-Cookie.     *)
(* A call that fails after its effect looks like the next one failing, or  *)
(* like a lost reply.                                                      *)
StoreFault(r) ==
    LET q == req[r] IN
    /\ MayFail
    /\ \/ q.pc \in {"load", "pend", "approve", "restate", "callback", "redeem"} /\ Refuse(r)
       \/ q.pc = "sweep" /\ Goto(r, "pend")
       \/ q.pc = "code" /\ Reply(r, q.set, None)
       \/ q.pc \in {"extend", "renew"} /\ Reply(r, q.set, q.gives)
    /\ UNCHANGED <<clock, allowed, lastPurge, tables, cookie, drawn, known, out, history>>

-----------------------------------------------------------------------------
(* The browser and the environment.                                        *)

(* The reply arrives: an empty cookie is deleted, any other is kept for    *)
(* PendingAuthTTL from now.                                                *)
Receive(r) ==
    LET q == req[r] IN
    /\ q.pc = "reply"
    /\ cookie' = IF q.set = None THEN cookie
                 ELSE IF q.set = <<>> THEN [cookie EXCEPT ![q.browser] = NoCookie]
                 ELSE [cookie EXCEPT ![q.browser] =
                         [values |-> q.set, until |-> clock + PendingAuthTTL]]
    /\ out' = out \cup ({q.gives} \ {None})
    /\ Refuse(r)
    /\ UNCHANGED <<clock, allowed, lastPurge, tables, drawn, known, history>>

(* The reply is lost.                                                      *)
Lose(r) ==
    /\ req[r].pc = "reply"
    /\ Refuse(r)
    /\ UNCHANGED <<clock, allowed, lastPurge, tables, cookie, drawn, known, out, history>>

(* The application's ticker calls Provider.PurgeExpired.                   *)
Ticker ==
    /\ PurgeExpired
    /\ UNCHANGED <<clock, allowed, cookie, req, drawn, known, out, history>>

(* The server is restarted, perhaps with another AllowedRedirectHosts.     *)
Restart(hosts) ==
    /\ allowed' = hosts /\ lastPurge' = 0
    /\ req' = [r \in Reqs |-> Idle]
    /\ UNCHANGED <<clock, tables, cookie, drawn, known, out, history>>

Tick ==
    /\ clock < MaxTime
    /\ clock' = clock + 1
    /\ UNCHANGED <<allowed, lastPurge, tables, cookie, req, drawn, known, out, history>>

Handle(r) ==
    \/ LoadClient(r) \/ maybePurge(r) \/ Sweep(r) \/ SaveConsent(r)
    \/ ConsumeConsent(r) \/ SaveApproved(r)
    \/ ConsumeState(r) \/ SaveCode(r) \/ ExtendRead(r) \/ ExtendSave(r)
    \/ Redeem(r)

Next ==
    \/ \E c \in Clients, uris \in SUBSET Uris : Register(c, uris)
    \/ \E r \in Reqs :
         \/ \E b \in Browsers, a \in Ask : Visit(r, b, a)
         \/ \E b \in Browsers, h \in out \cap Handles : Post(r, b, h) \/ Return(r, b, h)
         \/ \E k \in out \cap Codes, a \in Ask : Exchange(r, k, a)
         \/ Handle(r) \/ StoreFault(r) \/ Receive(r) \/ Lose(r)
    \/ Ticker
    \/ \E hosts \in AllowLists : Restart(hosts)
    \/ Tick

Spec == Init /\ [][Next]_vars

-----------------------------------------------------------------------------
(* Properties.                                                             *)

(* The cookie never holds more than maxBinders binders, and the variables  *)
(* have their types.                                                       *)
TypeOK ==
    /\ clock \in Nat /\ lastPurge \in Nat /\ allowed \in AllowLists
    /\ clients \in [Clients -> {None} \cup [uris : SUBSET Uris, expires : Nat]]
    /\ pending \in [Handles -> {None} \cup [ask : Ask, binder : Binders,
                                            approved : BOOLEAN, expires : Nat]]
    /\ codes \in [Codes -> {None} \cup [ask : Ask, user : Browsers, expires : Nat]]
    /\ \A b \in Browsers : /\ cookie[b].values \in Seq(Binders)
                           /\ Len(cookie[b].values) <= maxBinders
                           /\ cookie[b].until \in Nat
    /\ \A r \in Reqs : /\ req[r].pc \in Steps
                       /\ req[r].browser \in Browsers \cup {None}
                       /\ req[r].cookie \in Seq(Binders)
                       /\ req[r].handle \in Handles \cup Codes \cup {None}
                       /\ req[r].ask \in Ask \cup {None}
                       /\ req[r].gives \in Handles \cup Codes \cup {None}
    /\ drawn \subseteq Handles \cup Binders \cup Codes
    /\ out \subseteq drawn /\ known \subseteq Clients

(* A code for a person's account comes only out of a flow that this        *)
(* person's browser opened and approved, whoever else holds its links.     *)
CodeStaysWithItsBrowser ==
    \A k \in Codes : mintedFor[k] # None =>
      LET x == mintedFor[k].binder IN
      /\ consents[x] # None /\ consents[x].browser = mintedFor[k].browser
      /\ approvedBy[x] = mintedFor[k].browser

(* One consent page gives at most one login, whatever is retried or        *)
(* replayed: its nonce, its state and its code are each good for one use.  *)
OneLoginPerConsent ==
    /\ \A j, k \in Codes : mintedFor[j] # None /\ mintedFor[k] # None
                             /\ mintedFor[j].binder = mintedFor[k].binder => j = k
    /\ \A k \in Codes : Len(granted[k]) <= 1

(* Tokens are granted only to whoever presents the client, the redirect    *)
(* URI and the verifier of the request the user saw on the consent page.   *)
GrantMatchesConsent ==
    \A k \in Codes : \A i \in 1..Len(granted[k]) :
      granted[k][i] = consents[mintedFor[k].binder].ask

(* A code leaves only for an https or loopback redirect URI without        *)
(* fragment or userinfo, at a host the deployment allowed when the user    *)
(* was asked.                                                              *)
CodeLeavesForSafeURI ==
    \A k \in Codes : mintedFor[k] # None =>
      LET page == consents[mintedFor[k].binder]
          u == page.ask.uri
      IN /\ u.scheme = "https" \/ (u.scheme = "http" /\ u.host \in LoopbackHosts)
         /\ ~u.fragment /\ ~u.userinfo
         /\ page.allowed = {} \/ u.host \in page.allowed \/ u.scheme = "http"

(* While the time a consent page gave its user runs, the browser that was  *)
(* shown it keeps its binder, unless maxBinders newer flows pushed it out: *)
(* a second flow does not invalidate the first (addBinder, dropBinder).    *)
FlowsKeepTheirBinders ==
    \A h \in out \cap Handles : pending[h] # None =>
      LET x == pending[h].binder
          b == consents[x].browser
          Newer == {y \in Binders : consents[y] # None /\ consents[y].browser = b
                                      /\ consents[y].nth > consents[x].nth}
      IN \/ clock >= consents[x].at + PendingAuthTTL
         \/ Cardinality(Newer) >= maxBinders
         \/ binderMatches(readBinders(b), x)
=============================================================================
