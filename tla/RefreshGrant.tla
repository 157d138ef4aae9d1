---------------------------- MODULE RefreshGrant ----------------------------
(***************************************************************************)
(* Refresh-token rotation: the refresh_token grant of POST /token          *)
(* (handlers.go), the in-process grace cache of each instance (grace.go)   *)
(* and the refresh-token half of the Store (memstore, pgstore).            *)
(*                                                                         *)
(* A request is a process that runs on one instance (node) of the          *)
(* provider.  Each action is what the handler does from one access to      *)
(* shared state (a Store call, the grace mutex) to the next, so requests   *)
(* interleave exactly where the code lets them.  Answering a request is    *)
(* returning to "idle"; the answers that matter are the 200s, recorded in  *)
(* the history variable `issued'.                                          *)
(*                                                                         *)
(* A raw token and its hash are one value: HashSecret is assumed           *)
(* injective, and the store is only ever asked about hashes of tokens.     *)
(***************************************************************************)
EXTENDS Naturals, FiniteSets

CONSTANTS
    Nodes,           \* instances of the provider, each with its own grace cache
    Reqs,            \* requests in flight at the token endpoint, and logouts
    Clients,         \* registered client_ids
    Users,           \* application users
    Leavers,         \* users whose sessions the application may revoke (bound)
    Tokens,          \* refresh tokens randomToken can produce (bound)
    Families,        \* family IDs authorizationCodeGrant can produce (bound)
    LegacyTokens,    \* tokens of rows without a FamilyID, written by older code
    None,            \* no token, no family, no row
    MaxTime,         \* last instant of the clock (bound)
    Skew,            \* how far each node's clock is ahead of the slowest one
    GracePeriod,     \* Config.RefreshGracePeriod, 0 when disabled
    RefreshTTL,      \* Config.RefreshTokenTTL
    AbsoluteTTL,     \* Config.RefreshTokenAbsoluteTTL
    MaxGraceEntries, \* maxGraceEntries
    Faults,          \* Store calls that may fail: {"get", "consume", "save",
                     \* "revoke", "undo"}, the last two being the revocation of
                     \* a judged token's family and that of a dead insert's
    MayCrash,        \* may an instance be restarted
    AtomicRevoke     \* TRUE: revoking takes the store's mutex (memstore);
                     \* FALSE: one DELETE at READ COMMITTED (pgstore)

(* The first use of a familyless row derives its family from its hash.     *)
legacyFamilyID(t) == <<"legacy", t>>

FamilyIDs == Families \cup {legacyFamilyID(t) : t \in LegacyTokens}

ASSUME TokensAssumption == LegacyTokens \subseteq Tokens /\ None \notin Tokens
ASSUME LeaversAssumption == Leavers \subseteq Users
ASSUME FamiliesAssumption ==
    /\ None \notin FamilyIDs
    /\ \A t \in LegacyTokens : legacyFamilyID(t) \notin Families
ASSUME TimesAssumption ==
    /\ MaxTime \in Nat \ {0} /\ Skew \in [Nodes -> Nat]
    /\ GracePeriod \in Nat /\ RefreshTTL \in Nat \ {0} /\ AbsoluteTTL \in Nat \ {0}
ASSUME CacheAssumption == MaxGraceEntries \in Nat \ {0}
ASSUME FlavourAssumption ==
    /\ Faults \subseteq {"get", "consume", "save", "revoke", "undo"}
    /\ MayCrash \in BOOLEAN /\ AtomicRevoke \in BOOLEAN

(* A row of the refresh-token table.  Time 0 is Go's zero time.            *)
Row == [client : Clients, user : Users, family : FamilyIDs \cup {None},
        familyCreated : Nat, familyExpires : Nat, expires : Nat,
        created : Nat, consumed : Nat]

ASSUME RowAssumption == None \notin Row

VARIABLES
    clock,     \* real time
    rows,      \* the refresh-token table: token -> Row or None
    grace,     \* node -> predecessor -> remembered successor (None: none)
    req,       \* request -> its local state
    minted,    \* tokens randomToken has produced
    founded,   \* family IDs authorizationCodeGrant has produced
    issued,    \* history: tokens that left a server in a 200
    revoked,   \* history: families the store was told to delete
    lineage,   \* history: token -> its predecessor and family
    spentAt,   \* history: token -> now of the request that rotated it (0: none)
    origin     \* history: family -> now and user of the login that founded it

program == <<clock, rows, grace, req, minted, founded>>
history == <<issued, revoked, lineage, spentAt, origin>>
vars == <<program, history>>

Steps == {"idle", "bind", "consume", "recall", "peek", "revoke", "deleting",
          "mint", "save", "reread", "undo", "remember", "logout"}

(* The locals of refreshTokenGrant and issueTokenPair a later step reads.  *)
Idle == [pc |-> "idle", node |-> None, tok |-> None, client |-> None, user |-> None,
         now |-> 0, family |-> None, start |-> 0, succ |-> None, at |-> 0, victims |-> {}]

NoEntry == [succ |-> None, until |-> 0]

LegacyRows == [client : Clients, user : Users, family : {None},
               familyCreated : {0, 1}, familyExpires : {0, 1 + AbsoluteTTL},
               expires : {1 + RefreshTTL}, created : {0, 1}, consumed : {0}]

Init ==
    /\ clock = 1
    /\ rows \in {f \in [Tokens -> LegacyRows \cup {None}] :
                   \A t \in Tokens : t \in LegacyTokens <=> f[t] # None}
    /\ grace = [n \in Nodes |-> [t \in Tokens |-> NoEntry]]
    /\ req = [r \in Reqs |-> Idle]
    /\ minted = LegacyTokens /\ founded = {}
    /\ issued = LegacyTokens /\ revoked = {}
    /\ lineage = [t \in Tokens |-> [parent |-> None,
                    family |-> IF t \in LegacyTokens THEN legacyFamilyID(t) ELSE None]]
    /\ spentAt = [t \in Tokens |-> 0]
    /\ origin = [f \in Families |-> [at |-> 0, user |-> None]]

-----------------------------------------------------------------------------
(* Local computations.                                                     *)

Now(n) == clock + Skew[n]

(* Variants named "...Slip" are plausible mistakes in the definition that  *)
(* follows them; no specification uses them.  They record which property   *)
(* notices which mistake.                                                  *)

(* Slip: a familyless row has no family to revoke.                         *)
familyToRevokeSlip(row, t) == row.family

familyToRevoke(row, t) == IF row.family # None THEN row.family ELSE legacyFamilyID(t)

(* Slip: the cap is measured from the token, not from the login.           *)
familyStartSlip(row) == row.created

familyStart(row) == IF row.familyCreated # 0 THEN row.familyCreated ELSE row.created

PastAbsoluteTTL(row, now) == familyStart(row) = 0 \/ now >= familyStart(row) + AbsoluteTTL

(* The part of graceApplies that needs no shared state.                    *)
GraceWindowOpen(row, client, now) ==
    /\ GracePeriod > 0
    /\ now <= row.consumed + GracePeriod
    /\ row.client = client

(* Slip: every rotation starts the family's lifetime again.                *)
TokenRowSlip(q, now) ==
    [client |-> q.client, user |-> q.user, family |-> q.family,
     familyCreated |-> now, familyExpires |-> now + AbsoluteTTL,
     expires |-> now + RefreshTTL, created |-> now, consumed |-> 0]

TokenRow(q, now) ==
    [client |-> q.client, user |-> q.user, family |-> q.family,
     familyCreated |-> q.start, familyExpires |-> q.start + AbsoluteTTL,
     expires |-> IF q.start + AbsoluteTTL < now + RefreshTTL
                 THEN q.start + AbsoluteTTL ELSE now + RefreshTTL,
     created |-> now, consumed |-> 0]

FamilyRows(f) == {t \in Tokens : rows[t] # None /\ rows[t].family = f}

Without(T) == [t \in Tokens |-> IF t \in T THEN None ELSE rows[t]]

UserRows(u) == {t \in Tokens : rows[t] # None /\ rows[t].user = u}

Locked(t) == \E r \in Reqs : t \in req[r].victims

Become(r, q) == req' = [req EXCEPT ![r] = q]

Answer(r) == Become(r, Idle)

Goto(r, pc) == Become(r, [req[r] EXCEPT !.pc = pc])

(* A Store call that fails, leaving the table alone: the answer is a 500.  *)
Fails(r, call) ==
    /\ call \in Faults
    /\ Answer(r)
    /\ UNCHANGED <<clock, rows, grace, minted, founded, history>>

-----------------------------------------------------------------------------
(* The actions of a request.                                               *)

(* The tail of authorizationCodeGrant: a login enters issueTokenPair with  *)
(* a new family and no predecessor.                                        *)
Login(r, n, c, u) ==
    /\ req[r].pc = "idle"
    /\ \E f \in Families \ founded :
         /\ founded' = founded \cup {f}
         /\ origin' = [origin EXCEPT ![f] = [at |-> Now(n), user |-> u]]
         /\ Become(r, [Idle EXCEPT !.pc = "mint", !.node = n, !.client = c, !.user = u,
                                   !.family = f, !.start = Now(n)])
    /\ UNCHANGED <<clock, rows, grace, minted, issued, revoked, lineage, spentAt>>

(* refreshTokenGrant is called with a token that some server handed out:   *)
(* by its holder, by a retrying holder, or by whoever copied it.           *)
Present(r, n, t, c) ==
    /\ req[r].pc = "idle"
    /\ t \in issued
    /\ Become(r, [Idle EXCEPT !.pc = "bind", !.node = n, !.tok = t, !.client = c,
                              !.now = Now(n)])
    /\ UNCHANGED <<clock, rows, grace, minted, founded, history>>

(* Slip: the token is consumed whoever presents it.                        *)
BindSlip(r) ==
    /\ req[r].pc = "bind"
    /\ Goto(r, "consume")
    /\ UNCHANGED <<clock, rows, grace, minted, founded, history>>

(* The client-binding pre-check.                                           *)
Bind(r) ==
    /\ req[r].pc = "bind"
    /\ LET row == rows[req[r].tok] IN
         IF row # None /\ row.client # req[r].client THEN Answer(r) ELSE Goto(r, "consume")
    /\ UNCHANGED <<clock, rows, grace, minted, founded, history>>

(* Slip: UPDATE without AND consumed_at IS NULL.                           *)
StampAgainSlip(t, now) ==
    /\ rows' = IF rows[t] # None THEN [rows EXCEPT ![t].consumed = now] ELSE rows
    /\ spentAt' = IF rows[t] # None /\ rows[t].consumed = 0
                  THEN [spentAt EXCEPT ![t] = now] ELSE spentAt

(* Slip: the stamp is not written.                                         *)
StampNothingSlip(t, now) == UNCHANGED <<rows, spentAt>>

(* ConsumeRefreshToken's effect on the table: stamp once, never re-stamp.  *)
Stamp(t, now) ==
    /\ rows' = IF rows[t] # None /\ rows[t].consumed = 0
               THEN [rows EXCEPT ![t].consumed = now] ELSE rows
    /\ spentAt' = IF rows[t] # None /\ rows[t].consumed = 0
                  THEN [spentAt EXCEPT ![t] = now] ELSE spentAt

(* What the handler does next with the row as it was before the stamp.     *)
Judge(q, row) ==
    CASE row = None -> Idle                                  \* unknown token
      [] row # None /\ row.consumed # 0 ->                   \* replay
           [q EXCEPT !.pc = IF GraceWindowOpen(row, q.client, q.now)
                            THEN "recall" ELSE "revoke",
                     !.family = familyToRevoke(row, q.tok)]
      [] row # None /\ row.consumed = 0 ->                   \* first use
           IF q.now >= row.expires THEN Idle
           ELSE IF PastAbsoluteTTL(row, q.now)
           THEN [q EXCEPT !.pc = "revoke", !.family = familyToRevoke(row, q.tok)]
           ELSE IF row.client # q.client THEN Idle
           ELSE [q EXCEPT !.pc = "mint", !.user = row.user, !.start = familyStart(row),
                          !.family = familyToRevoke(row, q.tok)]

Consume(r) ==
    LET q == req[r] IN
    /\ q.pc = "consume"
    /\ ~Locked(q.tok)
    /\ Stamp(q.tok, q.now)
    /\ Become(r, Judge(q, rows[q.tok]))
    /\ UNCHANGED <<clock, grace, minted, founded, issued, revoked, lineage, origin>>

(* recallSuccessor, under graceMu.  An absent entry is answered "retry".   *)
Recall(r) ==
    LET n == req[r].node
        t == req[r].tok
        e == grace[n][t]
    IN
    /\ req[r].pc = "recall"
    /\ \/ e.succ = None /\ Answer(r) /\ grace' = grace
       \/ /\ e.succ # None /\ req[r].now > e.until
          /\ grace' = [grace EXCEPT ![n][t] = NoEntry]
          /\ Answer(r)
       \/ /\ e.succ # None /\ req[r].now <= e.until
          /\ Become(r, [req[r] EXCEPT !.pc = "peek", !.succ = e.succ])
          /\ grace' = grace
    /\ UNCHANGED <<clock, rows, minted, founded, history>>

(* The family must not have moved on past the remembered successor.        *)
StillUnused(next, now) == next # None /\ next.consumed = 0 /\ now < next.expires

(* The end of graceApplies reads the successor; a 200 repeats it.          *)
Peek(r) ==
    /\ req[r].pc = "peek"
    /\ IF StillUnused(rows[req[r].succ], req[r].now) THEN Answer(r) ELSE Goto(r, "revoke")
    /\ UNCHANGED <<clock, rows, grace, minted, founded, history>>

(* graceApplies reads a Store error as "no grace".                         *)
PeekFails(r) ==
    /\ req[r].pc = "peek" /\ "get" \in Faults
    /\ Goto(r, "revoke")
    /\ UNCHANGED <<clock, rows, grace, minted, founded, history>>

(* Slip: the successor is remembered before it is persisted.               *)
MintSlip(r) ==
    /\ req[r].pc = "mint"
    /\ \E s \in Tokens \ minted :
         /\ minted' = minted \cup {s}
         /\ lineage' = [lineage EXCEPT ![s] = [parent |-> req[r].tok, family |-> req[r].family]]
         /\ Become(r, [req[r] EXCEPT !.pc = "save", !.succ = s, !.at = Now(req[r].node)])
         /\ grace' = IF req[r].tok = None THEN grace ELSE
              [grace EXCEPT ![req[r].node][req[r].tok] =
                 [succ |-> s, until |-> Now(req[r].node) + GracePeriod]]
    /\ UNCHANGED <<clock, rows, founded, issued, revoked, spentAt, origin>>

(* issueTokenPair reads the clock again and draws the successor.  Running  *)
(* out of Tokens stands for randomToken's error.                           *)
Mint(r) ==
    /\ req[r].pc = "mint"
    /\ \/ \E s \in Tokens \ minted :
            /\ minted' = minted \cup {s}
            /\ lineage' = [lineage EXCEPT ![s] = [parent |-> req[r].tok, family |-> req[r].family]]
            /\ Become(r, [req[r] EXCEPT !.pc = "save", !.succ = s, !.at = Now(req[r].node)])
       \/ /\ Tokens = minted
          /\ Answer(r)
          /\ UNCHANGED <<minted, lineage>>
    /\ UNCHANGED <<clock, rows, grace, founded, issued, revoked, spentAt, origin>>

(* SaveRefreshToken; a login is answered as soon as it returns.            *)
Save(r) ==
    LET q == req[r] IN
    /\ q.pc = "save"
    /\ rows' = [rows EXCEPT ![q.succ] = TokenRow(q, q.at)]
    /\ \/ q.tok = None /\ Answer(r) /\ issued' = issued \cup {q.succ}
       \/ q.tok # None /\ Goto(r, "reread") /\ issued' = issued
    /\ UNCHANGED <<clock, grace, minted, founded, revoked, lineage, spentAt, origin>>

(* Slip: the rotation is answered without the re-read.                     *)
RereadSlip(r) ==
    /\ req[r].pc = "reread"
    /\ Goto(r, "remember")
    /\ UNCHANGED <<clock, rows, grace, minted, founded, history>>

(* The predecessor is read again after the write.                          *)
Reread(r) ==
    /\ req[r].pc = "reread"
    /\ Goto(r, IF rows[req[r].tok] # None THEN "remember" ELSE "undo")
    /\ UNCHANGED <<clock, rows, grace, minted, founded, history>>

(* Slip: the cache is neither swept nor trimmed.                           *)
RememberSlip(r) ==
    LET q == req[r] IN
    /\ q.pc = "remember"
    /\ grace' = [grace EXCEPT ![q.node][q.tok] = [succ |-> q.succ, until |-> q.at + GracePeriod]]
    /\ issued' = issued \cup {q.succ}
    /\ Answer(r)
    /\ UNCHANGED <<clock, rows, minted, founded, revoked, lineage, spentAt, origin>>

(* The entries rememberSuccessor may keep: when the cache is full it drops *)
(* the expired ones, and then any others until there is room.              *)
Survivors(entries, now) ==
    LET Held == {t \in Tokens : entries[t].succ # None}
        Kept == IF Cardinality(Held) >= MaxGraceEntries
                THEN {t \in Held : now <= entries[t].until} ELSE Held
        Excess == IF Cardinality(Kept) >= MaxGraceEntries
                  THEN Cardinality(Kept) - (MaxGraceEntries - 1) ELSE 0
    IN {S \in SUBSET Kept : Cardinality(Kept \ S) = Excess}

(* rememberSuccessor, then the 200.                                        *)
Remember(r) ==
    LET q == req[r] IN
    /\ q.pc = "remember"
    /\ \/ GracePeriod = 0 /\ grace' = grace
       \/ /\ GracePeriod > 0
          /\ \E S \in Survivors(grace[q.node], q.at) :
               grace' = [grace EXCEPT ![q.node] =
                 [t \in Tokens |-> IF t = q.tok
                                   THEN [succ |-> q.succ, until |-> q.at + GracePeriod]
                                   ELSE IF t \in S THEN grace[q.node][t] ELSE NoEntry]]
    /\ issued' = issued \cup {q.succ}
    /\ Answer(r)
    /\ UNCHANGED <<clock, rows, minted, founded, revoked, lineage, spentAt, origin>>

(* Slip: only the replayed row is deleted.                                 *)
RevokeSlip(r) ==
    /\ AtomicRevoke /\ req[r].pc \in {"revoke", "undo"}
    /\ rows' = Without({req[r].tok})
    /\ revoked' = revoked \cup {req[r].family}
    /\ Answer(r)
    /\ UNCHANGED <<clock, grace, minted, founded, issued, lineage, spentAt, origin>>

(* RevokeRefreshTokenFamily under the store's mutex, for reuse, for the    *)
(* absolute lifetime, and to undo an insert into a dead family.            *)
Revoke(r) ==
    LET f == req[r].family IN
    /\ AtomicRevoke /\ req[r].pc \in {"revoke", "undo"}
    /\ rows' = Without(FamilyRows(f))
    /\ revoked' = revoked \cup {f}
    /\ Answer(r)
    /\ UNCHANGED <<clock, grace, minted, founded, issued, lineage, spentAt, origin>>

(* The same as one DELETE at READ COMMITTED: the rows it will delete are   *)
(* those its snapshot sees, and they stay visible until it commits.        *)
(* PostgreSQL locks them one by one as it meets them; here they are all    *)
(* locked at the snapshot, and two DELETEs of one row do not wait for each *)
(* other.  An UPDATE that slips in before its row is locked changes        *)
(* nothing that the snapshot looked at, so it might as well have come      *)
(* before the snapshot, and deleting a row twice is deleting it once.      *)
RevokeScan(r) ==
    /\ ~AtomicRevoke /\ req[r].pc \in {"revoke", "undo"}
    /\ Become(r, [req[r] EXCEPT !.pc = "deleting", !.victims = FamilyRows(req[r].family)])
    /\ UNCHANGED <<clock, rows, grace, minted, founded, history>>

(* Slip: a DELETE that meets another one gives up its locks and starts     *)
(* again.                                                                  *)
RevokeCommitSlip(r) ==
    LET Met == \E o \in Reqs \ {r} : req[o].victims \cap req[r].victims # {} IN
    /\ req[r].pc = "deleting"
    /\ \/ /\ Met /\ Become(r, [req[r] EXCEPT !.pc = "revoke", !.victims = {}])
          /\ UNCHANGED <<rows, revoked>>
       \/ /\ ~Met /\ Answer(r)
          /\ rows' = Without(req[r].victims)
          /\ revoked' = revoked \cup {req[r].family}
    /\ UNCHANGED <<clock, grace, minted, founded, issued, lineage, spentAt, origin>>

RevokeCommit(r) ==
    /\ req[r].pc = "deleting"
    /\ rows' = Without(req[r].victims)
    /\ revoked' = revoked \cup {req[r].family}
    /\ Answer(r)
    /\ UNCHANGED <<clock, grace, minted, founded, issued, lineage, spentAt, origin>>

(* RevokeRefreshTokensForUser is such a DELETE too, of every row of a      *)
(* user; the application, not a request, waits for it.                     *)
RevokeUserScan(r, n, u) ==
    /\ ~AtomicRevoke /\ req[r].pc = "idle"
    /\ UserRows(u) # {}
    /\ Become(r, [Idle EXCEPT !.pc = "logout", !.node = n, !.user = u,
                              !.victims = UserRows(u)])
    /\ UNCHANGED <<clock, rows, grace, minted, founded, history>>

RevokeUserCommit(r) ==
    /\ req[r].pc = "logout"
    /\ rows' = Without(req[r].victims)
    /\ revoked' = revoked \cup {f \in FamilyIDs : \E t \in req[r].victims : lineage[t].family = f}
    /\ Answer(r)
    /\ UNCHANGED <<clock, grace, minted, founded, issued, lineage, spentAt, origin>>

(* A Store call that fails: before its effect, or after it (the reply of   *)
(* the database is lost).  Either way the handler answers an error.        *)
StoreFault(r) ==
    LET q == req[r] IN
    \/ q.pc \in {"bind", "reread"} /\ Fails(r, "get")
    \/ q.pc = "consume" /\ Fails(r, "consume")
    \/ q.pc = "save" /\ Fails(r, "save")
    \/ q.pc \in {"revoke", "undo"} /\ Fails(r, q.pc)
    \/ /\ q.pc = "consume" /\ "consume" \in Faults
       /\ ~Locked(q.tok) /\ Stamp(q.tok, q.now) /\ Answer(r)
       /\ UNCHANGED <<clock, grace, minted, founded, issued, revoked, lineage, origin>>
    \/ /\ q.pc = "save" /\ "save" \in Faults
       /\ rows' = [rows EXCEPT ![q.succ] = TokenRow(q, q.at)] /\ Answer(r)
       /\ UNCHANGED <<clock, grace, minted, founded, history>>

-----------------------------------------------------------------------------
(* The environment.                                                        *)

(* Slip: the purge looks at the token's own expiry only.                   *)
PurgeSlip(n) ==
    LET Old == {t \in Tokens : rows[t] # None /\ rows[t].expires < Now(n)} IN
    /\ Old # {}
    /\ rows' = Without(Old)
    /\ UNCHANGED <<clock, grace, req, minted, founded, history>>

(* PurgeExpired's refresh-token half, as of a node's clock.                *)
Purge(n) ==
    LET Old == {t \in Tokens : /\ rows[t] # None
                               /\ rows[t].expires < Now(n)
                               /\ rows[t].familyExpires < Now(n)}
    IN
    /\ Old # {}
    /\ rows' = Without(Old)
    /\ UNCHANGED <<clock, grace, req, minted, founded, history>>

(* RevokeRefreshTokensForUser under the store's mutex, called by the       *)
(* application.                                                            *)
RevokeUser(u) ==
    /\ AtomicRevoke /\ UserRows(u) # {}
    /\ rows' = Without(UserRows(u))
    /\ revoked' = revoked \cup {familyToRevoke(rows[t], t) : t \in UserRows(u)}
    /\ UNCHANGED <<clock, grace, req, minted, founded, issued, lineage, spentAt, origin>>

(* An instance is restarted: its requests and its grace cache are gone.    *)
Crash(n) ==
    /\ MayCrash
    /\ grace' = [grace EXCEPT ![n] = [t \in Tokens |-> NoEntry]]
    /\ req' = [r \in Reqs |-> IF req[r].node = n THEN Idle ELSE req[r]]
    /\ UNCHANGED <<clock, rows, minted, founded, history>>

Tick ==
    /\ clock < MaxTime
    /\ clock' = clock + 1
    /\ UNCHANGED <<rows, grace, req, minted, founded, history>>

Handle(r) ==
    \/ Bind(r) \/ Consume(r) \/ Recall(r) \/ Peek(r) \/ PeekFails(r)
    \/ Mint(r) \/ Save(r) \/ Reread(r) \/ Remember(r)
    \/ Revoke(r) \/ RevokeScan(r) \/ RevokeCommit(r) \/ RevokeUserCommit(r)

Next ==
    \/ \E r \in Reqs :
         \/ \E n \in Nodes, c \in Clients :
              \/ \E u \in Users : Login(r, n, c, u)
              \/ \E t \in Tokens : Present(r, n, t, c)
         \/ \E n \in Nodes, u \in Leavers : RevokeUserScan(r, n, u)
         \/ Handle(r)
         \/ StoreFault(r)
    \/ \E n \in Nodes : Purge(n) \/ Crash(n)
    \/ \E u \in Leavers : RevokeUser(u)
    \/ Tick

Spec == Init /\ [][Next]_vars

(* Go runs every goroutine that can run, and a Store call returns: a       *)
(* request in flight takes its next step.                                  *)
FairSpec == Spec /\ \A r \in Reqs : WF_vars(Handle(r))

-----------------------------------------------------------------------------
(* Properties.                                                             *)

LocalState ==
    [pc : Steps, node : Nodes \cup {None}, tok : Tokens \cup {None},
     client : Clients \cup {None}, user : Users \cup {None}, now : Nat,
     family : FamilyIDs \cup {None}, start : Nat, succ : Tokens \cup {None},
     at : Nat, victims : SUBSET Tokens]

(* The type of every variable.                                             *)
TypeOK ==
    /\ clock \in Nat
    /\ rows \in [Tokens -> Row \cup {None}]
    /\ grace \in [Nodes -> [Tokens -> [succ : Tokens \cup {None}, until : Nat]]]
    /\ req \in [Reqs -> LocalState]
    /\ minted \subseteq Tokens /\ founded \subseteq Families
    /\ issued \subseteq Tokens /\ revoked \subseteq FamilyIDs
    /\ lineage \in [Tokens -> [parent : Tokens \cup {None}, family : FamilyIDs \cup {None}]]
    /\ spentAt \in [Tokens -> Nat]
    /\ origin \in [Families -> [at : Nat, user : Users \cup {None}]]

(* A family has at most one unused token, whatever is in flight: one       *)
(* stolen token cannot be forked into chains that rotate side by side      *)
(* (ConsumeRefreshToken's atomic stamp).                                   *)
SingleLiveToken ==
    \A t, s \in Tokens :
      (/\ rows[t] # None /\ rows[s] # None
       /\ rows[t].family = rows[s].family /\ rows[t].family # None
       /\ rows[t].consumed = 0 /\ rows[s].consumed = 0) => t = s

(* A token is rotated at most once: however many duplicates, retries and   *)
(* failed attempts there were, it has one successor.                       *)
NoFork ==
    \A t, s \in minted :
      lineage[t].parent = lineage[s].parent /\ lineage[t].parent # None => t = s

(* Once a family has been revoked no token of it that any client holds is  *)
(* in the store, so none can be refreshed: a rotation in flight does not   *)
(* bring the family back (the re-read in issueTokenPair).                  *)
RevokedStaysDead ==
    \A t \in issued :
      rows[t] # None /\ lineage[t].family \in Families => lineage[t].family \notin revoked

(* The reuse ledger is complete: while one handed-out token of a family is *)
(* in the store so are all the others, and the rotated ones are stamped.   *)
(* No replay of a spent token can be taken for an unknown one while its    *)
(* chain lives (retention in PurgeExpired, no deletion in Consume).        *)
LedgerComplete ==
    \A t, s \in issued :
      (lineage[t].family = lineage[s].family /\ lineage[t].family \in Families /\ rows[t] # None) =>
        /\ rows[s] # None
        /\ (\E c \in issued : lineage[c].parent = s) => rows[s].consumed # 0

(* Rotation never extends a session past the absolute lifetime measured    *)
(* from its login, neither in what is stored nor in what is granted.       *)
AbsoluteCap ==
    /\ \A t \in Tokens :
         rows[t] # None /\ rows[t].family \in Families =>
           rows[t].expires <= origin[rows[t].family].at + AbsoluteTTL
    /\ \A r \in Reqs :
         (req[r].pc \in {"mint", "save", "reread", "remember"} /\ req[r].tok # None
            /\ req[r].family \in Families) =>
           req[r].now < origin[req[r].family].at + AbsoluteTTL

(* A duplicate is answered only inside the window anchored at the first    *)
(* use, and only with the one successor that was handed out.               *)
GraceIsNarrow ==
    \A r \in Reqs : req[r].pc = "peek" =>
      /\ req[r].now <= spentAt[req[r].tok] + GracePeriod
      /\ req[r].succ \in issued
      /\ lineage[req[r].succ].parent = req[r].tok

Lapsed(f) == \E n \in Nodes : Now(n) >= origin[f].at + AbsoluteTTL

(* Concurrency, retries, restarts and failed writes alone never revoke a   *)
(* family: a revocation is under way only if a spent token came back after *)
(* its window, or after its successor was used, expired or already dead.   *)
RevocationNeedsEvidence ==
    \A r \in Reqs :
      LET q == req[r]
          f == q.family
          MovedOn == \E s \in minted : /\ lineage[s].parent = q.tok
                                       /\ spentAt[s] # 0 \/ (rows[s] # None /\ q.now >= rows[s].expires)
          Late == spentAt[q.tok] # 0 /\ q.now > spentAt[q.tok] + GracePeriod
      IN (q.pc \in {"revoke", "undo", "deleting"} /\ f \in Families) =>
           f \in revoked \/ Lapsed(f) \/ Late \/ MovedOn

(* A familyless row fails closed: what is rotated out of it carries a      *)
(* family and never outlives the absolute lifetime measured from the       *)
(* oldest timestamp of the row (instant 1); see legacyFamilyID.            *)
FamilylessFailsClosed ==
    \A t \in Tokens : rows[t] # None /\ lineage[t].family \notin Families =>
      \/ t \in LegacyTokens
      \/ rows[t].family # None /\ rows[t].expires <= 1 + AbsoluteTTL

(* The cache never holds more than maxGraceEntries rotations.              *)
GraceBounded ==
    \A n \in Nodes :
      Cardinality({t \in Tokens : grace[n][t].succ # None}) <= MaxGraceEntries

(* Only the client a token was issued to can spend it: a presentation      *)
(* under another client_id never burns it.                                 *)
SpentByOwner ==
    [][\A t \in Tokens :
         spentAt[t] = 0 /\ spentAt'[t] # 0 =>
           \E r \in Reqs : req[r].pc = "consume" /\ req[r].tok = t
                             /\ req[r].client = rows[t].client]_vars

(* Every request is answered: none waits for ever on the row locks of a    *)
(* DELETE in progress.                                                     *)
RequestsAreAnswered == \A r \in Reqs : req[r].pc # "idle" ~> req[r].pc = "idle"

(* A detected reuse does kill the family, for good: once a request has     *)
(* judged so, from some moment on no token handed out in that family is in *)
(* the store, whatever rotations were in flight and even when the undoing  *)
(* of their inserts fails (issueTokenPair ignores that error).             *)
ReuseKillsFamily ==
    \A f \in Families :
      (\E r \in Reqs : req[r].pc = "revoke" /\ req[r].family = f)
        ~> [](\A t \in issued : rows[t] # None => rows[t].family # f)
=============================================================================
