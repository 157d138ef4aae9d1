# A TLA+ model of mcp-oauth

`mcp-oauth` is a Go library that puts an OAuth 2.1 authorization server, with
Google as the identity provider, in front of an MCP server. This directory
models the parts of it whose correctness depends on the order in which things
happen: the login flow, refresh-token rotation with reuse detection, the cache
of Google's signing keys, the migration of the PostgreSQL schema, and the probe
that tells a Store author whether the Store keeps its contract. TLC checks the
models on small instances; TLAPS proves every safety property that a passing run
checks, and both refinements, for every instance (section 5 names the
hypotheses); liveness stays with TLC.

## 1. Inventory

| Component | State | Operations | Interacts with | What is hard | What makes it correct |
|---|---|---|---|---|---|
| Client registration (`handlers.go` Register, extendClient) | clients table | register, load, extend, purge | consent, callback, housekeeping | read-modify-write against the purge; an allowlist that changes | codes go only to permitted URIs |
| Consent and approval (`authorizeConsent`, `authorizeApprove`) | pending table, binder cookie | show page, approve | browser, pending table | cookie rewritten from what the request carried; lost or reordered replies | one approval per page, only by the browser that saw it |
| Google callback (`GoogleCallback`) | pending, codes | consume state, mint code | Google, tables | any browser may present any state, twice | a code belongs to the person whose browser ran the flow |
| Code grant (`authorizationCodeGrant`) | codes | consume, compare, issue | refresh store | replays, wrong client, URI or verifier | tokens go to the terms of the consent page |
| Refresh grant (`refreshTokenGrant`, `replayedRefreshToken`, `graceApplies`, `issueTokenPair`) | refresh rows | bind, consume, judge, rotate, revoke | Store, grace cache | concurrent duplicates, reuse against rotations in flight, failed writes, lost replies, restarts, several nodes | one live token per login; revocation is final; races are not punished |
| Grace cache (`grace.go`) | per-process map | remember, recall, sweep, evict | refresh grant | full cache, restart, other node | narrow window, anchored at the first use |
| Refresh store (`memstore`, `pgstore`) | refresh rows | save, get, consume, revoke, purge | everything above | READ COMMITTED snapshots, row locks, retention | the reuse ledger outlives the chain |
| Housekeeping (`PurgeExpired`, `maybePurge`) | lastPurge | purge at most once per interval | all tables | runs inside requests and from a ticker | deletes nothing still needed |
| Signing-key cache (`google.go` jwksCache) | keys, expiry | look up, fetch, fall back, install | Google, callback | concurrent fetches, outages, odd lifetimes | a withdrawn key dies; a published key is known |
| Google exchange and ID-token claims | none | HTTP call, checks | callback | none (stateless) | outcome taken nondeterministically |
| Access tokens and Middleware | signing key | sign, validate | application | none (stateless) | not modelled |
| VerifyStore (`verify.go`) | canary rows, list of problems | write, read back, consume, purge, race, clean up | Store, the application's rows, its purge ticker | purges and other verifications in the middle of a check; a run that dies half way; defects that show only after several calls | compliant Stores pass, probed defects are found, nothing of the application's is touched, nothing stays |
| Schema migration (`pgstore/schema.go`) | tables, version row, advisory lock | EnsureSchema | database | several instances and releases at start-up; death between two statements; a commit whose reply is lost | the version is true; calls do not hurt each other; no downgrade |
| Configuration, routes, mounts, metadata | none | wiring | all | none | out of scope |

`PROJECT.json` lists the components with their status and, under `hazards`,
what is hard to test in them and which property watches it.

## 2. Modules

| Module | Models | Proofs |
|---|---|---|
| `RefreshGrant` | refresh-token rotation, grace caches, refresh-token store | `RefreshGrantProofs`, `RefreshTokenProofs`, `RefreshLedgerProofs` |
| `LoginFlow` | registration to code grant, binder cookie, three tables, purge | `LoginFlowProofs` |
| `JwksCache` | Google's signing keys | `JwksCacheProofs` |
| `EnsureSchema` | schema migration | `EnsureSchemaProofs` |
| `VerifyStore` | the Store probe and the Stores it is run against | `VerifyStoreProofs` |
| `Session` | abstract specification: what a login's refresh tokens promise | |
| `RefreshSession` | the mapping under which `RefreshGrant` implements `Session` | `RefreshSessionProofs` |
| `Consent` | abstract specification: what the authorization endpoints promise of a login | |
| `LoginConsent` | the mapping under which `LoginFlow` implements `Consent` | `LoginFlowProofs` |
| `MCRefreshGrant`, `MCLoginFlow`, `MCJwksCache`, `MCEnsureSchema`, `MCVerifyStore` | instances for TLC | |

In all of them, one action is what a handler does **from one access to shared
state to the next** (a Store call, a mutex section, a network exchange), so the
model interleaves exactly where the code can. The locals that survive such a
point are the fields of a record per call (`req[r]`, `tx[c]`, `ver[v]`), whose
`pc` names the next access. Purely
local work in between is folded into the action. Operators called `...Slip` are
deliberate mistakes kept next to the definition they corrupt; no specification
uses them. They document which property notices which mistake.

### RefreshGrant

| Action | Code |
|---|---|
| `Login` | tail of `authorizationCodeGrant`: new family, into `issueTokenPair` |
| `Present`, `Bind` | `refreshTokenGrant`: the clock reading and `GetRefreshToken`'s client check |
| `Consume` with `Stamp`, `Judge` | `ConsumeRefreshToken` and everything decided from the row it returns: unknown, expired, past the absolute lifetime, rotate, or replay |
| `Recall`, `Peek`, `PeekFails` | `graceApplies`: the cache, then the successor's row |
| `Mint`, `Save`, `Reread`, `Remember` | `issueTokenPair` and `rememberSuccessor` |
| `Revoke`, or `RevokeScan` + `RevokeCommit` | `RevokeRefreshTokenFamily`: under memstore's mutex, or as pgstore's DELETE whose snapshot and commit are two instants; `ConsumeRefreshToken` waits for its row locks |
| `RevokeUser`, or `RevokeUserScan` + `RevokeUserCommit` | `RevokeRefreshTokensForUser`, which the application calls at a logout: under memstore's mutex, or as pgstore's DELETE |
| `StoreFault` | a Store call fails before its effect, or after it (reply lost) |
| `Purge`, `Crash`, `Tick` | housekeeping, a restart, time |

`rows` is the table, `grace[n]` the cache of instance `n`, `Skew[n]` how far its
clock is ahead. `issued`, `revoked`, `lineage`, `spentAt` and `origin` are
history: what left a server, what was ordered deleted, who descends from whom.
A raw token and its hash are one value. `legacyFamilyID` is injective by
construction, as the hash it abbreviates is assumed to be. Running out of
`Tokens` stands for an error of `randomToken`. `Crash` assumes a durable Store:
with memstore a restart loses every row, which only logs people out. Signing the
access token touches no state and is left out. A logout on pgstore takes one of
the `Reqs`, as it lasts; `Leavers` are the users the application may log out, a
bound on what TLC explores. `Faults` names the calls that may fail; the
revocation of a judged token's family (`"revoke"`) and the one that undoes an
insert into a dead family (`"undo"`), whose error the code ignores, are two of
them.

PostgreSQL locks the rows of a DELETE one by one as it meets them, and a second
DELETE of a row waits for the first. Here all of them are locked at the
snapshot, and two DELETEs do not wait for each other. An UPDATE that slips in
before its row is locked changes no column the DELETE looks at, so it might as
well have come before the snapshot; a row deleted twice is a row deleted once;
and a deadlock of two DELETEs, which PostgreSQL ends by aborting one, is a
failing call.

### LoginFlow

| Action | Code |
|---|---|
| `Register` | `Register` with `ValidateRedirectURI`, `checkRedirectHostPolicy` |
| `Visit`, `LoadClient`, `maybePurge`, `Sweep`, `SaveConsent` | `authorizeConsent` |
| `Post`, `ConsumeConsent`, `SaveApproved` | `authorizeApprove` |
| `Return`, `ConsumeState`, `SaveCode`, `ExtendRead`, `ExtendSave` | `GoogleCallback`, `extendClient` |
| `Exchange`, `Redeem` | `authorizationCodeGrant` up to `issueTokenPair`, where `RefreshGrant`'s `Login` begins |
| `Receive`, `Lose` | the browser gets a reply and applies its Set-Cookie, or never does |
| `StoreFault`, `Ticker`, `Restart`, `Tick` | failing Store calls, `PurgeExpired` from a ticker, a restart with another allowlist, time |

A browser sends its cookie as it is when the request leaves. Replies arrive in
any order or not at all. Any browser may present any nonce, state or code that
reached some browser, at either endpoint. The person at a browser signs in at
Google as themselves, so accounts are named by browsers. The exchange with
Google and `FindUserIDByEmail` are one nondeterministic outcome. A PKCE verifier
and its challenge are one value. A redirect URI is the four features the code
looks at. Left out: size limits, `response_type` and challenge-format checks,
junk cookie values (dropped on read), the page itself. A Store call that fails
after its effect looks like the next call failing or a lost reply, so only
failures before the effect appear. The clock reading and the mutex section of
`maybePurge` are one step, and so are the four DELETEs of pgstore's purge.
`dropBinder` removes the one place a binder has in the cookie, where the code
filters the whole cookie: only new binders are prepended, and `DropOwn` in the
proofs shows that a cookie never holds a binder twice and that a dropped one is
gone.

### JwksCache

`Look` is the first mutex section and the check after it, `Serve` Google's
answer, `FetchFails` the stale fallback, `Install` the second mutex section.
`cacheTTL` keeps the wrap-around of `time.Duration`. A document is the set of
its usable keys. `FetchTimeout` bounds the time from a fetch to the use of its
answer: the HTTP client's timeout (10 s by default) plus the wait for the mutex.
A deployment that configures an HTTP client without a timeout has no such bound.

### Session and RefreshSession

`Session` says in four actions what the refresh grant promises of a login: it is
opened once, has one working token at a time, a token that is used buys at most
one new one and never works again, and a session that is over stays over. It
knows nothing of requests, instances, caches, retries or rows. `RefreshSession`
maps a family of `RefreshGrant` to a session: `current` is the set of its tokens
that were handed out and are stored unused, `over` is a family of which the
store has none of the handed-out tokens. A token that is stored but not yet
handed out does not exist for `Session`, so a rotation is a `Spend` at the
consume and a `Renew` at the answer; everything between is a stutter. The
abstract `End` may be a revocation, a logout, the purge, or the deletion of a
successor by a rotation that finds its family revoked.

### Consent and LoginConsent

`Consent` says what the authorization endpoints promise of a login: it begins
with a page shown to one browser, the person there approves it, a code is issued
for that person, and the code buys tokens once, on the terms of the page. Flows
go forward only and may end anywhere on the way; what is over stays over. It
knows nothing of nonces, states, cookies, records or requests, and nothing of
browsers that present what is not theirs. `LoginConsent` maps a binder of
`LoginFlow` to a flow. How far it has come is read off whatever carries the
binder at the moment: an unapproved record, or the request between consuming it
and storing it again (asked); an approved record, or the request between the
callback's consume and the code (approved); a stored code (issued); a redeemed
one (granted); or nothing any more (over). A replay that brought a burned
handle back would be a flow going backwards. `End` takes a set of flows, as a
restart or a purge ends many at once.

### EnsureSchema

| Action | Code |
|---|---|
| `Begin`, `Lock` | `BeginTx`; `pg_advisory_xact_lock` |
| `CreateTables` | `SchemaSQL` |
| `ReadVersion`, `InitVersion` | SELECT of the version, INSERT of version 0 |
| `RunStep`, `RecordStep` | one round of the loop over `schemaSteps` |
| `Commit`, `CommitUnseen`, `Fail` | the commit; a commit whose reply is lost; any error path, a cancelled context or a death, all of which end in a rollback |

`tables`, `version` and `retired` are what is committed; `tx[c]` holds what an
open transaction has written and nobody else sees. `Release[c]` is how many
steps the caller's release knows; this release has one, and the runs add a next
one so that a rolling deploy and a rollback happen. Releases are assumed to
append steps numbered without gaps, and step `k` to retire one thing of the
schema, as step 1 does. PostgreSQL is modelled from its use: READ COMMITTED,
transactional DDL, a unique violation for whoever creates the same table or row
as an open transaction that commits, a lock that ends with its transaction. A
database whose default isolation is REPEATABLE READ would read the version from
a snapshot taken before the lock was granted; that setting is not modelled.
The lock that ALTER TABLE takes against the application's own statements is not
modelled either, nor are the two indexes.

### VerifyStore

| Action | Code |
|---|---|
| `Begin` | `VerifyStore`, which takes the time once |
| `Save`, `ReadBack` | `checkClient`, and the same calls of the other checks |
| `Take`, `Retake` | `checkAuthCode`, `checkPendingAuth`, `checkPendingAuthIsInsertNotUpsert` |
| `GetUnknown`, `PurgeEarly`, `GetKept`, `Consume`, `Replay`, `ReplayAgain`, `GetConsumed`, `Revoke`, `GetRevoked` | `checkRefreshToken`, in order |
| `RaceConsume`, `RaceUpdate`, `Tally` | the goroutines of `checkRefreshTokenAtomicity` and the count after `wg.Wait` |
| `CleanRead`, `CleanExpire`, `FinalPurge`, `ClientGone`, `TokenGone` | `cleanup` |
| `StoreFault`, `RaceFault`, `Crash`, `Ticker`, `Tick` | a failing Store call, a death, the application's purge ticker, time |

`ClientCalls`, `CodeCalls`, ... are the calls of each check, `After` the call that
follows each one, `Bail` where its early return leads. The Store
under test is compliant or has one defect of `Defects`: a column that is not
kept, or a behaviour that store.go forbids (the operators `Written`, `Taken`,
`Consumed`, `Lapsed`, ...). `insertOnly` is pgstore's plain INSERT of refresh
tokens, which the contract allows. `Names` are the canaries of one call; the
application owns a row of each kind, a spent token of the reuse ledger among
them. Timestamps round-trip exactly, so `verifyTolerance` has nothing to do.

## 3. What is checked

All runs use two requests at a time unless stated: every property here is broken
by the slips with two, and the races in the code are between pairs.

| Run | Shows |
|---|---|
| `RotationRaces` | three tokens, a cache of one entry, failing writes, failing undoings of an insert, logouts, restarts, clock 1..5 (past the purge of the family): `SingleLiveToken`, `NoFork`, `RevokedStaysDead`, `LedgerComplete`, `GraceIsNarrow`, `GraceBounded`, `RevocationNeedsEvidence`, and the refinement `ImplementsSession` |
| `RotationNodes` | two instances, clocks one instant apart, two client_ids, failing saves, restarts: `RevocationNeedsEvidence`, `AbsoluteCap`, `SpentByOwner` |
| `RotationPostgres` | pgstore, a familyless row with every combination of missing timestamps, logouts: `TypeOK`, `FamilylessFailsClosed`, and under fairness `RequestsAreAnswered` |
| `RotationLiveness` | failing reads, failing undoings of an insert, logouts, fairness: `ReuseKillsFamily` (from some moment on, for good) |
| `LoginBinding` | two browsers, overlapping requests, lost replies, failures, restarts: `CodeStaysWithItsBrowser`, `OneLoginPerConsent`, the refinement `ImplementsConsent` |
| `LoginTerms` | two clients, two challenges, every kind of redirect URI (https, http, a custom scheme, userinfo, loopback or not), an allowlist tightened by a restart: `GrantMatchesConsent`, `CodeLeavesForSafeURI` |
| `LoginTabs` | one browser that waits for each reply, three flows, room for two binders: `TypeOK`, `FlowsKeepTheirBinders` |
| `SigningKeys` | two logins, two keys, rotations, outages, lifetimes that are zero, too long or wrap around: `TypeOK`, `WithdrawnKeysDie`, `RefusalsAreJustified` |
| `SchemaUpgrade` | two instances of one release and one of the next, every database they may find, failures everywhere: `TypeOK`, `VersionTellsTruth`, `OverlapIsHarmless`, `OkMeansUpgraded`, `NeverDowngraded`, and under fairness `CallsReturn` |
| `StoreProbe` | every Store with at most one defect, upserting or insert-only, two overlapping verifications, a ticker; on a compliant insert-only Store seven calls may fail or be the last before a death, any number of them and in both verifications: `TypeOK`, `CompliantNeverReported`, `ProbedDefectsReported`, `AppRowsUntouched`, `CleansUp`, `LeftoversLapse` |
| `PostgresRevokeRace`, `VerifyMissesPurge` | expected violations, section 4 |

**Bounds.** `MaxTime` is past every deadline the run is about (token expiry,
grace window, absolute lifetime, key lifetime). Three tokens are a login and two
rotations, the longest chain the reuse rules look at (a token, its successor,
its successor's use). `RotationPostgres` has two tokens, a familyless one and its
successor; its second rotation is an ordinary one. Three handles are two consent
pages and one approval, or three pages. `Codes` has two members where two codes could
conflict. `SchemaUpgrade` has three callers, so that two wait for a third, and
three tables: the one the steps change, the version table and another.
`StoreProbe` races two goroutines where the code has eight: a Store that is not
atomic shows it with two. Its `MaxTime` lets the clock tick inside a
verification, so that the instant the verifier took and the ticker's differ.
`Tick` assumes that a verification takes less than a minute, the lifetime of its
shortest-lived canaries. `Fragile` is the bound on failures: which calls may
fail, or be the last before a death, on which Store. TLC explores overlap on
every Store, and failures on a compliant Store that only inserts tokens
(pgstore), in seven calls: some of each way the verifier has of answering an
error, and those whose failure leaves canaries behind. The theorems of section 5
cover every choice of calls and Stores. Only a save whose reply is lost has an
effect though it fails: the other calls that may fail after their effect leave
less behind than if they had not been made.

In `RotationLiveness` no call fails but reads and the undoing of inserts, and
nothing restarts. A judged revocation that fails, or dies with its instance, is
outside the property: nothing then remembers the detection, and the next replay
detects again. A login whose save fails would leave this instance, which has one
family, with nothing to do; and failing consumes and rotations hand out nothing.

**Fairness.** `FairSpec` gives each request weak fairness on the steps of its
handler: Go schedules every runnable goroutine and Store calls return (they take
a context and database connections time out). Clients, the clock, purges and
faults are given none. `EnsureSchema` has weak fairness on the statements of a
call and strong fairness on its lock, because PostgreSQL grants a lock to its
waiters in the order they asked; starting a call and failing are given none.

**Deadlock** is checked in every run; a system with idle requests can always
accept one.

## 4. Disagreements with the documentation

- **PostgresRevokeRace.** pgstore's DELETE of a family does not see a successor
  inserted after its snapshot, and the predecessor stays visible until it
  commits, so the re-read in `issueTokenPair` finds it. The rotation in flight
  is answered with a live token of a revoked family. README.md says reuse
  detection cannot be undone by a rotation in flight. With an atomic revocation
  (memstore) the property holds and is proved. The DELETE of a logout
  (`RevokeRefreshTokensForUser`) is of the same kind and has the same gap.
- **VerifyMissesPurge.** After the purge `cleanup` looks for the refresh canary,
  which the family revocation has deleted long before; the atomicity canary,
  which is still there, is not looked for. A `PurgeExpired` that never deletes
  refresh tokens passes, though STORE-CONTRACT.md lists it among what is
  detected.

Seen while modelling, without a run of their own:

- A familyless row is not a row of the family derived from it, so a revocation of
  that family leaves it, and the re-read of a rotation of it in flight is
  satisfied: the chain survives its revocation, also on memstore. README.md and
  `legacyFamilyID` say that a replay of a familyless token still revokes the
  chain it spawned. With `LegacyTokens` the invariant `RevokedStaysDead`,
  extended to derived families, fails.
- `graceApplies` treats a read error as "no grace", and the family is revoked,
  though `issueTokenPair` says that a transient read error is not proof of
  revocation and README.md that a duplicate does not log the user out. With
  `Faults = {"get"}` `RevocationNeedsEvidence` fails.
- Overlapping authorization requests of one browser each rewrite the whole
  cookie; the later reply erases the other flow's binder. types.go says that two
  tabs do not invalidate each other. With two requests and `Tabs = TRUE`
  `FlowsKeepTheirBinders` fails; without overlap (`LoginTabs`) it cannot happen,
  and that is proved.
- On pgstore the cleanup of `VerifyStore` cannot save the atomicity canary
  again, ignores the error, and leaves the canary for up to an hour although the
  documentation says canaries are removed. `CleansUp` says that nothing else
  stays, `LeftoversLapse` that this one lapses.
- `VerifyStore` compares no `CreatedAt` column, and catches a Store that selects
  and then updates only when its goroutines happen to overlap.
- Approval restarts the pending record's lifetime and not the cookie's, so a
  slow user is refused at the callback as "a different browser". It fails closed.
- A purge between a first login and `extendClient`'s read deletes the
  registration; two concurrent logins may shorten each other's extension. The
  code calls this housekeeping best effort.

## 5. What is proved

TLAPS checks these for every number of nodes, requests, tokens, families,
clients, users, browsers, secrets, logins, keys and verifications and every
setting of the lifetimes. They assume the `ASSUME`s of the modules (time
constants are naturals, secrets are distinct from each other and from `None`,
derived family IDs are not random ones, no cookie, page or row of the login
flow is `None`, there are finitely many binders, the
race of `VerifyStore` has finitely many goroutines and at least one) and, where
it is said, a hypothesis of the theorem.

### Refresh grant

Four modules, each adding one layer to the inductive invariant of the one before.

- `RefreshGrantProofs`. `TypeCorrect`: the types. `TypeInv` adds what each local
  holds at each step (`LocalsOK`) and that every row belongs to a drawn token
  and carries the family of its lineage (`RowsOK`), without which `Save` and
  `Revoke` cannot be typed. `RevocationIsFinal`: `RevokedStaysDead`, if
  revocation is atomic (`AtomicRevoke`, memstore). The property is not
  inductive: a rotation past its re-read may hold a successor that is not handed
  out yet. `DeadInv` adds that families in use were founded by a login and belong
  to one user (`OriginOK`, needed for `RevokeUser`), that a login whose token is
  not stored has its family to itself (`LoginOK`), and that a rotation owns its
  successor and, once it is confirmed, a revoked family has lost that successor
  too (`RotationOK`). The proof has one step per action of a handler.
- `RefreshTokenProofs`. The lemma `NextHasShape` first reduces the actions to a
  handful of shapes (a row is stamped, written, deleted; a request moves on,
  is answered; ...), so that each later invariant is shown once per shape.
  `ForkInv`: a request about to mint a successor for a token is the only one to
  do so, and the token has no successor yet (`MintOK`); hence `NoForks`. `CapInv`: stored and granted lifetimes end within `AbsoluteTTL` of
  the login, cached successors were handed out, windows are anchored at the
  first use; hence `LifetimeIsCapped`, `LegacyFailsClosed`, `GraceStaysNarrow`
  and the action property `OnlyOwnersSpend`. `HeadInv`: a family has one head,
  which is an unspent row or the one request that spent the last one; hence
  `OneLiveToken`. `BoundInv` counts the entries of a cache; hence
  `CacheIsBounded`.
- `RefreshLedgerProofs`. `NoHastyRevocation`: `EvidenceInv` says that a token
  which was handed out, or saved by a rotation, and is gone from the store
  belongs to a family that was revoked or has lapsed (`GoneOK`).
  Hypotheses: `GracePeriod > 0` and no failing reads. Both are needed, and both
  are what the code does: without a window every duplicate is a replay, and
  `graceApplies` takes a read error for proof (section 4). `LedgerStaysComplete`:
  `LedgerInv` says that the tokens of a family stand and fall together. A purge
  keeps that because every row of a family carries the same family expiry, a
  logout because a family has one user. Hypothesis: `AtomicRevoke`; pgstore's
  DELETE may spare a successor it does not see (section 4).
- `RefreshSessionProofs`. `RefinesSession`: `Spec => ImplementsSession`, if
  revocation is atomic. The invariant is the conjunction of the ones above.
  The consume is a `Spend`, the save of a login and the answer of a rotation are
  what opens and renews a session, everything that deletes a family is an `End`,
  and every other step is a stutter; one lemma for each.

### Login flow

`LoginFlowProofs` proves `LoginTypes`, `CodesStayHome`
(`CodeStaysWithItsBrowser`), `OneLogin` (`OneLoginPerConsent`), `GrantsMatch`
(`GrantMatchesConsent`), `CodesLeaveSafely` (`CodeLeavesForSafeURI`) and
`RefinesConsent` (`ImplementsConsent`), with no hypothesis: browsers may have any number of requests in flight, every call may
fail, and restarts may change the allowlist. None of the properties is
inductive, as they speak of minted codes and say nothing of the cookies, records
and requests a code is made from. `LoginInv` adds:

- every binder in a cookie, in a request's copy of it or in a Set-Cookie on its
  way belongs to a page that this browser was shown (`Own`);
- every pending record, stored or held by a request, is on the terms of its
  page, and is approved only by the browser of the page (`RecordOK`);
- every registration has safe URIs only, and a request past `LoadClient` names
  one that the current allowlist permits (`SafeClient`, `LocalOK`), so that
  every page is for a safe URI (`PagesOK`);
- a code that is still stored was never redeemed and names its page's terms
  (`CodeOK`).

`OneCarrier` adds that a binder is carried by one thing at a time: a stored
record, the request that consumed it, or the code. The steps that draw no secret
and only delete are treated once (`QuietStep`); the others have a lemma each.

`RefinesConsent` rests on these two invariants. `OneCarrier` makes the stage of
a flow unambiguous (`OneStage`). A step in which no flow gets on (`Fades`) is an
abstract `End`, or a stutter (`FadesEnd`); that includes the two consumes, which
move a record into a request at the stage it was at (`TakeFades`). The three
saves and the redemption of a code are the four forward steps, one lemma each.

`FlowsKeepBinders` proves `FlowsKeepTheirBinders` for browsers that wait for each
reply (hypothesis `~Tabs`; with overlapping requests it is false, section 4). The
property speaks of what a browser holds now, and is not inductive because that
will be replaced by what a request in flight carries. `BinderInv` adds:

- cookies, their copies in requests and the Set-Cookie of a reply are sorted,
  newest flow first (`Sorted`), so that what `addBinder` cuts off is older than
  `maxBinders` others; counting those is the one use of finite cardinalities
  (`AddKeeps`, `ManyMembers`, `NumbersOK`);
- copies and Set-Cookies miss no binder of a flow under way that the browser
  holds (`Keeps`), and the reply that shows a page brings its binder
  (`Delivers`), so that a browser has the binders of the pages that reached it
  (`ShownOK`). The one binder that `dropBinder` removes belongs to a record that
  was just burned, and by `OneCarrier` nothing else carries it (`BurnedIsOver`);
- a browser has one request in flight (`OneAtATime`), so that the cookie is what
  the request copied until its reply arrives;
- a cookie does not expire before the pages whose binders it holds (`LastsOK`).

### Signing keys and schema

- `WithdrawnKeysStayDead`: a withdrawn signing key authenticates nobody after
  `FetchTimeout + maxTTL + maxStaleJWKS`. `KeyInv` bounds the lifetime of each
  cached key, of the copy a login took before its fetch, and of a document on
  its way, by the last instant Google's document had the key; that is why an
  older document installed over a newer one does no harm.
- `PublishedKeysAreKnown`: `RefusalsAreJustified`. `GapInv` follows a document
  from Google to the login that asked for it: the key of a login is in what
  Google publishes and in what was fetched for the login, or the login has seen
  a gap. `KeyTypes`: the types.
- `SchemaAlways` and its consequences `VersionIsTrue`, `OverlapIsSafe`,
  `OkIsLasting`, `SchemaTypes` and the action property `SchemaOnlyGrows`: the
  safety properties of `EnsureSchema`, for any number of callers, releases, steps
  and tables. The properties are not inductive: nothing in them says what an open
  transaction is about to commit. `SchemaInv` adds that only the holder of the
  lock is past it and that the others have written nothing (`LockOK`), and that
  what the holder has seen, made, written and dropped is exactly what takes the
  committed schema to the version it has reached (`ProgressOK`).

### Store probe

`VerifyStoreProofs` proves every safety property of `VerifyStore` that a passing
run checks, with no hypothesis: any number of verifications, overlapping in any
way, and of goroutines, calls that fail in any number, purges and crashes, any
Store of `Defects`. Every step is the step of one verification, or a step in
which nobody's verification moves (`NextActs`), and each layer of the invariant
is shown for one call at a time.

- `StoreTypes`: the types. `TypeInv` adds what each verification holds at each
  call (`LocalOK`).
- `AppRowsSafe` (`AppRowsUntouched`) and `LeftoversExpire` (`LeftoversLapse`).
  `RowInv` adds that a verification has no token rows before it saves them
  (`Fresh`), that what it writes ends within the hour (`Brief`) and that a column
  the Store does not keep is in none of its rows (`DroppedOK`). No purge looks
  beyond the clock, and every other call names a row of the verification's own.
  This layer holds whatever the Store does and whatever fails.
- `CompliantStorePasses` (`CompliantNeverReported`), `DefectsAreFound`
  (`ProbedDefectsReported`) and `VerificationCleansUp` (`CleansUp`). None of them
  is inductive: they speak of the list of problems, and nothing in them says what
  is in the Store between two calls. `ProbeInv` adds, for a verification no call
  of which failed and which has reported nothing, that the Store is rid of the
  defects that the calls so far would have shown (`Cleared`), and what its own
  canary rows look like at this call (`ClientRow`, `CodeRow`, `PendingRow`,
  `PairRows`, `RefreshRow`, `AtomicRow`). The rows stay as they are through the
  steps of others and through purges because a verification lasts less than
  `Minute`, and no canary lapses before that (`IdlesKeepExpected`). Under that
  invariant a compliant Store leaves nothing to report, and at the end nothing is
  left in `Probed` that is not ruled out. `RaceOK` says of the goroutines that at
  most one of them got the zero time, as the tally demands of a compliant Store.

`PurgeDefectsReported` is false, as its run shows (section 4).

### Only model-checked

- Liveness (`RequestsAreAnswered`, `ReuseKillsFamily`, `CallsReturn`): fairness
  is outside the prover.

## 6. Plan

Done: the five component modules, the abstract `Session` and `Consent`, their
runs, the theorems of section 5 and the two refinements.

Left: a composition in which `LoginFlow`'s `Redeem` starts `RefreshGrant`'s
`Login`. They share nothing but that hand-over, so the product of their state
spaces adds no new race; it is last for that reason.

## 7. Not modelled

- Access-token signing and validation, the middleware, the ID token's claims and
  the exchange with Google: each is one call without state. Signatures are out
  of a model checker's reach, and without them what is left is a conjunction of
  comparisons that a property could only restate.
- Configuration: its results are the constants of the modules, its checks their
  assumptions.
- Routes, mounts, metadata documents, the consent page and its CSP: wiring and
  presentation.
- In the modelled parts: what the module sections above name as left out.
