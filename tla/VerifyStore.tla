----------------------------- MODULE VerifyStore -----------------------------
(***************************************************************************)
(* Provider.VerifyStore (verify.go): the probe that tells the author of a  *)
(* Store which rule of the Store contract (store.go) it breaks.            *)
(*                                                                         *)
(* The Store under test is compliant or has one defect.  One action is one *)
(* Store call.  Verifications run beside each other, beside a ticker that  *)
(* purges and beside the application's own rows; calls may fail, any       *)
(* number of them, and a verification may die half way.  A canary is named *)
(* by who wrote it and what for, as its random hash never collides.        *)
(* Timestamps round-trip exactly, so verifyTolerance is not needed.        *)
(***************************************************************************)
EXTENDS Integers, FiniteSets

CONSTANTS
    Verifiers,     \* calls of VerifyStore
    App,           \* the application, as an owner of rows
    Racers,        \* the goroutines of checkRefreshTokenAtomicity
    Defects,       \* the Stores to probe, <<"none">> for a compliant one
    InsertOnly,    \* may SaveRefreshToken refuse a hash it knows (pgstore)
    Fragile,       \* the calls that may fail, or be the last before the process
                   \* dies: <<verification, Store, call>> triples (bound)
    Minute, Hour,
    MaxTime,
    None

ASSUME TimeAssumption == Minute \in Nat /\ Hour \in Nat /\ MaxTime \in Nat /\ 0 < Minute /\ Minute < Hour
                            /\ Hour < MaxTime
ASSUME OwnerAssumption == App \notin Verifiers
ASSUME InsertAssumption == InsertOnly \subseteq BOOLEAN
ASSUME RacersAssumption == IsFiniteSet(Racers) /\ Racers # {}

VARIABLES
    clock,
    rows,    \* key -> row, None if there is none
    store,   \* the Store under test
    ver,     \* verifier -> its call
    racer    \* verifier -> goroutine -> what its ConsumeRefreshToken returned

vars == <<clock, rows, store, ver, racer>>

Zero == 0

Names == {"client", "code", "pending", "first", "second", "refresh", "atomic"}
Keys == (Verifiers \cup {App}) \X Names

Table(name) ==
    CASE name = "client" -> "clients"
      [] name = "code" -> "codes"
      [] name \in {"refresh", "atomic"} -> "tokens"
      [] OTHER -> "pending"

(* The columns of each table besides its key and the timestamps that       *)
(* matter here.                                                            *)
Columns ==
    [clients |-> {"ClientID", "RedirectURIs", "ClientName", "CreatedAt"},
     codes   |-> {"ClientID", "UserID", "RedirectURI", "CodeChallenge", "CreatedAt"},
     pending |-> {"ClientID", "RedirectURI", "CodeChallenge", "ClientState", "BinderHash",
                  "Approved", "CreatedAt"},
     tokens  |-> {"ClientID", "UserID", "FamilyID", "FamilyCreatedAt", "CreatedAt"}]

RowType == [text : SUBSET UNION {Columns[t] : t \in DOMAIN Columns},
            ExpiresAt : Nat, FamilyExpiresAt : Nat, ConsumedAt : Nat]

ASSUME NoneAssumption == None \notin RowType

(* A row: the columns that hold what was saved, and three timestamps.      *)
Row(table, expires, familyExpires) ==
    [text |-> Columns[table], ExpiresAt |-> expires,
     FamilyExpiresAt |-> familyExpires, ConsumedAt |-> Zero]

(* The application's own rows, the ledger of a spent token among them.     *)
AppRow(name) ==
    LET t == Table(name)
        live == Row(t, MaxTime, IF t = "tokens" THEN MaxTime ELSE Zero)
    IN  IF name = "refresh" THEN [live EXCEPT !.ExpiresAt = 1, !.ConsumedAt = 1] ELSE live

(* The Store calls of each check.                                          *)
ClientCalls == {"saveClient", "getClient"}
CodeCalls == {"saveCode", "takeCode", "retakeCode"}
PendingCalls == {"savePending", "takePending", "retakePending",
                 "saveFirst", "saveSecond", "takeFirst", "takeSecond"}
TokenCalls == {"saveRefresh", "getRefresh", "getUnknown", "purgeEarly", "getKept",
               "consume", "replay", "replayAgain", "getConsumed", "revoke", "getRevoked",
               "saveAtomic", "race"}
CleanCalls == {"readClient", "expireClient", "readRefresh", "expireRefresh",
               "readAtomic", "expireAtomic", "purge", "clientGone", "tokenGone"}
Calls == ClientCalls \cup CodeCalls \cup PendingCalls \cup TokenCalls \cup CleanCalls

(* The call that follows when the one before it went on ...                *)
After ==
    [saveClient |-> "getClient", getClient |-> "saveCode",
     saveCode |-> "takeCode", takeCode |-> "retakeCode", retakeCode |-> "savePending",
     savePending |-> "takePending", takePending |-> "retakePending", retakePending |-> "saveFirst",
     saveFirst |-> "saveSecond", saveSecond |-> "takeFirst", takeFirst |-> "takeSecond",
     takeSecond |-> "saveRefresh",
     saveRefresh |-> "getRefresh", getRefresh |-> "getUnknown", getUnknown |-> "purgeEarly",
     purgeEarly |-> "getKept", getKept |-> "consume", consume |-> "replay",
     replay |-> "replayAgain", replayAgain |-> "getConsumed", getConsumed |-> "revoke",
     revoke |-> "getRevoked", getRevoked |-> "saveAtomic", saveAtomic |-> "race",
     race |-> "readClient",
     readClient |-> "expireClient", expireClient |-> "readRefresh",
     readRefresh |-> "expireRefresh", expireRefresh |-> "readAtomic",
     readAtomic |-> "expireAtomic", expireAtomic |-> "purge",
     purge |-> "clientGone", clientGone |-> "tokenGone", tokenGone |-> "done"]

(* ... and when it returned: the first call of the next check.             *)
Bail ==
    [pc \in Calls |->
       CASE pc \in ClientCalls -> "saveCode"
         [] pc \in CodeCalls -> "savePending"
         [] pc \in PendingCalls -> "saveRefresh"
         [] pc \in TokenCalls -> "readClient"
         [] OTHER -> "done"]

Idle == [pc |-> "idle", now |-> Zero, problems |-> {}, second |-> Zero,
         held |-> None, faulted |-> FALSE]

Init ==
    /\ clock = Hour + 1
    /\ rows = [k \in Keys |-> IF k[1] = App THEN AppRow(k[2]) ELSE None]
    /\ store \in [defect : Defects, insertOnly : InsertOnly]
    /\ ver = [v \in Verifiers |-> Idle]
    /\ racer = [v \in Verifiers |-> [r \in Racers |-> "wait"]]

Has(defect) == store.defect = <<defect>>
Drops(table, column) == store.defect = <<table, column>>
Compliant == Has("none")

-----------------------------------------------------------------------------
(* The Store under test.                                                   *)

(* What is left of a row once it is written.                               *)
Written(name, row) ==
    LET t == Table(name) IN
    [text |-> {col \in row.text : ~Drops(t, col)},
     ExpiresAt |-> IF Drops(t, "ExpiresAt") THEN Zero ELSE row.ExpiresAt,
     FamilyExpiresAt |-> IF Drops(t, "FamilyExpiresAt") THEN Zero ELSE row.FamilyExpiresAt,
     ConsumedAt |-> IF Drops(t, "ConsumedAt") THEN Zero ELSE row.ConsumedAt]

Refuses(k) ==
    /\ rows[k] # None
    /\ \/ Table(k[2]) = "tokens" /\ store.insertOnly
       \/ Table(k[2]) = "clients" /\ Has("clientInserts")

(* An upsert keyed on client_id replaces the verifier's other record.      *)
Saved(k, row) ==
    [x \in Keys |->
       CASE x = k -> Written(k[2], row)
         [] Has("pendingByClient") /\ x[1] = k[1] /\ {x[2], k[2]} = {"first", "second"} -> None
         [] OTHER -> rows[x]]

Taken(k) ==
    IF \/ Table(k[2]) = "codes" /\ Has("codeReusable")
       \/ Table(k[2]) = "pending" /\ Has("pendingReusable")
    THEN rows ELSE [rows EXCEPT ![k] = None]

GetToken(k) ==
    IF rows[k] # None /\ rows[k].ConsumedAt # Zero /\ Has("getHidesConsumed") THEN None ELSE rows[k]

Stamped(row, at) ==
    IF Drops("tokens", "ConsumedAt") \/ (row.ConsumedAt # Zero /\ ~Has("restamps"))
    THEN row ELSE [row EXCEPT !.ConsumedAt = at]

(* What ConsumeRefreshToken returns and what it leaves in the table.       *)
Consumed(row, at) ==
    LET result(got, left) == [got |-> got, left |-> left] IN
    IF row = None THEN result(None, None)
    ELSE CASE Has("filtersExpired") /\ row.ExpiresAt < clock -> result(None, row)
           [] Has("consumeDeletes") -> result(row, None)
           [] Has("updateReturning") /\ row.ConsumedAt # Zero -> result(None, row)
           [] Has("updateReturning") /\ row.ConsumedAt = Zero -> result(Stamped(row, at), Stamped(row, at))
           [] Has("returnsAfter") -> result(Stamped(row, at), Stamped(row, at))
           [] OTHER -> result(row, Stamped(row, at))

Lapsed(name, row, before) ==
    LET t == Table(name) IN
    /\ row.ExpiresAt < before
    /\ t = "tokens" => row.FamilyExpiresAt < before \/ Has("purgesOwnExpiry")
    /\ ~(t = "tokens" /\ Has("purgeSkipsTokens"))
    /\ ~(t = "clients" /\ Has("purgeSkipsClients"))
    /\ ~(t \in {"codes", "pending"} /\ Has("purgeSkipsCodes"))

Purged(before) ==
    [k \in Keys |-> IF rows[k] # None /\ Lapsed(k[2], rows[k], before) THEN None ELSE rows[k]]

Revoked(k) ==
    IF Has("revokeNoop") \/ rows[k] = None \/ "FamilyID" \notin rows[k].text
    THEN rows ELSE [rows EXCEPT ![k] = None]

-----------------------------------------------------------------------------
(* The verifier.  Variants named "...Slip" are plausible mistakes in the   *)
(* definition that follows them; no specification uses them.               *)

At(v, pc) == ver[v].pc = pc

(* The call goes on at pc with more problems: a check that reports and     *)
(* returns, one that reports and goes on.                                  *)
Moved(v, pc, problems) == [ver[v] EXCEPT !.pc = pc, !.problems = @ \cup problems]
Returned(v, problem) == Moved(v, Bail[ver[v].pc], {problem})
WentOn(v, problems) == Moved(v, After[ver[v].pc], problems)

Become(v, q) == ver' = [ver EXCEPT ![v] = q]
Returns(v, problem) == Become(v, Returned(v, problem))
GoesOn(v, problems) == Become(v, WentOn(v, problems))

Unless(ok, problem) == IF ok THEN {} ELSE {problem}

(* What the verifier does when the Store returns an error: most checks     *)
(* return, some report and go on, some do not mind.                        *)
OnError(v) ==
    LET pc == ver[v].pc IN
    CASE pc \in {"getUnknown", "getConsumed", "expireClient"} -> WentOn(v, {"failed"})
      [] pc \in {"retakeCode", "retakePending", "getRevoked", "expireRefresh", "expireAtomic",
                 "clientGone", "tokenGone"} -> WentOn(v, {})
      [] pc \in {"readClient", "readRefresh", "readAtomic"} -> Moved(v, After[After[pc]], {})
      [] OTHER -> Returned(v, "failed")

(* Slip: the client canary has already expired when it is checked.         *)
CanarySlip(v, name) ==
    LET now == ver[v].now IN
    CASE name = "client" -> Row("clients", now, Zero)
      [] name = "code" -> Row("codes", now + Minute, Zero)
      [] name = "refresh" -> Row("tokens", now - Minute, now + Hour)
      [] name = "atomic" -> Row("tokens", now + Hour, now + Hour)
      [] OTHER -> Row("pending", now + Minute, Zero)

(* Slip: the atomicity canary is given a lifetime no purge will see.       *)
CanaryForeverSlip(v, name) ==
    LET now == ver[v].now IN
    CASE name = "client" -> Row("clients", now + Hour, Zero)
      [] name = "code" -> Row("codes", now + Minute, Zero)
      [] name = "refresh" -> Row("tokens", now - Minute, now + Hour)
      [] name = "atomic" -> Row("tokens", now + Hour, now + MaxTime)
      [] OTHER -> Row("pending", now + Minute, Zero)

(* The canaries.  The refresh canary's own lifetime has passed and its     *)
(* family's has not.                                                       *)
Canary(v, name) ==
    LET now == ver[v].now IN
    CASE name = "client" -> Row("clients", now + Hour, Zero)
      [] name = "code" -> Row("codes", now + Minute, Zero)
      [] name = "refresh" -> Row("tokens", now - Minute, now + Hour)
      [] name = "atomic" -> Row("tokens", now + Hour, now + Hour)
      [] OTHER -> Row("pending", now + Minute, Zero)

(* The eq and eqTime calls on what came back for a canary: every column    *)
(* but CreatedAt.                                                          *)
Mismatches(v, name, got) ==
    LET want == Canary(v, name) IN
    ((want.text \ {"CreatedAt"}) \ got.text)
      \cup Unless(got.ExpiresAt = want.ExpiresAt, "ExpiresAt")
      \cup Unless(got.FamilyExpiresAt = want.FamilyExpiresAt, "FamilyExpiresAt")
      \cup Unless(got.ConsumedAt = Zero, "ConsumedAt")

(* VerifyStore is called, whatever others are under way.                   *)
Begin(v) ==
    /\ At(v, "idle")
    /\ Become(v, [Idle EXCEPT !.pc = "saveClient", !.now = clock])
    /\ UNCHANGED <<clock, rows, store, racer>>

SavePcs == [saveClient |-> "client", saveCode |-> "code", savePending |-> "pending",
            saveFirst |-> "first", saveSecond |-> "second",
            saveRefresh |-> "refresh", saveAtomic |-> "atomic"]

(* SaveClient, SaveAuthCode, SavePendingAuth, SaveRefreshToken.            *)
Save(v) ==
    /\ ver[v].pc \in DOMAIN SavePcs
    /\ LET name == SavePcs[ver[v].pc]
           k == <<v, name>>
       IN  IF Refuses(k) THEN Become(v, OnError(v)) /\ UNCHANGED rows
           ELSE GoesOn(v, {}) /\ rows' = Saved(k, Canary(v, name))
    /\ UNCHANGED <<clock, store, racer>>

ReadPcs == [getClient |-> "client", getRefresh |-> "refresh"]

(* The first GetClient and GetRefreshToken.                                *)
ReadBack(v) ==
    /\ ver[v].pc \in DOMAIN ReadPcs
    /\ LET name == ReadPcs[ver[v].pc]
           got == rows[<<v, name>>]
       IN  IF got = None THEN Returns(v, "notFound") ELSE GoesOn(v, Mismatches(v, name, got))
    /\ UNCHANGED <<clock, rows, store, racer>>

TakePcs == [takeCode |-> "code", takePending |-> "pending",
            takeFirst |-> "first", takeSecond |-> "second"]

(* ConsumeAuthCode, ConsumePendingAuth.  Of the two pending records only   *)
(* the presence is looked at.                                              *)
Take(v) ==
    /\ ver[v].pc \in DOMAIN TakePcs
    /\ LET name == TakePcs[ver[v].pc]
           got == rows[<<v, name>>]
       IN  /\ IF got = None THEN Returns(v, "notFound")
              ELSE GoesOn(v, IF name \in {"first", "second"} THEN {} ELSE Mismatches(v, name, got))
           /\ rows' = Taken(<<v, name>>)
    /\ UNCHANGED <<clock, store, racer>>

RetakePcs == [retakeCode |-> "code", retakePending |-> "pending"]

(* The second consume of the same code or state.                           *)
Retake(v) ==
    /\ ver[v].pc \in DOMAIN RetakePcs
    /\ LET k == <<v, RetakePcs[ver[v].pc]>>
       IN  GoesOn(v, Unless(rows[k] = None, "notSingleUse")) /\ rows' = Taken(k)
    /\ UNCHANGED <<clock, store, racer>>

(* GetRefreshToken of a hash that was never issued.                        *)
GetUnknown(v) ==
    /\ At(v, "getUnknown")
    /\ IF Has("unknownIsError") THEN Become(v, OnError(v)) ELSE GoesOn(v, {})
    /\ UNCHANGED <<clock, rows, store, racer>>

PurgeEarly(v) ==
    /\ At(v, "purgeEarly")
    /\ GoesOn(v, {})
    /\ rows' = Purged(ver[v].now)
    /\ UNCHANGED <<clock, store, racer>>

(* The row must have survived the purge.                                   *)
GetKept(v) ==
    /\ At(v, "getKept")
    /\ IF GetToken(<<v, "refresh">>) = None THEN Returns(v, "purgedTooEarly") ELSE GoesOn(v, {})
    /\ UNCHANGED <<clock, rows, store, racer>>

(* The first ConsumeRefreshToken: the row as it was before the call.       *)
Consume(v) ==
    LET k == <<v, "refresh">>
        c == Consumed(rows[k], ver[v].now)
    IN
    /\ At(v, "consume")
    /\ IF c.got = None THEN Returns(v, "notFound")
       ELSE GoesOn(v, Unless(c.got.ConsumedAt = Zero, "returnedAfterStamp")
                        \cup Unless("FamilyID" \in c.got.text, "FamilyID"))
    /\ rows' = [rows EXCEPT ![k] = c.left]
    /\ UNCHANGED <<clock, store, racer>>

(* The second: the row is still there and carries the first stamp.         *)
Replay(v) ==
    LET k == <<v, "refresh">>
        c == Consumed(rows[k], ver[v].now + Hour)
    IN
    /\ At(v, "replay")
    /\ IF c.got = None THEN Returns(v, "deletedOnConsume")
       ELSE Become(v, [WentOn(v, Unless(c.got.ConsumedAt = ver[v].now, "ConsumedAt")
                                   \cup Unless("FamilyID" \in c.got.text, "FamilyID"))
                       EXCEPT !.second = c.got.ConsumedAt])
    /\ rows' = [rows EXCEPT ![k] = c.left]
    /\ UNCHANGED <<clock, store, racer>>

(* Slip: two calls are thought to be enough.                               *)
ReplayAgainSlip(v) ==
    /\ At(v, "replayAgain")
    /\ GoesOn(v, {})
    /\ UNCHANGED <<clock, rows, store, racer>>

(* The third: it still carries the first stamp.                            *)
ReplayAgain(v) ==
    LET k == <<v, "refresh">>
        c == Consumed(rows[k], ver[v].now + 2 * Hour)
    IN
    /\ At(v, "replayAgain")
    /\ IF c.got = None THEN Returns(v, "deletedOnConsume")
       ELSE GoesOn(v, Unless(c.got.ConsumedAt = ver[v].second /\ c.got.ConsumedAt = ver[v].now,
                             "restamped"))
    /\ rows' = [rows EXCEPT ![k] = c.left]
    /\ UNCHANGED <<clock, store, racer>>

GetConsumed(v) ==
    /\ At(v, "getConsumed")
    /\ GoesOn(v, Unless(GetToken(<<v, "refresh">>) # None, "hidesConsumed"))
    /\ UNCHANGED <<clock, rows, store, racer>>

(* RevokeRefreshTokenFamily.                                               *)
Revoke(v) ==
    /\ At(v, "revoke")
    /\ GoesOn(v, {})
    /\ rows' = Revoked(<<v, "refresh">>)
    /\ UNCHANGED <<clock, store, racer>>

GetRevoked(v) ==
    /\ At(v, "getRevoked")
    /\ GoesOn(v, Unless(GetToken(<<v, "refresh">>) = None, "revokedAlive"))
    /\ UNCHANGED <<clock, rows, store, racer>>

Outcome(got) ==
    IF got = None THEN "missing" ELSE IF got.ConsumedAt = Zero THEN "zero" ELSE "stamped"

(* One goroutine's ConsumeRefreshToken.  A Store that selects and then     *)
(* updates lets the others in between.                                     *)
RaceConsume(v, r) ==
    LET k == <<v, "atomic">>
        c == Consumed(rows[k], ver[v].now)
    IN
    /\ At(v, "race") /\ racer[v][r] = "wait"
    /\ IF Has("selectThenUpdate") /\ Outcome(c.got) = "zero"
       THEN racer' = [racer EXCEPT ![v][r] = "selected"] /\ UNCHANGED rows
       ELSE racer' = [racer EXCEPT ![v][r] = Outcome(c.got)] /\ rows' = [rows EXCEPT ![k] = c.left]
    /\ UNCHANGED <<clock, store, ver>>

RaceUpdate(v, r) ==
    LET k == <<v, "atomic">> IN
    /\ At(v, "race") /\ racer[v][r] = "selected"
    /\ racer' = [racer EXCEPT ![v][r] = "zero"]
    /\ rows' = [rows EXCEPT ![k] = IF rows[k] = None THEN None ELSE Stamped(rows[k], ver[v].now)]
    /\ UNCHANGED <<clock, store, ver>>

(* wg.Wait and the count of zero stamps.                                   *)
Tally(v) ==
    LET results == {racer[v][r] : r \in Racers}
        zeroCount == Cardinality({r \in Racers : racer[v][r] = "zero"})
    IN
    /\ At(v, "race") /\ results \cap {"wait", "selected"} = {}
    /\ GoesOn(v, IF results \cap {"error", "missing"} # {} THEN {"raceFailed"}
                 ELSE Unless(zeroCount = 1, "notAtomic"))
    /\ UNCHANGED <<clock, rows, store, racer>>

CleanPcs == [readClient |-> "client", readRefresh |-> "refresh", readAtomic |-> "atomic"]

(* Slip: `ok' is not looked at, so a row that is not there is saved again. *)
CleanReadSlip(v) ==
    /\ ver[v].pc \in DOMAIN CleanPcs
    /\ LET name == CleanPcs[ver[v].pc]
           got == IF name = "client" THEN rows[<<v, name>>] ELSE GetToken(<<v, name>>)
       IN  Become(v, [WentOn(v, {}) EXCEPT !.held = got])
    /\ UNCHANGED <<clock, rows, store, racer>>

(* cleanup reads a canary that may still be there, to save it expired.     *)
CleanRead(v) ==
    /\ ver[v].pc \in DOMAIN CleanPcs
    /\ LET name == CleanPcs[ver[v].pc]
           got == IF name = "client" THEN rows[<<v, name>>] ELSE GetToken(<<v, name>>)
       IN  IF got = None THEN Become(v, Moved(v, After[After[ver[v].pc]], {}))
           ELSE Become(v, [WentOn(v, {}) EXCEPT !.held = got])
    /\ UNCHANGED <<clock, rows, store, racer>>

ExpirePcs == [expireClient |-> "client", expireRefresh |-> "refresh", expireAtomic |-> "atomic"]

Expired(v, name, row) ==
    [row EXCEPT !.ExpiresAt = ver[v].now - Hour,
                !.FamilyExpiresAt = IF Table(name) = "tokens" THEN ver[v].now - Hour ELSE @]

(* Slip: only the client is handed over to the purge.                      *)
CleanExpireSlip(v) ==
    /\ ver[v].pc \in DOMAIN ExpirePcs
    /\ LET name == ExpirePcs[ver[v].pc]
           k == <<v, name>>
       IN  IF name # "client" \/ Refuses(k) THEN GoesOn(v, {}) /\ UNCHANGED rows
           ELSE GoesOn(v, {}) /\ rows' = Saved(k, Expired(v, name, ver[v].held))
    /\ UNCHANGED <<clock, store, racer>>

CleanExpire(v) ==
    /\ ver[v].pc \in DOMAIN ExpirePcs
    /\ LET name == ExpirePcs[ver[v].pc]
           k == <<v, name>>
       IN  IF Refuses(k) THEN Become(v, OnError(v)) /\ UNCHANGED rows
           ELSE GoesOn(v, {}) /\ rows' = Saved(k, Expired(v, name, ver[v].held))
    /\ UNCHANGED <<clock, store, racer>>

(* Slip: the purge is run as of a time when every canary has expired.      *)
FinalPurgeSlip(v) ==
    /\ At(v, "purge")
    /\ GoesOn(v, {})
    /\ rows' = Purged(ver[v].now + 2 * Hour)
    /\ UNCHANGED <<clock, store, racer>>

FinalPurge(v) ==
    /\ At(v, "purge")
    /\ GoesOn(v, {})
    /\ rows' = Purged(ver[v].now)
    /\ UNCHANGED <<clock, store, racer>>

ClientGone(v) ==
    /\ At(v, "clientGone")
    /\ GoesOn(v, Unless(rows[<<v, "client">>] = None, "keepsClients"))
    /\ UNCHANGED <<clock, rows, store, racer>>

TokenGone(v) ==
    /\ At(v, "tokenGone")
    /\ GoesOn(v, Unless(GetToken(<<v, "refresh">>) = None, "keepsTokens"))
    /\ UNCHANGED <<clock, rows, store, racer>>

Active(v) == ver[v].pc \notin {"idle", "done", "dead"}

Step(v) ==
    \/ Save(v) \/ ReadBack(v) \/ Take(v) \/ Retake(v)
    \/ GetUnknown(v) \/ PurgeEarly(v) \/ GetKept(v)
    \/ Consume(v) \/ Replay(v) \/ ReplayAgain(v) \/ GetConsumed(v)
    \/ Revoke(v) \/ GetRevoked(v)
    \/ \E r \in Racers : RaceConsume(v, r) \/ RaceUpdate(v, r)
    \/ Tally(v)
    \/ CleanRead(v) \/ CleanExpire(v)
    \/ FinalPurge(v) \/ ClientGone(v) \/ TokenGone(v)

-----------------------------------------------------------------------------
(* What happens around it.                                                 *)

Faulted(v) == ver[v].faulted \/ \E r \in Racers : racer[v][r] = "error"

Fallible(v) == <<v, store, ver[v].pc>> \in Fragile

(* A Store call fails: nothing happened, or a row was saved and the reply  *)
(* lost.                                                                   *)
StoreFault(v) ==
    LET pc == ver[v].pc IN
    /\ Fallible(v) /\ Active(v) /\ pc # "race"
    /\ Become(v, [OnError(v) EXCEPT !.faulted = TRUE])
    /\ \/ UNCHANGED rows
       \/ /\ pc \in DOMAIN SavePcs /\ ~Refuses(<<v, SavePcs[pc]>>)
          /\ rows' = Saved(<<v, SavePcs[pc]>>, Canary(v, SavePcs[pc]))
    /\ UNCHANGED <<clock, store, racer>>

(* A goroutine's call fails.                                               *)
RaceFault(v, r) ==
    /\ Fallible(v) /\ At(v, "race") /\ racer[v][r] = "wait"
    /\ racer' = [racer EXCEPT ![v][r] = "error"]
    /\ UNCHANGED <<clock, rows, store, ver>>

(* The process dies.                                                       *)
Crash(v) ==
    /\ Fallible(v) /\ Active(v)
    /\ Become(v, Moved(v, "dead", {}))
    /\ UNCHANGED <<clock, rows, store, racer>>

(* PurgeExpired from the application's ticker.                             *)
Ticker ==
    /\ rows' = Purged(clock)
    /\ UNCHANGED <<clock, store, ver, racer>>

(* A verification takes less than a minute.                                *)
Tick ==
    /\ clock < MaxTime
    /\ \A v \in Verifiers : Active(v) => clock + 1 < ver[v].now + Minute
    /\ clock' = clock + 1
    /\ UNCHANGED <<rows, store, ver, racer>>

Next ==
    \/ \E v \in Verifiers : Begin(v) \/ Step(v) \/ StoreFault(v) \/ Crash(v)
    \/ \E v \in Verifiers, r \in Racers : RaceFault(v, r)
    \/ Ticker
    \/ Tick

Spec == Init /\ [][Next]_vars

-----------------------------------------------------------------------------
(* Properties.                                                             *)

(* Defects VerifyStore is expected to find: a column that does not survive *)
(* and the behaviours its checks name.                                     *)
Probed ==
    (UNION {{<<t, col>> : col \in (Columns[t] \ {"CreatedAt"}) \cup {"ExpiresAt"}} : t \in DOMAIN Columns})
      \cup {<<"tokens", "FamilyExpiresAt">>, <<"tokens", "ConsumedAt">>}
      \cup {<<b>> : b \in {"codeReusable", "pendingReusable", "pendingByClient", "clientInserts",
                           "filtersExpired", "consumeDeletes", "updateReturning", "returnsAfter",
                           "restamps", "getHidesConsumed", "unknownIsError", "revokeNoop",
                           "purgesOwnExpiry", "purgeSkipsClients"}}

(* The type of every variable; a call that is about to expire a canary     *)
(* holds the row it read (the `ok' in cleanup).                            *)
TypeOK ==
    /\ clock \in 0..MaxTime
    /\ \A k \in Keys : rows[k] = None \/ rows[k] \in RowType
    /\ store \in [defect : Defects, insertOnly : BOOLEAN]
    /\ \A v \in Verifiers :
         /\ ver[v].pc \in Calls \cup {"idle", "done", "dead"}
         /\ ver[v].held \in RowType \cup {None}
         /\ ver[v].pc \in DOMAIN ExpirePcs => ver[v].held \in RowType
    /\ racer \in [Verifiers -> [Racers -> {"wait", "selected", "zero", "stamped", "missing", "error"}]]

(* A compliant Store passes, whatever purges and other verifications run   *)
(* meanwhile: VerifyStore "is safe to run alongside that ticker".          *)
CompliantNeverReported ==
    \A v \in Verifiers : Compliant /\ ~Faulted(v) => ver[v].problems = {}

(* A verification that ends without a failed call has found every defect   *)
(* it probes for, whatever the ticker and other verifications did          *)
(* meanwhile.                                                              *)
ProbedDefectsReported ==
    \A v \in Verifiers :
      At(v, "done") /\ ~Faulted(v) /\ store.defect \in Probed => ver[v].problems # {}

(* Verifying does not touch the application's live rows, its ledger of     *)
(* spent tokens included.                                                  *)
AppRowsUntouched == Compliant => \A n \in Names : rows[<<App, n>>] = AppRow(n)

(* A verification removes what it wrote.  Only the atomicity canary stays, *)
(* on a Store that does not let a refresh token be saved again, as pgstore *)
(* does not: cleanup cannot expire it there.                               *)
CleansUp ==
    \A v \in Verifiers :
      Compliant /\ At(v, "done") /\ ~Faulted(v)
        => \A n \in Names : rows[<<v, n>>] # None => n = "atomic" /\ store.insertOnly

(* What a verification may leave behind, because it died, a call of it     *)
(* failed or the Store refuses to save a token again, is gone with the     *)
(* first purge an hour after it began.                                     *)
LeftoversLapse ==
    Compliant =>
      \A v \in Verifiers, n \in Names :
        rows[<<v, n>>] # None => Lapsed(n, rows[<<v, n>>], ver[v].now + Hour + 1)

(* The purge defects STORE-CONTRACT.md says VerifyStore detects: one that  *)
(* deletes a ledger row too early, one "that skips the refresh-token or    *)
(* client table entirely".                                                 *)
PurgeDefectsReported ==
    \A v \in Verifiers :
      /\ At(v, "done") /\ ~Faulted(v)
      /\ store.defect \in {<<"purgesOwnExpiry">>, <<"purgeSkipsTokens">>, <<"purgeSkipsClients">>}
      => ver[v].problems # {}
=============================================================================
