------------------------- MODULE VerifyStoreProofs --------------------------
(***************************************************************************)
(* The properties of VerifyStore for every number of verifications and     *)
(* goroutines, every length of a minute and an hour, and every Store.      *)
(***************************************************************************)
EXTENDS VerifyStore, FiniteSetTheorems, TLAPS

Pcs == Calls \cup {"idle", "done", "dead"}

Complaints ==
    (UNION {Columns[t] : t \in DOMAIN Columns})
      \cup {"failed", "ExpiresAt", "FamilyExpiresAt", "ConsumedAt", "notFound", "notSingleUse",
            "purgedTooEarly", "returnedAfterStamp", "FamilyID", "deletedOnConsume", "restamped",
            "hidesConsumed", "revokedAlive", "raceFailed", "notAtomic", "keepsClients", "keepsTokens"}

Local == [pc : Pcs, now : Nat, problems : SUBSET Complaints, second : Nat,
          held : RowType \cup {None}, faulted : BOOLEAN]

Outcomes == {"wait", "selected", "zero", "stamped", "missing", "error"}

(* What is the case whatever the Store does: a verification is at work for *)
(* less than a minute, and holds a row when it is about to save one.       *)
LocalOK(v) ==
    /\ ver[v].pc = "idle" => ver[v] = Idle
    /\ ver[v].pc # "idle" => Hour < ver[v].now /\ ver[v].now <= clock
    /\ Active(v) => clock < ver[v].now + Minute
    /\ ver[v].pc \in DOMAIN ExpirePcs => ver[v].held # None

TypeInv ==
    /\ clock \in Nat /\ Hour < clock /\ clock <= MaxTime
    /\ rows \in [Keys -> RowType \cup {None}]
    /\ store \in [defect : Defects, insertOnly : BOOLEAN]
    /\ ver \in [Verifiers -> Local]
    /\ racer \in [Verifiers -> [Racers -> Outcomes]]
    /\ \A v \in Verifiers : LocalOK(v)

(* The calls in their order; 0 before the first one and for a dead process. *)
Rank ==
    [saveClient |-> 1, getClient |-> 2, saveCode |-> 3, takeCode |-> 4, retakeCode |-> 5,
     savePending |-> 6, takePending |-> 7, retakePending |-> 8, saveFirst |-> 9,
     saveSecond |-> 10, takeFirst |-> 11, takeSecond |-> 12, saveRefresh |-> 13,
     getRefresh |-> 14, getUnknown |-> 15, purgeEarly |-> 16, getKept |-> 17, consume |-> 18,
     replay |-> 19, replayAgain |-> 20, getConsumed |-> 21, revoke |-> 22, getRevoked |-> 23,
     saveAtomic |-> 24, race |-> 25, readClient |-> 26, expireClient |-> 27, readRefresh |-> 28,
     expireRefresh |-> 29, readAtomic |-> 30, expireAtomic |-> 31, purge |-> 32,
     clientGone |-> 33, tokenGone |-> 34, done |-> 35, idle |-> 0, dead |-> 0]

Reached(v) == Rank[ver[v].pc]
Own(v, name) == rows[<<v, name>>]

(* What is in the table after a canary was saved, and after the refresh or *)
(* atomicity canary was consumed.                                          *)
Stored(v, name) == Written(name, Canary(v, name))
Spent(v, name) == [Stored(v, name) EXCEPT !.ConsumedAt = ver[v].now]

(* A call writes no token before its own, whatever fails.                  *)
Fresh(v) ==
    /\ ver[v].pc = "idle" => \A name \in Names : Own(v, name) = None
    /\ ver[v].pc # "dead" /\ Reached(v) <= 13 => Own(v, "refresh") = None
    /\ ver[v].pc # "dead" /\ Reached(v) <= 24 => Own(v, "atomic") = None
    /\ ver[v].pc # "dead" /\ Reached(v) <= 24 => \A r \in Racers : racer[v][r] \in {"wait"}

Probe(t) == (Columns[t] \ {"CreatedAt"}) \cup {"ExpiresAt"}

(* The defects a verification without problems has ruled out so far.       *)
Cleared(v) ==
    /\ Reached(v) > 2 => \A c \in Probe("clients") : ~Drops("clients", c)
    /\ Reached(v) > 4 => \A c \in Probe("codes") : ~Drops("codes", c)
    /\ Reached(v) > 5 => ~Has("codeReusable")
    /\ Reached(v) > 7 => \A c \in Probe("pending") : ~Drops("pending", c)
    /\ Reached(v) > 8 => ~Has("pendingReusable")
    /\ Reached(v) > 11 => ~Has("pendingByClient")
    /\ Reached(v) > 14 => \A c \in Probe("tokens") \cup {"FamilyExpiresAt"} : ~Drops("tokens", c)
    /\ Reached(v) > 15 => ~Has("unknownIsError")
    /\ Reached(v) > 17 => ~Has("purgesOwnExpiry")
    /\ Reached(v) > 18 => ~Has("filtersExpired") /\ ~Has("updateReturning") /\ ~Has("returnsAfter")
    /\ Reached(v) > 19 => ~Has("consumeDeletes") /\ ~Drops("tokens", "ConsumedAt")
    /\ Reached(v) > 20 => ~Has("restamps")
    /\ Reached(v) > 21 => ~Has("getHidesConsumed")
    /\ Reached(v) > 23 => ~Has("revokeNoop")
    /\ Reached(v) > 27 => ~Has("clientInserts")
    /\ Reached(v) > 33 => ~Has("purgeSkipsClients")

(* The rows of a verification without problems.                            *)
ClientRow(v) ==
    /\ Reached(v) = 2 => Own(v, "client") = Stored(v, "client") \/ Drops("clients", "ExpiresAt")
    /\ Reached(v) \in 3..27 => Own(v, "client") = Stored(v, "client")
    /\ Reached(v) = 27 => ver[v].held = Stored(v, "client")
    /\ Reached(v) \in 28..32 =>
         \/ Own(v, "client") = None /\ ~Has("purgeSkipsClients")
         \/ Own(v, "client") # None /\ Own(v, "client").ExpiresAt = ver[v].now - Hour
    /\ Reached(v) \in 33..35 => (Own(v, "client") = None <=> ~Has("purgeSkipsClients"))

CodeRow(v) ==
    /\ Reached(v) = 4 => Own(v, "code") = Stored(v, "code") \/ Drops("codes", "ExpiresAt")
    /\ Reached(v) = 5 => Own(v, "code") = IF Has("codeReusable") THEN Stored(v, "code") ELSE None
    /\ Reached(v) > 5 => Own(v, "code") = None

PendingRow(v) ==
    /\ Reached(v) = 7 => Own(v, "pending") = Stored(v, "pending") \/ Drops("pending", "ExpiresAt")
    /\ Reached(v) = 8 => Own(v, "pending") = IF Has("pendingReusable") THEN Stored(v, "pending") ELSE None
    /\ Reached(v) > 8 => Own(v, "pending") = None

PairRows(v) ==
    /\ Reached(v) = 10 => Own(v, "first") = Stored(v, "first")
    /\ Reached(v) = 11 => Own(v, "first") = IF Has("pendingByClient") THEN None ELSE Stored(v, "first")
    /\ Reached(v) > 11 => Own(v, "first") = None
    /\ Reached(v) \in {11, 12} => Own(v, "second") = Stored(v, "second")
    /\ Reached(v) > 12 => Own(v, "second") = None

RefreshRow(v) ==
    /\ Reached(v) = 14 =>
         \/ Own(v, "refresh") = Stored(v, "refresh")
         \/ Own(v, "refresh") = None /\ (Drops("tokens", "FamilyExpiresAt") \/ Has("purgesOwnExpiry"))
    /\ Reached(v) \in {15, 16} =>
         \/ Own(v, "refresh") = Stored(v, "refresh")
         \/ Own(v, "refresh") = None /\ Has("purgesOwnExpiry")
    /\ Reached(v) = 17 => Own(v, "refresh") = IF Has("purgesOwnExpiry") THEN None ELSE Stored(v, "refresh")
    /\ Reached(v) = 18 => Own(v, "refresh") = Stored(v, "refresh")
    /\ Reached(v) = 19 => Own(v, "refresh") = IF Has("consumeDeletes") THEN None
                                              ELSE IF Drops("tokens", "ConsumedAt") THEN Stored(v, "refresh")
                                              ELSE Spent(v, "refresh")
    /\ Reached(v) = 20 =>
         /\ ver[v].second = ver[v].now
         /\ Own(v, "refresh") = IF Has("restamps")
                                THEN [Spent(v, "refresh") EXCEPT !.ConsumedAt = ver[v].now + Hour]
                                ELSE Spent(v, "refresh")
    /\ Reached(v) \in {21, 22} => Own(v, "refresh") = Spent(v, "refresh")
    /\ Reached(v) = 23 => Own(v, "refresh") = IF Has("revokeNoop") THEN Spent(v, "refresh") ELSE None
    /\ Reached(v) > 23 => Own(v, "refresh") = None
    /\ Reached(v) # 29

(* One goroutine gets the row unstamped and stamps it, all others get it   *)
(* stamped.                                                                *)
RaceOK(v) ==
    \/ Own(v, "atomic") = Stored(v, "atomic") /\ \A r \in Racers : racer[v][r] = "wait"
    \/ /\ Own(v, "atomic") = Spent(v, "atomic")
       /\ \E z \in Racers : /\ racer[v][z] = "zero"
                            /\ \A r \in Racers \ {z} : racer[v][r] \in {"wait", "stamped"}

AtomicRow(v) ==
    Compliant =>
      /\ Reached(v) = 25 => RaceOK(v)
      /\ Reached(v) = 32 /\ ~store.insertOnly =>
           \/ Own(v, "atomic") = None
           \/ /\ Own(v, "atomic").ExpiresAt = ver[v].now - Hour
              /\ Own(v, "atomic").FamilyExpiresAt = ver[v].now - Hour
      /\ Reached(v) > 32 /\ ~store.insertOnly => Own(v, "atomic") = None

Expected(v) ==
    /\ Cleared(v)
    /\ ClientRow(v) /\ CodeRow(v) /\ PendingRow(v) /\ PairRows(v)
    /\ RefreshRow(v) /\ AtomicRow(v)

(* What a Store does not keep is in none of a verification's rows.         *)
DroppedOK(v) ==
    \A name \in Names : Own(v, name) # None =>
      /\ \A c \in Own(v, name).text : ~Drops(Table(name), c)
      /\ Drops(Table(name), "ExpiresAt") => Own(v, name).ExpiresAt = Zero
      /\ Drops(Table(name), "FamilyExpiresAt") => Own(v, name).FamilyExpiresAt = Zero

(* No canary outlives the hour after the verification began.               *)
Brief(v) ==
    \A name \in Names : Own(v, name) # None =>
      /\ Own(v, name).ExpiresAt <= ver[v].now + Hour
      /\ Table(name) = "tokens" => Own(v, name).FamilyExpiresAt <= ver[v].now + Hour

(* The first layer, which holds whatever the Store does.                   *)
RowInv ==
    /\ TypeInv
    /\ \A v \in Verifiers : Fresh(v) /\ DroppedOK(v) /\ Brief(v)
    /\ AppRowsUntouched

(* The second, about verifications no call of which has failed.            *)
ProbeInv ==
    /\ RowInv
    /\ \A v \in Verifiers : ~Faulted(v) /\ ver[v].problems = {} => Expected(v)
    /\ CompliantNeverReported

-----------------------------------------------------------------------------
(* The operators.                                                          *)

(* The order of the calls, one by one.                                     *)
LEMMA AfterValues ==
  /\ After["saveClient"] = "getClient" /\ After["getClient"] = "saveCode"
  /\ After["saveCode"] = "takeCode" /\ After["takeCode"] = "retakeCode"
  /\ After["retakeCode"] = "savePending" /\ After["savePending"] = "takePending"
  /\ After["takePending"] = "retakePending" /\ After["retakePending"] = "saveFirst"
  /\ After["saveFirst"] = "saveSecond" /\ After["saveSecond"] = "takeFirst"
  /\ After["takeFirst"] = "takeSecond" /\ After["takeSecond"] = "saveRefresh"
  /\ After["saveRefresh"] = "getRefresh" /\ After["getRefresh"] = "getUnknown"
  /\ After["getUnknown"] = "purgeEarly" /\ After["purgeEarly"] = "getKept"
  /\ After["getKept"] = "consume" /\ After["consume"] = "replay"
  /\ After["replay"] = "replayAgain" /\ After["replayAgain"] = "getConsumed"
  /\ After["getConsumed"] = "revoke" /\ After["revoke"] = "getRevoked"
  /\ After["getRevoked"] = "saveAtomic" /\ After["saveAtomic"] = "race"
  /\ After["race"] = "readClient" /\ After["readClient"] = "expireClient"
  /\ After["expireClient"] = "readRefresh" /\ After["readRefresh"] = "expireRefresh"
  /\ After["expireRefresh"] = "readAtomic" /\ After["readAtomic"] = "expireAtomic"
  /\ After["expireAtomic"] = "purge" /\ After["purge"] = "clientGone"
  /\ After["clientGone"] = "tokenGone" /\ After["tokenGone"] = "done"
  BY DEF After

LEMMA RankValues ==
  /\ Rank["saveClient"] = 1 /\ Rank["getClient"] = 2 /\ Rank["saveCode"] = 3
  /\ Rank["takeCode"] = 4 /\ Rank["retakeCode"] = 5 /\ Rank["savePending"] = 6
  /\ Rank["takePending"] = 7 /\ Rank["retakePending"] = 8 /\ Rank["saveFirst"] = 9
  /\ Rank["saveSecond"] = 10 /\ Rank["takeFirst"] = 11 /\ Rank["takeSecond"] = 12
  /\ Rank["saveRefresh"] = 13 /\ Rank["getRefresh"] = 14 /\ Rank["getUnknown"] = 15
  /\ Rank["purgeEarly"] = 16 /\ Rank["getKept"] = 17 /\ Rank["consume"] = 18
  /\ Rank["replay"] = 19 /\ Rank["replayAgain"] = 20 /\ Rank["getConsumed"] = 21
  /\ Rank["revoke"] = 22 /\ Rank["getRevoked"] = 23 /\ Rank["saveAtomic"] = 24
  /\ Rank["race"] = 25 /\ Rank["readClient"] = 26 /\ Rank["expireClient"] = 27
  /\ Rank["readRefresh"] = 28 /\ Rank["expireRefresh"] = 29 /\ Rank["readAtomic"] = 30
  /\ Rank["expireAtomic"] = 31 /\ Rank["purge"] = 32 /\ Rank["clientGone"] = 33
  /\ Rank["tokenGone"] = 34 /\ Rank["done"] = 35 /\ Rank["idle"] = 0 /\ Rank["dead"] = 0
  BY DEF Rank

LEMMA RankAfter ==
  ASSUME NEW pc \in Calls
  PROVE  /\ After[pc] \in Calls \cup {"done"} /\ Rank[pc] \in 1..34
         /\ Rank[After[pc]] = Rank[pc] + 1
  BY AfterValues, RankValues DEF Calls, ClientCalls, CodeCalls, PendingCalls, TokenCalls, CleanCalls

LEMMA BailValues ==
  ASSUME NEW pc \in Calls
  PROVE  Bail[pc] \in {"saveCode", "savePending", "saveRefresh", "readClient", "done"}
  BY DEF Bail
LEMMA CallsArePcs ==
  /\ Calls \subseteq Pcs /\ {"idle", "done", "dead"} \subseteq Pcs
  /\ Calls \cap {"idle", "done", "dead"} = {}
  BY DEF Pcs, Calls, ClientCalls, CodeCalls, PendingCalls, TokenCalls, CleanCalls

(* A compliant Store has no defect, and a Store has at most one.           *)
LEMMA Defect ==
  /\ Compliant => \A t, c : ~Drops(t, c)
  /\ Compliant => \A d : d # "none" => ~Has(d)
  /\ \A d, e : Has(d) /\ Has(e) => d = e
  /\ \A d, t, c : Has(d) => ~Drops(t, c)
  /\ \A t, c, u, e : Drops(t, c) /\ Drops(u, e) => t = u /\ c = e
  <1>1. \A d, t, c : Has(d) => ~Drops(t, c)
    BY DEF Has, Drops
  <1>2. \A d, e : Has(d) /\ Has(e) => d = e
    BY DEF Has
  <1>3. \A t, c, u, e : Drops(t, c) /\ Drops(u, e) => t = u /\ c = e
    BY DEF Drops
  <1>. QED BY <1>1, <1>2, <1>3 DEF Compliant

LEMMA TableValues ==
  /\ Table("client") = "clients" /\ Table("code") = "codes"
  /\ Table("pending") = "pending" /\ Table("first") = "pending" /\ Table("second") = "pending"
  /\ Table("refresh") = "tokens" /\ Table("atomic") = "tokens"
  /\ \A name \in Names : Table(name) \in DOMAIN Columns
  BY DEF Table, Names, Columns

(* Rows have their types.                                                  *)
LEMMA RowIsTyped ==
  ASSUME NEW t \in DOMAIN Columns, NEW e \in Nat, NEW f \in Nat
  PROVE  Row(t, e, f) \in RowType
  BY DEF Row, RowType, Zero

LEMMA CanaryIsTyped ==
  ASSUME TypeInv, NEW v \in Verifiers, NEW name \in Names, Hour < ver[v].now
  PROVE  /\ Canary(v, name) \in RowType
         /\ Canary(v, name).ConsumedAt = Zero
         /\ Canary(v, name).text = Columns[Table(name)]
  <1>1. ver[v].now \in Nat /\ ver[v].now - Minute \in Nat /\ ver[v].now + Hour \in Nat /\ ver[v].now + Minute \in Nat
    BY TimeAssumption DEF TypeInv, Local
  <1>2. {"clients", "codes", "tokens", "pending"} = DOMAIN Columns
    BY DEF Columns
  <1>3. Canary(v, name) \in RowType
    BY <1>1, <1>2, RowIsTyped DEF Canary, Zero
  <1>. QED BY <1>3, TableValues DEF Canary, Row, Names

LEMMA WrittenIsTyped ==
  ASSUME NEW row \in RowType, NEW name
  PROVE  Written(name, row) \in RowType
  BY DEF Written, RowType, Zero

LEMMA StampedIsTyped ==
  ASSUME NEW row \in RowType, NEW at \in Nat
  PROVE  Stamped(row, at) \in RowType
  BY DEF Stamped, RowType

LEMMA ConsumedIsTyped ==
  ASSUME NEW row \in RowType \cup {None}, NEW at \in Nat
  PROVE  Consumed(row, at).got \in RowType \cup {None} /\ Consumed(row, at).left \in RowType \cup {None}
  <1>1. CASE row = None
    BY <1>1 DEF Consumed
  <1>2. CASE row # None
    BY <1>2, StampedIsTyped DEF Consumed
  <1>. QED BY <1>1, <1>2

-----------------------------------------------------------------------------
(* What every step of a verification has in common.                        *)

(* A purge, or a change of v's own rows.                                   *)
Rewrites(v) ==
    /\ rows' \in [Keys -> RowType \cup {None}]
    /\ \/ \A k \in Keys : k[1] # v => rows'[k] = rows[k]
       \/ \E before \in 0..clock : rows' = Purged(before)

Walks(v) ==
    /\ ver' \in [Verifiers -> Local]
    /\ \A w \in Verifiers \ {v} : ver'[w] = ver[w]
    /\ LocalOK(v)'

Acts(v) ==
    /\ clock' = clock /\ store' = store
    /\ Rewrites(v) /\ Walks(v)
    /\ racer' \in [Verifiers -> [Racers -> Outcomes]]
    /\ \A w \in Verifiers \ {v} : racer'[w] = racer[w]

LEMMA DomainValues ==
  /\ DOMAIN SavePcs = {"saveClient", "saveCode", "savePending", "saveFirst", "saveSecond",
                       "saveRefresh", "saveAtomic"}
  /\ DOMAIN ReadPcs = {"getClient", "getRefresh"}
  /\ DOMAIN TakePcs = {"takeCode", "takePending", "takeFirst", "takeSecond"}
  /\ DOMAIN RetakePcs = {"retakeCode", "retakePending"}
  /\ DOMAIN CleanPcs = {"readClient", "readRefresh", "readAtomic"}
  /\ DOMAIN ExpirePcs = {"expireClient", "expireRefresh", "expireAtomic"}
  BY DEF SavePcs, ReadPcs, TakePcs, RetakePcs, CleanPcs, ExpirePcs

LEMMA PcValues ==
  /\ \A pc \in DOMAIN SavePcs : SavePcs[pc] \in Names
  /\ \A pc \in DOMAIN ReadPcs : ReadPcs[pc] \in Names
  /\ \A pc \in DOMAIN TakePcs : TakePcs[pc] \in Names
  /\ \A pc \in DOMAIN RetakePcs : RetakePcs[pc] \in Names
  /\ \A pc \in DOMAIN CleanPcs : CleanPcs[pc] \in Names
  /\ \A pc \in DOMAIN ExpirePcs : ExpirePcs[pc] \in Names
  /\ DOMAIN SavePcs \cup DOMAIN ReadPcs \cup DOMAIN TakePcs \cup DOMAIN RetakePcs
       \cup DOMAIN CleanPcs \cup DOMAIN ExpirePcs \subseteq Calls
  <1>1. /\ \A pc \in DOMAIN SavePcs : SavePcs[pc] \in Names
        /\ \A pc \in DOMAIN ReadPcs : ReadPcs[pc] \in Names
        /\ \A pc \in DOMAIN TakePcs : TakePcs[pc] \in Names
        /\ \A pc \in DOMAIN RetakePcs : RetakePcs[pc] \in Names
        /\ \A pc \in DOMAIN CleanPcs : CleanPcs[pc] \in Names
        /\ \A pc \in DOMAIN ExpirePcs : ExpirePcs[pc] \in Names
    BY DEF SavePcs, ReadPcs, TakePcs, RetakePcs, CleanPcs, ExpirePcs, Names
  <1>. QED BY <1>1, DomainValues
           DEF Calls, ClientCalls, CodeCalls, PendingCalls, TokenCalls, CleanCalls

LEMMA MovedIsLocal ==
  ASSUME TypeInv, NEW v \in Verifiers, NEW pc \in Pcs, NEW P \in SUBSET Complaints
  PROVE  /\ Moved(v, pc, P) \in Local
         /\ Moved(v, pc, P).pc = pc /\ Moved(v, pc, P).now = ver[v].now
         /\ Moved(v, pc, P).problems = ver[v].problems \cup P
         /\ Moved(v, pc, P).second = ver[v].second /\ Moved(v, pc, P).held = ver[v].held
         /\ Moved(v, pc, P).faulted = ver[v].faulted
  BY DEF TypeInv, Local, Moved

(* A verification at work takes a step.                                    *)
LEMMA Walking ==
  ASSUME TypeInv, NEW v \in Verifiers, NEW q \in Local, Become(v, q), clock' = clock,
         ver[v].pc \in Calls, q.now = ver[v].now, q.pc # "idle",
         q.pc \in DOMAIN ExpirePcs => q.held # None
  PROVE  Walks(v) /\ ver'[v] = q
  <1>1. ver' = [ver EXCEPT ![v] = q] /\ ver \in [Verifiers -> Local] /\ LocalOK(v)
    BY DEF Become, TypeInv
  <1>2. ver' \in [Verifiers -> Local] /\ ver'[v] = q /\ \A w \in Verifiers \ {v} : ver'[w] = ver[w]
    BY <1>1
  <1>3. Active(v) /\ ver[v].pc # "idle"
    BY CallsArePcs DEF Active
  <1>4. LocalOK(v)'
    BY <1>1, <1>2, <1>3 DEF LocalOK, Active
  <1>. QED BY <1>2, <1>4 DEF Walks

LEMMA GoingOn ==
  ASSUME TypeInv, NEW v \in Verifiers, NEW P \in SUBSET Complaints, GoesOn(v, P), clock' = clock,
         ver[v].pc \in Calls \ DOMAIN CleanPcs
  PROVE  /\ Walks(v) /\ ver'[v] = WentOn(v, P) /\ WentOn(v, P) \in Local
         /\ ver'[v].pc = After[ver[v].pc] /\ ver'[v].problems = ver[v].problems \cup P
         /\ ver'[v].now = ver[v].now /\ ver'[v].held = ver[v].held
         /\ ver'[v].faulted = ver[v].faulted
  <1>1. After[ver[v].pc] \in Calls \cup {"done"} /\ After[ver[v].pc] \notin DOMAIN ExpirePcs
        /\ After[ver[v].pc] # "idle"
    BY RankAfter, AfterValues, DomainValues, CallsArePcs
       DEF Calls, ClientCalls, CodeCalls, PendingCalls, TokenCalls, CleanCalls
  <1>2. After[ver[v].pc] \in Pcs
    BY <1>1, CallsArePcs
  <1>. QED BY <1>1, <1>2, MovedIsLocal, Walking DEF GoesOn, WentOn

LEMMA Returning ==
  ASSUME TypeInv, NEW v \in Verifiers, NEW p \in Complaints, Returns(v, p), clock' = clock,
         ver[v].pc \in Calls
  PROVE  /\ Walks(v) /\ ver'[v].problems # {}
         /\ ver'[v].pc = Bail[ver[v].pc] /\ ver'[v].now = ver[v].now
         /\ ver'[v].faulted = ver[v].faulted
  <1>1. Bail[ver[v].pc] \in {"saveCode", "savePending", "saveRefresh", "readClient", "done"}
    BY BailValues
  <1>2. Bail[ver[v].pc] \in Pcs /\ Bail[ver[v].pc] # "idle" /\ Bail[ver[v].pc] \notin DOMAIN ExpirePcs
    BY <1>1, DomainValues DEF Pcs, Calls, ClientCalls, CodeCalls, PendingCalls, TokenCalls, CleanCalls
  <1>3. Returned(v, p) \in Local /\ Returned(v, p).pc = Bail[ver[v].pc]
        /\ Returned(v, p).now = ver[v].now /\ Returned(v, p).problems = ver[v].problems \cup {p}
        /\ Returned(v, p).faulted = ver[v].faulted
    BY <1>2, MovedIsLocal DEF Returned
  <1>. QED BY <1>2, <1>3, Walking DEF Returns

(* The Store returned an error: where the call goes on, and that it keeps  *)
(* a record of it unless it does not mind.                                 *)
LEMMA OnErrorIsLocal ==
  ASSUME TypeInv, NEW v \in Verifiers, ver[v].pc \in Calls
  PROVE  /\ OnError(v) \in Local /\ OnError(v).now = ver[v].now
         /\ OnError(v).pc \in Calls \cup {"done"}
         /\ OnError(v).pc \notin DOMAIN ExpirePcs
         /\ ver[v].pc # "race" => \/ Rank[ver[v].pc] <= 12 /\ Rank[OnError(v).pc] <= 13
                                  \/ Rank[ver[v].pc] \in 13..24 /\ OnError(v).pc = "readClient"
                                  \/ Rank[ver[v].pc] \in 13..23 /\ Rank[OnError(v).pc] = Rank[ver[v].pc] + 1
                                  \/ Rank[ver[v].pc] >= 26 /\ Rank[OnError(v).pc] >= 26
         /\ ver[v].pc \in {"saveClient", "saveCode", "savePending", "saveFirst", "saveSecond",
                           "saveRefresh", "saveAtomic", "expireClient", "getUnknown"}
              => OnError(v).problems # {}
         /\ ver[v].pc \in {"expireRefresh", "expireAtomic"} => OnError(v) = WentOn(v, {})
         /\ OnError(v).faulted = ver[v].faulted
  <1>. DEFINE pc == ver[v].pc
  <1>0. {} \in SUBSET Complaints /\ {"failed"} \in SUBSET Complaints
    BY DEF Complaints
  <1>1. CASE pc \in {"getUnknown", "getConsumed", "expireClient"}
    <2>1. OnError(v) = Moved(v, After[pc], {"failed"})
      BY <1>1 DEF OnError, WentOn
    <2>2. /\ After[pc] \in Pcs /\ After[pc] \in Calls /\ After[pc] \notin DOMAIN ExpirePcs
          /\ Rank[After[pc]] = Rank[pc] + 1 /\ Rank[pc] \in {15, 21, 27}
      BY <1>1, RankAfter, AfterValues, RankValues, DomainValues, CallsArePcs
         DEF Calls, ClientCalls, CodeCalls, PendingCalls, TokenCalls, CleanCalls
    <2>. QED BY <1>0, <1>1, <2>1, <2>2, MovedIsLocal
  <1>2. CASE pc \in {"retakeCode", "retakePending", "getRevoked", "expireRefresh", "expireAtomic",
                     "clientGone", "tokenGone"}
    <2>1. OnError(v) = Moved(v, After[pc], {})
      BY <1>2 DEF OnError, WentOn
    <2>2. /\ After[pc] \in Pcs /\ After[pc] \in Calls \cup {"done"} /\ After[pc] \notin DOMAIN ExpirePcs
          /\ Rank[After[pc]] = Rank[pc] + 1 /\ Rank[pc] \in {5, 8, 23, 29, 31, 33, 34}
      BY <1>2, RankAfter, AfterValues, RankValues, DomainValues, CallsArePcs
         DEF Calls, ClientCalls, CodeCalls, PendingCalls, TokenCalls, CleanCalls
    <2>. QED BY <1>0, <1>2, <2>1, <2>2, MovedIsLocal DEF WentOn
  <1>3. CASE pc \in {"readClient", "readRefresh", "readAtomic"}
    <2>1. OnError(v) = Moved(v, After[After[pc]], {})
      BY <1>3 DEF OnError
    <2>2. /\ After[After[pc]] \in Pcs /\ After[After[pc]] \in Calls
          /\ After[After[pc]] \notin DOMAIN ExpirePcs
          /\ Rank[After[After[pc]]] >= 26 /\ Rank[pc] >= 26
      BY <1>3, AfterValues, RankValues, DomainValues, CallsArePcs
         DEF Calls, ClientCalls, CodeCalls, PendingCalls, TokenCalls, CleanCalls
    <2>. QED BY <1>0, <1>3, <2>1, <2>2, MovedIsLocal
  <1>4. CASE pc \notin {"getUnknown", "getConsumed", "expireClient", "retakeCode", "retakePending",
                        "getRevoked", "expireRefresh", "expireAtomic", "clientGone", "tokenGone",
                        "readClient", "readRefresh", "readAtomic"}
    <2>1. OnError(v) = Moved(v, Bail[pc], {"failed"})
      BY <1>4 DEF OnError, Returned
    <2>2. /\ Bail[pc] \in {"saveCode", "savePending", "saveRefresh", "readClient", "done"}
          /\ Bail[pc] \in Pcs /\ Bail[pc] \in Calls \cup {"done"} /\ Bail[pc] \notin DOMAIN ExpirePcs
      BY BailValues, DomainValues
         DEF Pcs, Calls, ClientCalls, CodeCalls, PendingCalls, TokenCalls, CleanCalls
    <2>3. /\ pc \in ClientCalls => Rank[pc] <= 12 /\ Bail[pc] = "saveCode"
          /\ pc \in CodeCalls => Rank[pc] <= 12 /\ Bail[pc] = "savePending"
          /\ pc \in PendingCalls => Rank[pc] <= 12 /\ Bail[pc] = "saveRefresh"
          /\ pc \in TokenCalls \ {"race"} => Rank[pc] \in 13..24 /\ Bail[pc] = "readClient"
          /\ pc \in CleanCalls => Rank[pc] >= 26 /\ Bail[pc] = "done"
      BY RankValues DEF Bail, Calls, ClientCalls, CodeCalls, PendingCalls, TokenCalls, CleanCalls
    <2>4. OnError(v).pc = Bail[pc] /\ OnError(v) \in Local /\ OnError(v).now = ver[v].now
          /\ OnError(v).problems # {} /\ OnError(v).faulted = ver[v].faulted
      BY <1>0, <2>1, <2>2, MovedIsLocal
    <2>5. Rank["saveCode"] = 3 /\ Rank["savePending"] = 6 /\ Rank["saveRefresh"] = 13 /\ Rank["readClient"] = 26
          /\ Rank["done"] = 35
      BY RankValues
    <2>. QED BY <1>4, <2>2, <2>3, <2>4, <2>5 DEF Calls
  <1>. QED BY <1>1, <1>2, <1>3, <1>4

(* The rows.                                                               *)
LEMMA KeyIsOwn ==
  ASSUME NEW v \in Verifiers \cup {App}, NEW name \in Names
  PROVE  /\ <<v, name>> \in Keys /\ <<v, name>>[1] = v /\ <<v, name>>[2] = name
         /\ \A k \in Keys : k[1] = v /\ k[2] = name => k = <<v, name>>
  BY DEF Keys

LEMMA PurgedIsTyped ==
  ASSUME TypeInv, NEW before \in 0..clock, rows' = Purged(before), NEW v
  PROVE  Rewrites(v)
  BY DEF Rewrites, Purged, TypeInv

LEMMA OneRow ==
  ASSUME TypeInv, NEW v \in Verifiers, NEW name \in Names, NEW row \in RowType \cup {None},
         rows' = [rows EXCEPT ![<<v, name>>] = row]
  PROVE  /\ Rewrites(v)
         /\ Own(v, name)' = row
         /\ \A m \in Names \ {name} : Own(v, m)' = Own(v, m)
  <1>1. <<v, name>> \in Keys /\ <<v, name>>[1] = v /\ \A m \in Names : <<v, m>> \in Keys
    BY KeyIsOwn
  <1>2. rows' \in [Keys -> RowType \cup {None}] /\ \A k \in Keys : k[1] # v => rows'[k] = rows[k]
    BY <1>1 DEF TypeInv
  <1>3. Own(v, name)' = row /\ \A m \in Names \ {name} : Own(v, m)' = Own(v, m)
    BY <1>1 DEF TypeInv, Own
  <1>. QED BY <1>2, <1>3 DEF Rewrites

LEMMA SameRows ==
  ASSUME TypeInv, UNCHANGED rows, NEW v
  PROVE  Rewrites(v) /\ \A m \in Names : Own(v, m)' = Own(v, m)
  BY DEF Rewrites, TypeInv, Own

LEMMA SavedRow ==
  ASSUME TypeInv, NEW v \in Verifiers, NEW name \in Names, NEW row \in RowType,
         rows' = Saved(<<v, name>>, row)
  PROVE  /\ Rewrites(v)
         /\ Own(v, name)' = Written(name, row)
         /\ \A m \in Names \ {name} :
              Own(v, m)' = IF Has("pendingByClient") /\ {m, name} = {"first", "second"}
                           THEN None ELSE Own(v, m)
  <1>1. <<v, name>> \in Keys /\ <<v, name>>[1] = v /\ <<v, name>>[2] = name
        /\ \A m \in Names : <<v, m>> \in Keys /\ <<v, m>>[1] = v /\ <<v, m>>[2] = m
    BY KeyIsOwn
  <1>2. Written(name, row) \in RowType
    BY WrittenIsTyped
  <1>3. /\ DOMAIN rows' = Keys
        /\ rows'[<<v, name>>] = Written(name, row)
        /\ \A x \in Keys : x # <<v, name>> =>
             rows'[x] = IF Has("pendingByClient") /\ x[1] = v /\ {x[2], name} = {"first", "second"}
                        THEN None ELSE rows[x]
    BY <1>1 DEF Saved
  <1>4. rows' \in [Keys -> RowType \cup {None}] /\ \A k \in Keys : k[1] # v => rows'[k] = rows[k]
    <2>1. rows' = [x \in Keys |-> rows'[x]]
      BY DEF Saved
    <2>2. \A x \in Keys : rows'[x] \in RowType \cup {None}
      BY <1>2, <1>3 DEF TypeInv
    <2>. QED BY <1>1, <1>3, <2>1, <2>2
  <1>5. \A m \in Names \ {name} : <<v, m>> # <<v, name>>
    OBVIOUS
  <1>. QED BY <1>1, <1>3, <1>4, <1>5 DEF Rewrites, Own

LEMMA TakenRow ==
  ASSUME TypeInv, NEW v \in Verifiers, NEW name \in Names, rows' = Taken(<<v, name>>)
  PROVE  /\ Rewrites(v)
         /\ Own(v, name)' = IF \/ Table(name) = "codes" /\ Has("codeReusable")
                               \/ Table(name) = "pending" /\ Has("pendingReusable")
                            THEN Own(v, name) ELSE None
         /\ \A m \in Names \ {name} : Own(v, m)' = Own(v, m)
  <1>. DEFINE Keeps == \/ Table(name) = "codes" /\ Has("codeReusable")
                       \/ Table(name) = "pending" /\ Has("pendingReusable")
  <1>0. <<v, name>>[2] = name
    BY KeyIsOwn
  <1>1. CASE Keeps
    <2>1. UNCHANGED rows
      BY <1>0, <1>1 DEF Taken
    <2>. QED BY <1>1, <2>1, SameRows
  <1>2. CASE ~Keeps
    <2>1. rows' = [rows EXCEPT ![<<v, name>>] = None]
      BY <1>0, <1>2 DEF Taken
    <2>. QED BY <1>2, <2>1, OneRow
  <1>. QED BY <1>1, <1>2

LEMMA RevokedRow ==
  ASSUME TypeInv, NEW v \in Verifiers, rows' = Revoked(<<v, "refresh">>)
  PROVE  /\ Rewrites(v)
         /\ Own(v, "refresh")' =
              IF Has("revokeNoop") \/ Own(v, "refresh") = None \/ "FamilyID" \notin Own(v, "refresh").text
              THEN Own(v, "refresh") ELSE None
         /\ \A m \in Names \ {"refresh"} : Own(v, m)' = Own(v, m)
  <1>. DEFINE Keeps == Has("revokeNoop") \/ Own(v, "refresh") = None
                         \/ "FamilyID" \notin Own(v, "refresh").text
  <1>0. "refresh" \in Names
    BY DEF Names
  <1>1. CASE Keeps
    <2>1. UNCHANGED rows
      BY <1>1 DEF Revoked, Own
    <2>2. Rewrites(v) /\ \A m \in Names : Own(v, m)' = Own(v, m)
      BY <2>1, SameRows
    <2>. QED BY <1>0, <1>1, <2>2
  <1>2. CASE ~Keeps
    <2>1. rows' = [rows EXCEPT ![<<v, "refresh">>] = None]
      BY <1>2 DEF Revoked, Own
    <2>. QED BY <1>0, <1>2, <2>1, OneRow
  <1>. QED BY <1>1, <1>2

(* Each call.                                                              *)
LEMMA CallIs ==
  ASSUME TypeInv, NEW v \in Verifiers, ver[v].pc \in Calls
  PROVE  /\ ver[v].now \in Nat /\ Hour < ver[v].now /\ ver[v].now <= clock
         /\ clock < ver[v].now + Minute /\ clock \in Nat
         /\ ver[v].now \in 0..clock
         /\ \A name \in Names : Own(v, name) \in RowType \cup {None}
  <1>1. Active(v) /\ ver[v].pc # "idle" /\ LocalOK(v) /\ ver[v] \in Local /\ clock \in Nat
    BY CallsArePcs DEF Active, TypeInv
  <1>2. \A name \in Names : <<v, name>> \in Keys
    BY KeyIsOwn
  <1>. QED BY <1>1, <1>2 DEF LocalOK, Local, TypeInv, Own

LEMMA ComplaintsAre ==
  {"ExpiresAt", "FamilyExpiresAt", "ConsumedAt", "notFound", "notSingleUse", "purgedTooEarly",
   "returnedAfterStamp", "FamilyID", "deletedOnConsume", "restamped", "hidesConsumed",
   "revokedAlive", "raceFailed", "notAtomic", "keepsClients", "keepsTokens"} \subseteq Complaints
  BY DEF Complaints

LEMMA UnlessIs ==
  ASSUME NEW ok \in BOOLEAN, NEW p \in Complaints
  PROVE  Unless(ok, p) \in SUBSET Complaints /\ (ok => Unless(ok, p) = {}) /\ (~ok => Unless(ok, p) = {p})
  BY DEF Unless

LEMMA MismatchesAre ==
  ASSUME TypeInv, NEW v \in Verifiers, NEW name \in Names, Hour < ver[v].now, NEW got
  PROVE  Mismatches(v, name, got) \in SUBSET Complaints
  <1>1. Canary(v, name).text \subseteq UNION {Columns[t] : t \in DOMAIN Columns}
    BY CanaryIsTyped DEF RowType
  <1>2. Canary(v, name).text \subseteq Complaints
    BY <1>1 DEF Complaints
  <1>3. {"ExpiresAt", "FamilyExpiresAt", "ConsumedAt"} \subseteq Complaints
    BY DEF Complaints
  <1>. QED BY <1>2, <1>3 DEF Mismatches, Unless

LEMMA ActsWithRacers ==
  ASSUME TypeInv, NEW v, Rewrites(v), Walks(v), UNCHANGED <<clock, store, racer>>
  PROVE  Acts(v)
  BY DEF Acts, TypeInv

LEMMA BeginActs ==
  ASSUME TypeInv, NEW v \in Verifiers, Begin(v)
  PROVE  Acts(v)
  <1>1. Rewrites(v)
    BY SameRows DEF Begin
  <1>. DEFINE q == [Idle EXCEPT !.pc = "saveClient", !.now = clock]
  <1>2. q \in Local /\ q.pc = "saveClient" /\ q.now = clock
    BY DEF Idle, Local, Zero, Pcs, Calls, ClientCalls, TypeInv
  <1>3. ver' = [ver EXCEPT ![v] = q] /\ clock' = clock /\ ver \in [Verifiers -> Local]
        /\ clock \in Nat /\ Hour < clock
    BY DEF Begin, Become, TypeInv
  <1>4. ver' \in [Verifiers -> Local] /\ ver'[v] = q /\ \A w \in Verifiers \ {v} : ver'[w] = ver[w]
    BY <1>2, <1>3
  <1>5. LocalOK(v)'
    BY <1>2, <1>3, <1>4, DomainValues, TimeAssumption DEF LocalOK, Active
  <1>. QED BY <1>1, <1>4, <1>5, ActsWithRacers DEF Walks, Begin

LEMMA SaveActs ==
  ASSUME TypeInv, NEW v \in Verifiers, Save(v)
  PROVE  Acts(v)
  <1>. DEFINE pc == ver[v].pc
              name == SavePcs[pc]
  <1>1. pc \in DOMAIN SavePcs /\ pc \in Calls /\ pc \notin DOMAIN CleanPcs /\ name \in Names
    BY PcValues, DomainValues DEF Save
  <1>2. clock' = clock /\ UNCHANGED <<clock, store, racer>>
    BY DEF Save
  <1>3. CASE Refuses(<<v, name>>)
    <2>1. Become(v, OnError(v)) /\ UNCHANGED rows
      BY <1>3 DEF Save
    <2>2. Walks(v)
      BY <1>1, <1>2, <2>1, OnErrorIsLocal, Walking, CallsArePcs
    <2>. QED BY <1>2, <2>1, <2>2, SameRows, ActsWithRacers
  <1>4. CASE ~Refuses(<<v, name>>)
    <2>1. GoesOn(v, {}) /\ rows' = Saved(<<v, name>>, Canary(v, name))
      BY <1>4 DEF Save
    <2>2. Walks(v)
      BY <1>1, <1>2, <2>1, GoingOn
    <2>3. Canary(v, name) \in RowType
      BY <1>1, CallIs, CanaryIsTyped
    <2>. QED BY <1>1, <1>2, <2>1, <2>2, <2>3, SavedRow, ActsWithRacers
  <1>. QED BY <1>3, <1>4

LEMMA ReadBackActs ==
  ASSUME TypeInv, NEW v \in Verifiers, ReadBack(v)
  PROVE  Acts(v)
  <1>. DEFINE pc == ver[v].pc
              name == ReadPcs[pc]
              got == rows[<<v, name>>]
  <1>1. pc \in Calls /\ pc \notin DOMAIN CleanPcs /\ name \in Names
    BY PcValues, DomainValues DEF ReadBack
  <1>2. UNCHANGED <<clock, rows, store, racer>>
    BY DEF ReadBack
  <1>3. Returns(v, "notFound") \/ GoesOn(v, Mismatches(v, name, got))
    BY DEF ReadBack
  <1>4. Mismatches(v, name, got) \in SUBSET Complaints /\ "notFound" \in Complaints
    BY <1>1, CallIs, MismatchesAre, ComplaintsAre
  <1>5. Walks(v)
    BY <1>1, <1>2, <1>3, <1>4, GoingOn, Returning
  <1>. QED BY <1>2, <1>5, SameRows, ActsWithRacers

LEMMA TakeActs ==
  ASSUME TypeInv, NEW v \in Verifiers, Take(v)
  PROVE  Acts(v)
  <1>. DEFINE pc == ver[v].pc
              name == TakePcs[pc]
              got == rows[<<v, name>>]
              P == IF name \in {"first", "second"} THEN {} ELSE Mismatches(v, name, got)
  <1>1. pc \in Calls /\ pc \notin DOMAIN CleanPcs /\ name \in Names
    BY PcValues, DomainValues DEF Take
  <1>2. UNCHANGED <<clock, store, racer>> /\ rows' = Taken(<<v, name>>)
    BY DEF Take
  <1>3. Returns(v, "notFound") \/ GoesOn(v, P)
    BY DEF Take
  <1>4. P \in SUBSET Complaints /\ "notFound" \in Complaints
    BY <1>1, CallIs, MismatchesAre, ComplaintsAre
  <1>5. Walks(v)
    BY <1>1, <1>2, <1>3, <1>4, GoingOn, Returning
  <1>. QED BY <1>1, <1>2, <1>5, TakenRow, ActsWithRacers

LEMMA RetakeActs ==
  ASSUME TypeInv, NEW v \in Verifiers, Retake(v)
  PROVE  Acts(v)
  <1>. DEFINE pc == ver[v].pc
              name == RetakePcs[pc]
              P == Unless(rows[<<v, name>>] = None, "notSingleUse")
  <1>1. pc \in Calls /\ pc \notin DOMAIN CleanPcs /\ name \in Names
    BY PcValues, DomainValues DEF Retake
  <1>2. UNCHANGED <<clock, store, racer>> /\ rows' = Taken(<<v, name>>) /\ GoesOn(v, P)
    BY DEF Retake
  <1>3. P \in SUBSET Complaints
    BY ComplaintsAre DEF Unless
  <1>4. Walks(v)
    BY <1>1, <1>2, <1>3, GoingOn
  <1>. QED BY <1>1, <1>2, <1>4, TakenRow, ActsWithRacers

(* A pc named in a guard.                                                  *)
LEMMA AtCall ==
  ASSUME NEW v \in Verifiers, NEW pc \in Calls \ DOMAIN CleanPcs, At(v, pc)
  PROVE  ver[v].pc = pc /\ ver[v].pc \in Calls \ DOMAIN CleanPcs
  BY DEF At

LEMMA TokenCallsAre ==
  {"getUnknown", "purgeEarly", "getKept", "consume", "replay", "replayAgain", "getConsumed",
   "revoke", "getRevoked", "race", "purge", "clientGone", "tokenGone"} \subseteq Calls \ DOMAIN CleanPcs
  BY DomainValues DEF Calls, TokenCalls, CleanCalls

LEMMA LookActs ==
  ASSUME TypeInv, NEW v \in Verifiers,
         GetUnknown(v) \/ GetKept(v) \/ GetConsumed(v) \/ GetRevoked(v) \/ ClientGone(v) \/ TokenGone(v)
  PROVE  Acts(v)
  <1>1. UNCHANGED <<clock, rows, store, racer>>
    BY DEF GetUnknown, GetKept, GetConsumed, GetRevoked, ClientGone, TokenGone
  <1>2. ver[v].pc \in Calls \ DOMAIN CleanPcs
    BY TokenCallsAre DEF At, GetUnknown, GetKept, GetConsumed, GetRevoked, ClientGone, TokenGone
  <1>3. Walks(v)
    <2>1. CASE GetUnknown(v)
      <3>1. Become(v, OnError(v)) \/ GoesOn(v, {})
        BY <2>1 DEF GetUnknown
      <3>. QED BY <1>1, <1>2, <3>1, GoingOn, OnErrorIsLocal, Walking, CallsArePcs
    <2>2. CASE GetKept(v)
      <3>1. Returns(v, "purgedTooEarly") \/ GoesOn(v, {})
        BY <2>2 DEF GetKept
      <3>. QED BY <1>1, <1>2, <3>1, GoingOn, Returning, ComplaintsAre
    <2>3. CASE GetConsumed(v) \/ GetRevoked(v) \/ ClientGone(v) \/ TokenGone(v)
      <3>1. PICK P \in SUBSET Complaints : GoesOn(v, P)
        BY <2>3, ComplaintsAre DEF GetConsumed, GetRevoked, ClientGone, TokenGone, Unless
      <3>. QED BY <1>1, <1>2, <3>1, GoingOn
    <2>. QED BY <2>1, <2>2, <2>3
  <1>. QED BY <1>1, <1>3, SameRows, ActsWithRacers

LEMMA PurgeActs ==
  ASSUME TypeInv, NEW v \in Verifiers, PurgeEarly(v) \/ FinalPurge(v)
  PROVE  Acts(v)
  <1>1. /\ UNCHANGED <<clock, store, racer>> /\ rows' = Purged(ver[v].now) /\ GoesOn(v, {})
        /\ ver[v].pc \in Calls \ DOMAIN CleanPcs
    BY TokenCallsAre DEF At, PurgeEarly, FinalPurge
  <1>2. ver[v].now \in 0..clock
    BY <1>1, CallIs
  <1>. QED BY <1>1, <1>2, GoingOn, PurgedIsTyped, ActsWithRacers

LEMMA ConsumeActs ==
  ASSUME TypeInv, NEW v \in Verifiers, Consume(v) \/ Replay(v) \/ ReplayAgain(v)
  PROVE  Acts(v)
  <1>1. UNCHANGED <<clock, store, racer>> /\ ver[v].pc \in Calls \ DOMAIN CleanPcs
    BY TokenCallsAre DEF At, Consume, Replay, ReplayAgain
  <1>2. PICK at \in Nat : rows' = [rows EXCEPT ![<<v, "refresh">>] = Consumed(rows[<<v, "refresh">>], at).left]
    <2>1. ver[v].now \in Nat /\ ver[v].now + Hour \in Nat /\ ver[v].now + 2 * Hour \in Nat
      BY <1>1, CallIs, TimeAssumption
    <2>. QED BY <2>1 DEF Consume, Replay, ReplayAgain
  <1>3. Rewrites(v)
    <2>1. "refresh" \in Names
      BY DEF Names
    <2>2. rows[<<v, "refresh">>] \in RowType \cup {None}
      BY <1>1, <2>1, CallIs DEF Own
    <2>3. Consumed(rows[<<v, "refresh">>], at).left \in RowType \cup {None}
      BY <2>2, ConsumedIsTyped
    <2>. QED BY <1>2, <2>1, <2>3, OneRow
  <1>4. Walks(v)
    <2>1. CASE Consume(v)
      <3>. DEFINE c == Consumed(rows[<<v, "refresh">>], ver[v].now)
                  P == Unless(c.got.ConsumedAt = Zero, "returnedAfterStamp")
                         \cup Unless("FamilyID" \in c.got.text, "FamilyID")
      <3>1. Returns(v, "notFound") \/ GoesOn(v, P)
        BY <2>1 DEF Consume
      <3>2. P \in SUBSET Complaints
        BY ComplaintsAre DEF Unless
      <3>. QED BY <1>1, <3>1, <3>2, GoingOn, Returning, ComplaintsAre
    <2>2. CASE Replay(v)
      <3>. DEFINE c == Consumed(rows[<<v, "refresh">>], ver[v].now + Hour)
                  P == Unless(c.got.ConsumedAt = ver[v].now, "ConsumedAt")
                         \cup Unless("FamilyID" \in c.got.text, "FamilyID")
      <3>1. CASE c.got = None
        <4>1. Returns(v, "deletedOnConsume")
          BY <2>2, <3>1 DEF Replay
        <4>. QED BY <1>1, <4>1, Returning, ComplaintsAre
      <3>2. CASE c.got # None
        <4>. DEFINE q == [WentOn(v, P) EXCEPT !.second = c.got.ConsumedAt]
        <4>1. Become(v, q)
          BY <2>2, <3>2 DEF Replay
        <4>2. P \in SUBSET Complaints
          BY ComplaintsAre DEF Unless
        <4>3. ver[v].pc = "replay" /\ After[ver[v].pc] = "replayAgain" /\ "replayAgain" \in Pcs
          BY <2>2, AfterValues DEF Replay, At, Pcs, Calls, TokenCalls
        <4>4. WentOn(v, P) \in Local /\ WentOn(v, P).pc = "replayAgain" /\ WentOn(v, P).now = ver[v].now
          BY <4>2, <4>3, MovedIsLocal DEF WentOn
        <4>5. c.got.ConsumedAt \in Nat
          <5>0. "refresh" \in Names
            BY DEF Names
          <5>1. rows[<<v, "refresh">>] \in RowType \cup {None} /\ ver[v].now + Hour \in Nat
            BY <1>1, <5>0, CallIs, TimeAssumption DEF Own
          <5>2. c.got \in RowType
            BY <3>2, <5>1, ConsumedIsTyped
          <5>. QED BY <5>2 DEF RowType
        <4>6. q \in Local /\ q.pc = "replayAgain" /\ q.now = ver[v].now
          BY <4>4, <4>5 DEF Local
        <4>. QED BY <1>1, <4>1, <4>6, Walking, DomainValues
      <3>. QED BY <3>1, <3>2
    <2>3. CASE ReplayAgain(v)
      <3>. DEFINE c == Consumed(rows[<<v, "refresh">>], ver[v].now + 2 * Hour)
                  P == Unless(c.got.ConsumedAt = ver[v].second /\ c.got.ConsumedAt = ver[v].now, "restamped")
      <3>1. Returns(v, "deletedOnConsume") \/ GoesOn(v, P)
        BY <2>3 DEF ReplayAgain
      <3>2. P \in SUBSET Complaints
        BY ComplaintsAre DEF Unless
      <3>. QED BY <1>1, <3>1, <3>2, GoingOn, Returning, ComplaintsAre
    <2>. QED BY <2>1, <2>2, <2>3
  <1>. QED BY <1>1, <1>3, <1>4, ActsWithRacers

LEMMA RevokeActs ==
  ASSUME TypeInv, NEW v \in Verifiers, Revoke(v)
  PROVE  Acts(v)
  <1>1. /\ UNCHANGED <<clock, store, racer>> /\ rows' = Revoked(<<v, "refresh">>) /\ GoesOn(v, {})
        /\ ver[v].pc \in Calls \ DOMAIN CleanPcs
    BY TokenCallsAre DEF At, Revoke
  <1>. QED BY <1>1, GoingOn, RevokedRow, ActsWithRacers

(* The goroutines move without the verification.                           *)
LEMMA RacersAct ==
  ASSUME TypeInv, NEW v \in Verifiers, NEW r \in Racers, NEW o \in Outcomes, Rewrites(v),
         racer' = [racer EXCEPT ![v][r] = o], UNCHANGED <<clock, store, ver>>
  PROVE  /\ Acts(v)
         /\ racer'[v][r] = o /\ \A s \in Racers \ {r} : racer'[v][s] = racer[v][s]
  <1>1. /\ racer' \in [Verifiers -> [Racers -> Outcomes]] /\ racer'[v][r] = o
        /\ \A s \in Racers \ {r} : racer'[v][s] = racer[v][s]
        /\ \A w \in Verifiers \ {v} : racer'[w] = racer[w]
    BY DEF TypeInv
  <1>2. Walks(v)
    BY DEF Walks, TypeInv, LocalOK, Active
  <1>. QED BY <1>1, <1>2 DEF Acts

LEMMA RaceActs ==
  ASSUME TypeInv, NEW v \in Verifiers, NEW r \in Racers, RaceConsume(v, r) \/ RaceUpdate(v, r) \/ RaceFault(v, r)
  PROVE  Acts(v)
  <1>. DEFINE k == <<v, "atomic">>
  <1>0. ver[v].pc = "race" /\ ver[v].pc \in Calls /\ "atomic" \in Names /\ UNCHANGED <<clock, store, ver>>
    BY TokenCallsAre DEF RaceConsume, RaceUpdate, RaceFault, At, Names
  <1>1. rows[k] \in RowType \cup {None} /\ ver[v].now \in Nat
    BY <1>0, CallIs DEF Own
  <1>2. CASE RaceConsume(v, r)
    <2>. DEFINE c == Consumed(rows[k], ver[v].now)
    <2>1. c.left \in RowType \cup {None}
      BY <1>1, ConsumedIsTyped
    <2>2. "selected" \in Outcomes /\ Outcome(c.got) \in Outcomes
      BY DEF Outcomes, Outcome
    <2>3. CASE Has("selectThenUpdate") /\ Outcome(c.got) = "zero"
      <3>1. racer' = [racer EXCEPT ![v][r] = "selected"] /\ UNCHANGED rows
        BY <1>2, <2>3 DEF RaceConsume
      <3>. QED BY <1>0, <2>2, <3>1, SameRows, RacersAct
    <2>4. CASE ~(Has("selectThenUpdate") /\ Outcome(c.got) = "zero")
      <3>1. racer' = [racer EXCEPT ![v][r] = Outcome(c.got)] /\ rows' = [rows EXCEPT ![k] = c.left]
        BY <1>2, <2>4 DEF RaceConsume
      <3>. QED BY <1>0, <2>1, <2>2, <3>1, OneRow, RacersAct
    <2>. QED BY <2>3, <2>4
  <1>3. CASE RaceUpdate(v, r)
    <2>. DEFINE row == IF rows[k] = None THEN None ELSE Stamped(rows[k], ver[v].now)
    <2>1. racer' = [racer EXCEPT ![v][r] = "zero"] /\ rows' = [rows EXCEPT ![k] = row]
      BY <1>3 DEF RaceUpdate
    <2>2. row \in RowType \cup {None} /\ "zero" \in Outcomes
      BY <1>1, StampedIsTyped DEF Outcomes
    <2>. QED BY <1>0, <2>1, <2>2, OneRow, RacersAct
  <1>4. CASE RaceFault(v, r)
    <2>1. racer' = [racer EXCEPT ![v][r] = "error"] /\ UNCHANGED rows /\ "error" \in Outcomes
      BY <1>4 DEF RaceFault, Outcomes
    <2>. QED BY <1>0, <2>1, SameRows, RacersAct
  <1>. QED BY <1>2, <1>3, <1>4

LEMMA TallyActs ==
  ASSUME TypeInv, NEW v \in Verifiers, Tally(v)
  PROVE  Acts(v)
  <1>1. /\ UNCHANGED <<clock, rows, store, racer>> /\ ver[v].pc \in Calls \ DOMAIN CleanPcs
    BY TokenCallsAre DEF At, Tally
  <1>2. PICK P \in SUBSET Complaints : GoesOn(v, P)
    BY ComplaintsAre DEF Tally, Unless
  <1>. QED BY <1>1, <1>2, GoingOn, SameRows, ActsWithRacers

LEMMA CleanReadActs ==
  ASSUME TypeInv, NEW v \in Verifiers, CleanRead(v)
  PROVE  Acts(v)
  <1>. DEFINE pc == ver[v].pc
              name == CleanPcs[pc]
              got == IF name = "client" THEN rows[<<v, name>>] ELSE GetToken(<<v, name>>)
  <1>1. pc \in {"readClient", "readRefresh", "readAtomic"} /\ pc \in Calls /\ name \in Names
    BY PcValues, DomainValues DEF CleanRead
  <1>2. UNCHANGED <<clock, rows, store, racer>>
    BY DEF CleanRead
  <1>3. CASE got = None
    <2>1. Become(v, Moved(v, After[After[pc]], {}))
      BY <1>3 DEF CleanRead
    <2>2. After[After[pc]] \in {"readRefresh", "readAtomic", "purge"}
      BY <1>1, AfterValues
    <2>3. After[After[pc]] \in Pcs /\ After[After[pc]] # "idle" /\ After[After[pc]] \notin DOMAIN ExpirePcs
      BY <2>2, DomainValues DEF Pcs, Calls, CleanCalls
    <2>4. Walks(v)
      BY <1>1, <1>2, <2>1, <2>3, MovedIsLocal, Walking
    <2>. QED BY <1>2, <2>4, SameRows, ActsWithRacers
  <1>4. CASE got # None
    <2>. DEFINE q == [WentOn(v, {}) EXCEPT !.held = got]
    <2>1. Become(v, q)
      BY <1>4 DEF CleanRead
    <2>2. After[pc] \in Pcs /\ After[pc] # "idle"
      BY <1>1, RankAfter, CallsArePcs
    <2>3. got \in RowType
      BY <1>1, <1>4, CallIs DEF GetToken, Own
    <2>4. WentOn(v, {}) \in Local /\ WentOn(v, {}).pc = After[pc] /\ WentOn(v, {}).now = ver[v].now
      BY <2>2, MovedIsLocal DEF WentOn
    <2>5. q \in Local /\ q.pc = After[pc] /\ q.now = ver[v].now /\ q.held = got
      BY <2>3, <2>4 DEF Local
    <2>6. Walks(v)
      BY <1>1, <1>2, <1>4, <2>1, <2>2, <2>5, Walking
    <2>. QED BY <1>2, <2>6, SameRows, ActsWithRacers
  <1>. QED BY <1>3, <1>4

LEMMA ExpiredIsTyped ==
  ASSUME TypeInv, NEW v \in Verifiers, NEW name, NEW row \in RowType, Hour < ver[v].now
  PROVE  /\ Expired(v, name, row) \in RowType
         /\ Expired(v, name, row).ExpiresAt = ver[v].now - Hour
         /\ Table(name) = "tokens" => Expired(v, name, row).FamilyExpiresAt = ver[v].now - Hour
  <1>1. ver[v].now - Hour \in Nat
    BY TimeAssumption DEF TypeInv, Local
  <1>. QED BY <1>1 DEF Expired, RowType

LEMMA CleanExpireActs ==
  ASSUME TypeInv, NEW v \in Verifiers, CleanExpire(v)
  PROVE  Acts(v)
  <1>. DEFINE pc == ver[v].pc
              name == ExpirePcs[pc]
  <1>1. pc \in DOMAIN ExpirePcs /\ pc \in Calls \ DOMAIN CleanPcs /\ name \in Names
    BY PcValues, DomainValues DEF CleanExpire
  <1>2. UNCHANGED <<clock, store, racer>>
    BY DEF CleanExpire
  <1>3. CASE Refuses(<<v, name>>)
    <2>1. Become(v, OnError(v)) /\ UNCHANGED rows
      BY <1>3 DEF CleanExpire
    <2>2. Walks(v)
      BY <1>1, <1>2, <2>1, OnErrorIsLocal, Walking, CallsArePcs
    <2>. QED BY <1>2, <2>1, <2>2, SameRows, ActsWithRacers
  <1>4. CASE ~Refuses(<<v, name>>)
    <2>1. GoesOn(v, {}) /\ rows' = Saved(<<v, name>>, Expired(v, name, ver[v].held))
      BY <1>4 DEF CleanExpire
    <2>2. Walks(v)
      BY <1>1, <1>2, <2>1, GoingOn
    <2>3. ver[v].held \in RowType
      BY <1>1 DEF TypeInv, LocalOK, Local
    <2>4. Expired(v, name, ver[v].held) \in RowType
      BY <1>1, <2>3, CallIs, ExpiredIsTyped
    <2>. QED BY <1>1, <1>2, <2>1, <2>2, <2>4, SavedRow, ActsWithRacers
  <1>. QED BY <1>3, <1>4

LEMMA FaultActs ==
  ASSUME TypeInv, NEW v \in Verifiers, StoreFault(v)
  PROVE  Acts(v) /\ ver'[v].faulted /\ ver'[v].pc = OnError(v).pc
  <1>. DEFINE pc == ver[v].pc
              q == [OnError(v) EXCEPT !.faulted = TRUE]
  <1>1. pc \in Calls /\ UNCHANGED <<clock, store, racer>> /\ Become(v, q)
    BY DEF StoreFault, Active, TypeInv, Local, Pcs
  <1>2. q \in Local /\ q.pc = OnError(v).pc /\ q.now = ver[v].now /\ q.faulted
    BY <1>1, OnErrorIsLocal DEF Local
  <1>3. Walks(v) /\ ver'[v] = q
    BY <1>1, <1>2, OnErrorIsLocal, Walking, CallsArePcs
  <1>4. Rewrites(v)
    <2>1. CASE UNCHANGED rows
      BY <2>1, SameRows
    <2>2. CASE pc \in DOMAIN SavePcs /\ rows' = Saved(<<v, SavePcs[pc]>>, Canary(v, SavePcs[pc]))
      <3>1. SavePcs[pc] \in Names
        BY <2>2, PcValues
      <3>2. Canary(v, SavePcs[pc]) \in RowType
        BY <1>1, <3>1, CallIs, CanaryIsTyped
      <3>. QED BY <2>2, <3>1, <3>2, SavedRow
    <2>. QED BY <2>1, <2>2 DEF StoreFault
  <1>. QED BY <1>1, <1>2, <1>3, <1>4, ActsWithRacers

LEMMA CrashActs ==
  ASSUME TypeInv, NEW v \in Verifiers, Crash(v)
  PROVE  Acts(v) /\ ver'[v].pc = "dead" /\ ver'[v].problems = ver[v].problems
         /\ ver'[v].faulted = ver[v].faulted
  <1>1. ver[v].pc \in Calls /\ UNCHANGED <<clock, rows, store, racer>> /\ Become(v, Moved(v, "dead", {}))
    BY DEF Crash, Active, TypeInv, Local, Pcs
  <1>2. "dead" \in Pcs /\ "dead" \notin DOMAIN ExpirePcs
    BY DomainValues DEF Pcs
  <1>3. Walks(v) /\ ver'[v] = Moved(v, "dead", {})
    BY <1>1, <1>2, MovedIsLocal, Walking
  <1>4. ver'[v].pc = "dead" /\ ver'[v].problems = ver[v].problems /\ ver'[v].faulted = ver[v].faulted
    BY <1>3 DEF Moved, TypeInv, Local
  <1>5. Acts(v)
    BY <1>1, <1>3, SameRows, ActsWithRacers
  <1>. QED BY <1>4, <1>5

LEMMA StepActs ==
  ASSUME TypeInv, NEW v \in Verifiers, Step(v)
  PROVE  Acts(v)
  BY SaveActs, ReadBackActs, TakeActs, RetakeActs, LookActs, PurgeActs, ConsumeActs, RevokeActs,
     RaceActs, TallyActs, CleanReadActs, CleanExpireActs DEF Step

(* The rest of the world, from the place of the owner o of some rows.      *)
Idles(o) ==
    /\ store' = store
    /\ o \in Verifiers => ver'[o] = ver[o] /\ racer'[o] = racer[o]
    /\ \E before \in 0..clock : \A name \in Names :
         \/ Own(o, name)' = Own(o, name)
         \/ Own(o, name) # None /\ Lapsed(name, Own(o, name), before) /\ Own(o, name)' = None

LEMMA PurgeIdles ==
  ASSUME TypeInv, NEW o \in Verifiers \cup {App}, NEW before \in 0..clock, rows' = Purged(before),
         NEW name \in Names
  PROVE  \/ Own(o, name)' = Own(o, name)
         \/ Own(o, name) # None /\ Lapsed(name, Own(o, name), before) /\ Own(o, name)' = None
  <1>1. <<o, name>> \in Keys /\ <<o, name>>[2] = name
    BY KeyIsOwn
  <1>2. rows'[<<o, name>>] = IF rows[<<o, name>>] # None /\ Lapsed(name, rows[<<o, name>>], before)
                             THEN None ELSE rows[<<o, name>>]
    BY <1>1 DEF Purged
  <1>. QED BY <1>2 DEF Own

LEMMA OthersIdle ==
  ASSUME TypeInv, NEW v \in Verifiers, Acts(v), NEW o \in Verifiers \cup {App}, o # v
  PROVE  Idles(o)
  <1>1. store' = store /\ (o \in Verifiers => ver'[o] = ver[o] /\ racer'[o] = racer[o])
    BY DEF Acts, Walks
  <1>2. CASE \A k \in Keys : k[1] # v => rows'[k] = rows[k]
    <2>1. \A name \in Names : Own(o, name)' = Own(o, name)
      BY <1>2, KeyIsOwn DEF Own
    <2>2. 0 \in 0..clock
      BY DEF TypeInv
    <2>. QED BY <1>1, <2>1, <2>2 DEF Idles
  <1>3. ASSUME NEW before \in 0..clock, rows' = Purged(before) PROVE Idles(o)
    BY <1>1, <1>3, PurgeIdles DEF Idles
  <1>. QED BY <1>2, <1>3 DEF Acts, Rewrites

LEMMA EnvironmentIdles ==
  ASSUME TypeInv, Ticker \/ Tick \/ UNCHANGED vars, NEW o \in Verifiers \cup {App}
  PROVE  Idles(o)
  <1>0. 0 \in 0..clock /\ clock \in 0..clock
    BY DEF TypeInv
  <1>1. CASE Ticker
    <2>1. store' = store /\ ver' = ver /\ racer' = racer /\ rows' = Purged(clock)
      BY <1>1 DEF Ticker
    <2>2. \A name \in Names :
             \/ Own(o, name)' = Own(o, name)
             \/ Own(o, name) # None /\ Lapsed(name, Own(o, name), clock) /\ Own(o, name)' = None
      BY <1>0, <2>1, PurgeIdles
    <2>. QED BY <1>0, <2>1, <2>2 DEF Idles
  <1>2. CASE Tick \/ UNCHANGED vars
    BY <1>0, <1>2 DEF Tick, vars, Idles, Own
  <1>. QED BY <1>1, <1>2

(* Every step is a verification's, or everybody stands by.                 *)
LEMMA NextActs ==
  ASSUME TypeInv, [Next]_vars
  PROVE  \/ \E v \in Verifiers : Acts(v) /\ (Begin(v) \/ Step(v) \/ StoreFault(v) \/ Crash(v)
                                              \/ \E r \in Racers : RaceFault(v, r))
         \/ Ticker \/ Tick \/ UNCHANGED vars
  BY BeginActs, StepActs, FaultActs, CrashActs, RaceActs DEF Next

LEMMA InitTypeInv == Init => TypeInv
  <1>. SUFFICES ASSUME Init PROVE TypeInv
    OBVIOUS
  <1>1. clock \in Nat /\ Hour < clock /\ clock <= MaxTime
    BY TimeAssumption DEF Init
  <1>2. \A name \in Names : AppRow(name) \in RowType
    <2>1. \A name \in Names : Row(Table(name), MaxTime, IF Table(name) = "tokens" THEN MaxTime ELSE Zero) \in RowType
      BY TableValues, RowIsTyped, TimeAssumption DEF Zero
    <2>. QED BY <2>1 DEF AppRow, RowType
  <1>3. rows \in [Keys -> RowType \cup {None}]
    BY <1>2 DEF Init, Keys
  <1>4. store \in [defect : Defects, insertOnly : BOOLEAN]
    BY InsertAssumption DEF Init
  <1>5. Idle \in Local /\ Idle.pc = "idle" /\ "idle" \notin DOMAIN ExpirePcs
    BY DomainValues DEF Idle, Local, Pcs, Zero
  <1>6. ver \in [Verifiers -> Local] /\ \A v \in Verifiers : LocalOK(v)
    BY <1>5 DEF Init, LocalOK, Active
  <1>7. racer \in [Verifiers -> [Racers -> Outcomes]]
    BY DEF Init, Outcomes
  <1>. QED BY <1>1, <1>3, <1>4, <1>6, <1>7 DEF TypeInv

LEMMA NextTypeInv == TypeInv /\ [Next]_vars => TypeInv'
  <1>. SUFFICES ASSUME TypeInv, [Next]_vars PROVE TypeInv'
    OBVIOUS
  <1>1. ASSUME NEW v \in Verifiers, Acts(v) PROVE TypeInv'
    <2>1. \A w \in Verifiers : LocalOK(w)'
      <3>1. ASSUME NEW w \in Verifiers, w # v PROVE LocalOK(w)'
        BY <1>1, <3>1 DEF Acts, Walks, LocalOK, Active, TypeInv
      <3>. QED BY <1>1, <3>1 DEF Acts, Walks
    <2>. QED BY <1>1, <2>1 DEF Acts, Walks, Rewrites, TypeInv
  <1>2. CASE Ticker
    <2>1. clock \in 0..clock /\ rows' = Purged(clock) /\ UNCHANGED <<clock, store, ver, racer>>
      BY <1>2 DEF Ticker, TypeInv
    <2>2. rows' \in [Keys -> RowType \cup {None}]
      BY <2>1, PurgedIsTyped DEF Rewrites
    <2>. QED BY <2>1, <2>2 DEF TypeInv, LocalOK, Active
  <1>3. CASE Tick
    <2>1. clock' \in Nat /\ Hour < clock' /\ clock' <= MaxTime /\ clock' = clock + 1 /\ clock \in Nat
          /\ UNCHANGED <<rows, store, ver, racer>>
      BY <1>3, TimeAssumption DEF Tick, TypeInv
    <2>2. ASSUME NEW v \in Verifiers PROVE LocalOK(v)'
      <3>1. Active(v) => clock + 1 < ver[v].now + Minute
        BY <1>3 DEF Tick
      <3>2. LocalOK(v) /\ ver[v].now \in Nat
        BY DEF TypeInv, Local
      <3>. QED BY <2>1, <3>1, <3>2 DEF LocalOK, Active
    <2>. QED BY <2>1, <2>2 DEF TypeInv
  <1>4. CASE UNCHANGED vars
    BY <1>4 DEF vars, TypeInv, LocalOK, Active
  <1>. QED BY <1>1, <1>2, <1>3, <1>4, NextActs

(* Every variable keeps its type, whatever the Store does.                 *)
THEOREM StoreTypes == Spec => []TypeOK
  <1>1. TypeInv => TypeOK
    <2>. SUFFICES ASSUME TypeInv PROVE TypeOK
      OBVIOUS
    <2>1. clock \in 0..MaxTime
      BY DEF TypeInv
    <2>2. \A v \in Verifiers : ver[v].pc \in Calls \cup {"idle", "done", "dead"}
                               /\ ver[v].held \in RowType \cup {None}
                               /\ (ver[v].pc \in DOMAIN ExpirePcs => ver[v].held \in RowType)
      BY DEF TypeInv, LocalOK, Local, Pcs
    <2>. QED BY <2>1, <2>2 DEF TypeInv, TypeOK, Outcomes
  <1>. QED BY <1>1, InitTypeInv, NextTypeInv, PTL DEF Spec

-----------------------------------------------------------------------------
(* A verification goes forward through its calls and rewrites its own rows *)
(* in one of five ways.                                                    *)

LEMMA BailRank ==
  ASSUME NEW pc \in Calls
  PROVE  Rank[pc] < Rank[Bail[pc]]
  <1>1. /\ pc \in ClientCalls => Rank[pc] <= 2 /\ Bail[pc] = "saveCode"
        /\ pc \in CodeCalls => Rank[pc] <= 5 /\ Bail[pc] = "savePending"
        /\ pc \in PendingCalls => Rank[pc] <= 12 /\ Bail[pc] = "saveRefresh"
        /\ pc \in TokenCalls => Rank[pc] <= 25 /\ Bail[pc] = "readClient"
        /\ pc \in CleanCalls => Rank[pc] <= 34 /\ Bail[pc] = "done"
    BY RankValues DEF Bail, Calls, ClientCalls, CodeCalls, PendingCalls, TokenCalls, CleanCalls
  <1>2. Rank["saveCode"] = 3 /\ Rank["savePending"] = 6 /\ Rank["saveRefresh"] = 13
        /\ Rank["readClient"] = 26 /\ Rank["done"] = 35 /\ Rank[pc] \in 1..34
    BY RankValues, RankAfter
  <1>. QED BY <1>1, <1>2 DEF Calls

LEMMA OnErrorMoves ==
  ASSUME TypeInv, NEW v \in Verifiers, ver[v].pc \in Calls
  PROVE  /\ Rank[ver[v].pc] < Rank[OnError(v).pc]
         /\ ver[v].problems \subseteq OnError(v).problems
  <1>. DEFINE pc == ver[v].pc
  <1>a. ASSUME NEW x, NEW P
        PROVE  Moved(v, x, P).pc = x /\ ver[v].problems \subseteq Moved(v, x, P).problems
    BY DEF Moved, TypeInv, Local
  <1>0. /\ After[pc] \in Calls \cup {"done"} /\ Rank[After[pc]] = Rank[pc] + 1 /\ Rank[pc] \in Nat
        /\ Rank[pc] < Rank[Bail[pc]]
    BY RankAfter, BailRank
  <1>1. CASE pc \in {"readClient", "readRefresh", "readAtomic"}
    <2>1. OnError(v) = Moved(v, After[After[pc]], {})
      BY <1>1 DEF OnError
    <2>2. Rank[pc] < Rank[After[After[pc]]]
      BY <1>1, AfterValues, RankValues
    <2>. QED BY <1>0, <1>a, <2>1, <2>2
  <1>2. CASE pc \notin {"readClient", "readRefresh", "readAtomic"}
    <2>1. \E P : OnError(v) \in {Moved(v, After[pc], P), Moved(v, Bail[pc], P)}
      BY <1>2 DEF OnError, WentOn, Returned
    <2>. QED BY <1>0, <1>a, <2>1
  <1>. QED BY <1>1, <1>2

Rewritten(v, name) ==
    \/ Own(v, name)' = Own(v, name)
    \/ Own(v, name)' = None
    \/ Own(v, name)' = Written(name, Canary(v, name))
    \/ Own(v, name) # None /\ \E at : Own(v, name)' = Stamped(Own(v, name), at)
    \/ \E row \in RowType : Own(v, name)' = Written(name, Expired(v, name, row))

(* The tokens are not written before their turn.                           *)
InTurn(v) ==
    /\ Reached(v) <= 12 => Own(v, "refresh")' \in {Own(v, "refresh"), None}
    /\ Reached(v) <= 23 => Own(v, "atomic")' \in {Own(v, "atomic"), None}

Forward(v) ==
    /\ ver[v].pc \in Calls /\ Reached(v) < Reached(v)'
    /\ ver'[v].now = ver[v].now
    /\ ver[v].problems \subseteq ver'[v].problems
    /\ ver[v].faulted => ver'[v].faulted

LEMMA MovesForward ==
  ASSUME TypeInv, NEW v \in Verifiers, clock' = clock,
         \/ ver[v].pc \in Calls \ DOMAIN CleanPcs /\ \E P \in SUBSET Complaints : GoesOn(v, P)
         \/ ver[v].pc \in Calls /\ \E p \in Complaints : Returns(v, p)
         \/ ver[v].pc \in Calls /\ Become(v, OnError(v))
         \/ ver[v].pc \in Calls /\ Become(v, [OnError(v) EXCEPT !.faulted = TRUE])
  PROVE  Forward(v)
  <1>. DEFINE pc == ver[v].pc
  <1>0. pc \in Calls /\ Rank[pc] \in Nat /\ Rank[After[pc]] = Rank[pc] + 1 /\ Rank[pc] < Rank[Bail[pc]]
    BY RankAfter, BailRank
  <1>1. ASSUME NEW P \in SUBSET Complaints, GoesOn(v, P), pc \notin DOMAIN CleanPcs PROVE Forward(v)
    <2>1. ver'[v].pc = After[pc] /\ ver'[v].problems = ver[v].problems \cup P
          /\ ver'[v].now = ver[v].now /\ ver'[v].faulted = ver[v].faulted
      BY <1>0, <1>1, GoingOn
    <2>. QED BY <1>0, <2>1 DEF Forward, Reached
  <1>2. ASSUME NEW p \in Complaints, Returns(v, p) PROVE Forward(v)
    <2>1. ver'[v] = Moved(v, Bail[pc], {p})
      BY <1>2 DEF Returns, Returned, Become, TypeInv
    <2>2. ver'[v].pc = Bail[pc] /\ ver'[v].now = ver[v].now /\ ver'[v].faulted = ver[v].faulted
          /\ ver'[v].problems = ver[v].problems \cup {p}
      BY <2>1 DEF Moved, TypeInv, Local
    <2>. QED BY <1>0, <2>2 DEF Forward, Reached
  <1>3. CASE Become(v, OnError(v))
    <2>1. ver'[v] = OnError(v)
      BY <1>3 DEF Become, TypeInv
    <2>. QED BY <1>0, <2>1, OnErrorMoves, OnErrorIsLocal DEF Forward, Reached
  <1>4. CASE Become(v, [OnError(v) EXCEPT !.faulted = TRUE])
    <2>1. ver'[v] = [OnError(v) EXCEPT !.faulted = TRUE]
      BY <1>4 DEF Become, TypeInv
    <2>2. ver'[v].pc = OnError(v).pc /\ ver'[v].now = OnError(v).now /\ ver'[v].faulted
          /\ ver'[v].problems = OnError(v).problems
      BY <1>0, <2>1, OnErrorIsLocal DEF Local
    <2>. QED BY <1>0, <2>2, OnErrorMoves, OnErrorIsLocal DEF Forward, Reached
  <1>. QED BY <1>0, <1>1, <1>2, <1>3, <1>4

(* What an action other than a goroutine's does.                           *)
Moves(v) ==
    /\ Forward(v) /\ UNCHANGED <<clock, store, racer>>
    /\ InTurn(v) /\ \A name \in Names : Rewritten(v, name)

LEMMA QuietMoves ==
  ASSUME NEW v, Forward(v), UNCHANGED <<clock, store, racer>>,
         \A name \in Names : Own(v, name)' \in {Own(v, name), None}
  PROVE  Moves(v)
  BY DEF Moves, InTurn, Rewritten, Names

LEMMA SaveMoves ==
  ASSUME TypeInv, NEW v \in Verifiers, Save(v) \/ StoreFault(v)
  PROVE  Moves(v)
  <1>. DEFINE pc == ver[v].pc
  <1>1. pc \in Calls /\ UNCHANGED <<clock, store, racer>>
    BY PcValues DEF Save, StoreFault, Active, TypeInv, Local, Pcs
  <1>2. Forward(v)
    <2>1. CASE Save(v)
      <3>1. pc \notin DOMAIN CleanPcs /\ {} \in SUBSET Complaints
        BY <2>1, DomainValues DEF Save
      <3>2. Become(v, OnError(v)) \/ GoesOn(v, {})
        BY <2>1 DEF Save
      <3>. QED BY <1>1, <3>1, <3>2, MovesForward
    <2>2. CASE StoreFault(v)
      <3>1. Become(v, [OnError(v) EXCEPT !.faulted = TRUE])
        BY <2>2 DEF StoreFault
      <3>. QED BY <1>1, <3>1, MovesForward
    <2>. QED BY <2>1, <2>2
  <1>3. UNCHANGED rows \/ \E name \in Names :
          pc \in DOMAIN SavePcs /\ name = SavePcs[pc] /\ rows' = Saved(<<v, name>>, Canary(v, name))
    BY PcValues DEF Save, StoreFault
  <1>4. CASE UNCHANGED rows
    BY <1>1, <1>2, <1>4, SameRows, QuietMoves
  <1>5. ASSUME NEW name \in Names, pc \in DOMAIN SavePcs, name = SavePcs[pc],
               rows' = Saved(<<v, name>>, Canary(v, name))
        PROVE  Moves(v)
    <2>1. Canary(v, name) \in RowType
      BY <1>1, CallIs, CanaryIsTyped
    <2>2. Own(v, name)' = Written(name, Canary(v, name))
          /\ \A m \in Names \ {name} : Own(v, m)' \in {Own(v, m), None}
      BY <1>5, <2>1, SavedRow
    <2>3. /\ Rank[pc] <= 12 => name # "refresh"
          /\ Rank[pc] <= 23 => name # "atomic"
      <3>1. SavePcs["saveClient"] = "client" /\ SavePcs["saveCode"] = "code"
            /\ SavePcs["savePending"] = "pending" /\ SavePcs["saveFirst"] = "first"
            /\ SavePcs["saveSecond"] = "second" /\ SavePcs["saveRefresh"] = "refresh"
            /\ SavePcs["saveAtomic"] = "atomic"
        BY DEF SavePcs
      <3>. QED BY <1>5, <3>1, DomainValues, RankValues
    <2>4. "refresh" \in Names /\ "atomic" \in Names
      BY DEF Names
    <2>5. InTurn(v)
      BY <2>2, <2>3, <2>4 DEF InTurn, Reached
    <2>6. \A m \in Names : Rewritten(v, m)
      BY <2>2 DEF Rewritten
    <2>. QED BY <1>1, <1>2, <2>5, <2>6 DEF Moves
  <1>. QED BY <1>3, <1>4, <1>5

LEMMA QuietCalls ==
  ASSUME TypeInv, NEW v \in Verifiers,
         \/ ReadBack(v) \/ Take(v) \/ Retake(v) \/ GetUnknown(v) \/ PurgeEarly(v) \/ GetKept(v)
         \/ GetConsumed(v) \/ Revoke(v) \/ GetRevoked(v) \/ Tally(v)
         \/ FinalPurge(v) \/ ClientGone(v) \/ TokenGone(v)
  PROVE  Moves(v)
  <1>. DEFINE pc == ver[v].pc
  <1>1. UNCHANGED <<clock, store, racer>>
    BY DEF ReadBack, Take, Retake, GetUnknown, PurgeEarly, GetKept, GetConsumed, Revoke, GetRevoked,
           Tally, FinalPurge, ClientGone, TokenGone
  <1>2. pc \in Calls \ DOMAIN CleanPcs
    BY TokenCallsAre, PcValues, DomainValues
       DEF At, ReadBack, Take, Retake, GetUnknown, PurgeEarly, GetKept, GetConsumed, Revoke, GetRevoked,
           Tally, FinalPurge, ClientGone, TokenGone
  <1>3. \A name \in Names : Own(v, name)' \in {Own(v, name), None}
    <2>1. CASE UNCHANGED rows
      BY <2>1, SameRows
    <2>2. ASSUME NEW m \in Names, rows' = Taken(<<v, m>>)
          PROVE  \A name \in Names : Own(v, name)' \in {Own(v, name), None}
      BY <2>2, TakenRow
    <2>3. CASE rows' = Revoked(<<v, "refresh">>)
      BY <2>3, RevokedRow
    <2>4. CASE rows' = Purged(ver[v].now)
      BY <1>2, <2>4, CallIs, PurgeIdles
    <2>5. Take(v) => \E m \in Names : rows' = Taken(<<v, m>>)
      BY PcValues DEF Take
    <2>6. Retake(v) => \E m \in Names : rows' = Taken(<<v, m>>)
      BY PcValues DEF Retake
    <2>. QED BY <2>1, <2>2, <2>3, <2>4, <2>5, <2>6
             DEF ReadBack, GetUnknown, PurgeEarly, GetKept, GetConsumed, Revoke, GetRevoked,
                 Tally, FinalPurge, ClientGone, TokenGone
  <1>4. \/ \E P \in SUBSET Complaints : GoesOn(v, P)
        \/ \E p \in Complaints : Returns(v, p)
        \/ Become(v, OnError(v))
    <2>1. CASE ReadBack(v)
      <3>1. ReadPcs[pc] \in Names
        BY <2>1, PcValues DEF ReadBack
      <3>2. Mismatches(v, ReadPcs[pc], rows[<<v, ReadPcs[pc]>>]) \in SUBSET Complaints
        BY <1>2, <3>1, CallIs, MismatchesAre
      <3>. QED BY <2>1, <3>2, ComplaintsAre DEF ReadBack
    <2>2. CASE Take(v)
      <3>1. TakePcs[pc] \in Names
        BY <2>2, PcValues DEF Take
      <3>2. Mismatches(v, TakePcs[pc], rows[<<v, TakePcs[pc]>>]) \in SUBSET Complaints
        BY <1>2, <3>1, CallIs, MismatchesAre
      <3>. QED BY <2>2, <3>2, ComplaintsAre DEF Take
    <2>3. CASE Retake(v) \/ GetConsumed(v) \/ GetRevoked(v) \/ ClientGone(v) \/ TokenGone(v) \/ Tally(v)
      BY <2>3, ComplaintsAre DEF Retake, GetConsumed, GetRevoked, ClientGone, TokenGone, Tally, Unless
    <2>4. CASE GetUnknown(v) \/ GetKept(v) \/ PurgeEarly(v) \/ Revoke(v) \/ FinalPurge(v)
      <3>1. {} \in SUBSET Complaints
        OBVIOUS
      <3>. QED BY <2>4, <3>1, ComplaintsAre DEF GetUnknown, GetKept, PurgeEarly, Revoke, FinalPurge
    <2>. QED BY <2>1, <2>2, <2>3, <2>4
  <1>5. Forward(v)
    BY <1>1, <1>2, <1>4, MovesForward
  <1>. QED BY <1>1, <1>3, <1>5, QuietMoves

(* A consume leaves the row, stamps it or deletes it.                      *)
LEMMA ConsumedLeaves ==
  ASSUME NEW row, NEW at
  PROVE  Consumed(row, at).left \in {None, row, Stamped(row, at)}
         /\ (row = None => Consumed(row, at).left = None)
  BY DEF Consumed

LEMMA ConsumeMoves ==
  ASSUME TypeInv, NEW v \in Verifiers, Consume(v) \/ Replay(v) \/ ReplayAgain(v)
  PROVE  Moves(v)
  <1>1. UNCHANGED <<clock, store, racer>> /\ ver[v].pc \in {"consume", "replay", "replayAgain"}
    BY DEF At, Consume, Replay, ReplayAgain
  <1>a. ver[v].pc \in Calls \ DOMAIN CleanPcs /\ Reached(v) \in {18, 19, 20}
    BY <1>1, TokenCallsAre, RankValues DEF Reached
  <1>2. PICK at \in Nat : rows' = [rows EXCEPT ![<<v, "refresh">>] = Consumed(rows[<<v, "refresh">>], at).left]
    <2>1. ver[v].now \in Nat /\ ver[v].now + Hour \in Nat /\ ver[v].now + 2 * Hour \in Nat
      BY <1>a, CallIs, TimeAssumption
    <2>. QED BY <2>1 DEF Consume, Replay, ReplayAgain
  <1>3. "refresh" \in Names /\ "atomic" \in Names
    BY DEF Names
  <1>4. Consumed(rows[<<v, "refresh">>], at).left \in RowType \cup {None}
    BY <1>a, <1>3, CallIs, ConsumedIsTyped DEF Own
  <1>5. /\ Own(v, "refresh")' = Consumed(Own(v, "refresh"), at).left
        /\ \A m \in Names \ {"refresh"} : Own(v, m)' = Own(v, m)
    <2>. DEFINE left == Consumed(rows[<<v, "refresh">>], at).left
    <2>1. PICK x : x = left
      OBVIOUS
    <2>2. rows' = [rows EXCEPT ![<<v, "refresh">>] = x] /\ x \in RowType \cup {None}
      BY <1>2, <1>4, <2>1
    <2>3. Own(v, "refresh")' = x /\ \A m \in Names \ {"refresh"} : Own(v, m)' = Own(v, m)
      BY <1>3, <2>2, OneRow
    <2>. QED BY <2>1, <2>3 DEF Own
  <1>6. \A m \in Names : Rewritten(v, m)
    <2>1. Rewritten(v, "refresh")
      <3>. DEFINE row == Own(v, "refresh")
      <3>1. Own(v, "refresh")' \in {None, row, Stamped(row, at)} /\ (row = None => Own(v, "refresh")' = None)
        BY <1>5, ConsumedLeaves
      <3>. QED BY <3>1 DEF Rewritten
    <2>. QED BY <1>5, <2>1 DEF Rewritten
  <1>7. InTurn(v)
    BY <1>a, <1>3, <1>5 DEF InTurn
  <1>8. Forward(v)
    <2>1. CASE Consume(v) \/ ReplayAgain(v)
      <3>1. \/ \E P \in SUBSET Complaints : GoesOn(v, P)
            \/ \E p \in Complaints : Returns(v, p)
        BY <2>1, ComplaintsAre DEF Consume, ReplayAgain, Unless
      <3>. QED BY <1>1, <1>a, <3>1, MovesForward
    <2>2. CASE Replay(v)
      <3>. DEFINE c == Consumed(rows[<<v, "refresh">>], ver[v].now + Hour)
                  P == Unless(c.got.ConsumedAt = ver[v].now, "ConsumedAt")
                         \cup Unless("FamilyID" \in c.got.text, "FamilyID")
      <3>1. CASE c.got = None
        <4>1. Returns(v, "deletedOnConsume")
          BY <2>2, <3>1 DEF Replay
        <4>. QED BY <1>1, <1>a, <4>1, MovesForward, ComplaintsAre
      <3>2. CASE c.got # None
        <4>1. ver'[v] = [WentOn(v, P) EXCEPT !.second = c.got.ConsumedAt]
          BY <2>2, <3>2 DEF Replay, Become, TypeInv
        <4>2. /\ ver'[v].pc = After[ver[v].pc] /\ ver'[v].now = ver[v].now
              /\ ver'[v].problems = ver[v].problems \cup P /\ ver'[v].faulted = ver[v].faulted
          BY <4>1 DEF WentOn, Moved, TypeInv, Local
        <4>3. Rank[After[ver[v].pc]] = Rank[ver[v].pc] + 1 /\ Rank[ver[v].pc] \in Nat
          BY <1>a, RankAfter
        <4>. QED BY <1>a, <4>2, <4>3 DEF Forward, Reached
      <3>. QED BY <3>1, <3>2
    <2>. QED BY <2>1, <2>2
  <1>. QED BY <1>1, <1>6, <1>7, <1>8 DEF Moves

LEMMA CleanReadMoves ==
  ASSUME TypeInv, NEW v \in Verifiers, CleanRead(v)
  PROVE  Moves(v)
  <1>. DEFINE pc == ver[v].pc
              name == CleanPcs[pc]
              got == IF name = "client" THEN rows[<<v, name>>] ELSE GetToken(<<v, name>>)
  <1>1. UNCHANGED <<clock, rows, store, racer>> /\ pc \in {"readClient", "readRefresh", "readAtomic"}
    BY DomainValues DEF CleanRead
  <1>2. pc \in Calls /\ Rank[pc] < Rank[After[pc]] /\ Rank[pc] < Rank[After[After[pc]]]
    BY <1>1, AfterValues, RankValues DEF Calls, CleanCalls
  <1>3. ver'[v] \in {Moved(v, After[After[pc]], {}), [Moved(v, After[pc], {}) EXCEPT !.held = got]}
    BY DEF CleanRead, Become, TypeInv, WentOn
  <1>4. /\ ver'[v].pc \in {After[pc], After[After[pc]]} /\ ver'[v].now = ver[v].now
        /\ ver'[v].problems = ver[v].problems /\ ver'[v].faulted = ver[v].faulted
    <2>1. CASE ver'[v] = Moved(v, After[After[pc]], {})
      BY <2>1 DEF Moved, TypeInv, Local
    <2>2. CASE ver'[v] = [Moved(v, After[pc], {}) EXCEPT !.held = got]
      BY <2>2 DEF Moved, TypeInv, Local
    <2>. QED BY <1>3, <2>1, <2>2
  <1>5. Forward(v)
    BY <1>2, <1>4 DEF Forward, Reached
  <1>. QED BY <1>1, <1>5, SameRows, QuietMoves

LEMMA CleanExpireMoves ==
  ASSUME TypeInv, NEW v \in Verifiers, CleanExpire(v)
  PROVE  Moves(v)
  <1>. DEFINE pc == ver[v].pc
  <1>1. /\ UNCHANGED <<clock, store, racer>> /\ pc \in DOMAIN ExpirePcs /\ pc \in Calls \ DOMAIN CleanPcs
        /\ Reached(v) >= 27
    BY PcValues, DomainValues, RankValues DEF CleanExpire, Reached
  <1>2. Forward(v)
    <2>1. Become(v, OnError(v)) \/ GoesOn(v, {})
      BY DEF CleanExpire
    <2>2. {} \in SUBSET Complaints
      OBVIOUS
    <2>. QED BY <1>1, <2>1, <2>2, MovesForward
  <1>3. CASE UNCHANGED rows
    BY <1>1, <1>2, <1>3, SameRows, QuietMoves
  <1>4. CASE ~UNCHANGED rows
    <2>1. PICK name \in Names : name = ExpirePcs[pc]
      BY <1>1, PcValues
    <2>2. ver[v].held \in RowType
      BY <1>1 DEF TypeInv, LocalOK, Local
    <2>3. rows' = Saved(<<v, name>>, Expired(v, name, ver[v].held))
      BY <1>4, <2>1 DEF CleanExpire
    <2>4. Expired(v, name, ver[v].held) \in RowType
      BY <1>1, <2>2, CallIs, ExpiredIsTyped
    <2>5. Own(v, name)' = Written(name, Expired(v, name, ver[v].held))
          /\ \A m \in Names \ {name} : Own(v, m)' \in {Own(v, m), None}
      <3>1. PICK row \in RowType : row = Expired(v, name, ver[v].held)
        BY <2>4
      <3>2. rows' = Saved(<<v, name>>, row)
        BY <2>3, <3>1
      <3>3. Own(v, name)' = Written(name, row) /\ \A m \in Names \ {name} : Own(v, m)' \in {Own(v, m), None}
        BY <3>2, SavedRow
      <3>. QED BY <3>1, <3>3
    <2>6. \A m \in Names : Rewritten(v, m)
      BY <2>2, <2>5 DEF Rewritten
    <2>7. Reached(v) \in Nat
      BY <1>1, RankAfter DEF Reached
    <2>. QED BY <1>1, <1>2, <2>6, <2>7 DEF Moves, InTurn
  <1>. QED BY <1>3, <1>4

(* A goroutine stamps the atomicity canary or leaves it.                   *)
Races(v) ==
    /\ ver[v].pc = "race" /\ UNCHANGED <<clock, store, ver>>
    /\ \A name \in Names : Rewritten(v, name)
    /\ \A r \in Racers : racer[v][r] = "error" => racer'[v][r] = "error"

LEMMA RaceRaces ==
  ASSUME TypeInv, NEW v \in Verifiers, NEW r \in Racers, RaceConsume(v, r) \/ RaceUpdate(v, r) \/ RaceFault(v, r)
  PROVE  Races(v)
  <1>. DEFINE k == <<v, "atomic">>
  <1>0. ver[v].pc = "race" /\ ver[v].pc \in Calls /\ "atomic" \in Names /\ UNCHANGED <<clock, store, ver>>
        /\ racer[v][r] # "error"
    BY TokenCallsAre DEF RaceConsume, RaceUpdate, RaceFault, At, Names
  <1>1. rows[k] \in RowType \cup {None} /\ ver[v].now \in Nat
    BY <1>0, CallIs DEF Own
  <1>2. \A s \in Racers \ {r} : racer'[v][s] = racer[v][s]
    BY DEF RaceConsume, RaceUpdate, RaceFault, TypeInv
  <1>3. PICK x \in RowType \cup {None} :
          /\ UNCHANGED rows \/ rows' = [rows EXCEPT ![k] = x]
          /\ x = None \/ x = rows[k] \/ (rows[k] # None /\ x = Stamped(rows[k], ver[v].now))
    <2>1. Consumed(rows[k], ver[v].now).left \in RowType \cup {None}
      BY <1>1, ConsumedIsTyped
    <2>2. rows[k] # None => Stamped(rows[k], ver[v].now) \in RowType
      BY <1>1, StampedIsTyped
    <2>3. CASE RaceConsume(v, r)
      BY <1>1, <2>1, <2>3, ConsumedLeaves DEF RaceConsume
    <2>4. CASE RaceUpdate(v, r)
      BY <1>1, <2>2, <2>4 DEF RaceUpdate
    <2>5. CASE RaceFault(v, r)
      BY <1>1, <2>5 DEF RaceFault
    <2>. QED BY <2>3, <2>4, <2>5
  <1>4. \A m \in Names : Rewritten(v, m)
    <2>1. CASE UNCHANGED rows
      BY <2>1, SameRows DEF Rewritten
    <2>2. CASE rows' = [rows EXCEPT ![k] = x]
      <3>1. Own(v, "atomic")' = x /\ \A m \in Names \ {"atomic"} : Own(v, m)' = Own(v, m)
        BY <1>0, <1>3, <2>2, OneRow
      <3>2. Own(v, "atomic") = rows[k]
        BY DEF Own
      <3>3. Rewritten(v, "atomic")
        BY <1>3, <3>1, <3>2 DEF Rewritten
      <3>. QED BY <3>1, <3>3 DEF Rewritten
    <2>. QED BY <1>3, <2>1, <2>2
  <1>. QED BY <1>0, <1>2, <1>4 DEF Races

LEMMA StepMoves ==
  ASSUME TypeInv, NEW v \in Verifiers,
         Step(v) \/ StoreFault(v) \/ \E r \in Racers : RaceFault(v, r)
  PROVE  Moves(v) \/ Races(v)
  BY SaveMoves, QuietCalls, ConsumeMoves, CleanReadMoves, CleanExpireMoves, RaceRaces DEF Step

-----------------------------------------------------------------------------
(* What holds of the rows whatever the Store does.                         *)

LEMMA WrittenKeeps ==
  ASSUME NEW row \in RowType, NEW name
  PROVE  /\ Written(name, row).text \subseteq row.text
         /\ \A c \in Written(name, row).text : ~Drops(Table(name), c)
         /\ Written(name, row).ExpiresAt \in {row.ExpiresAt, Zero}
         /\ Written(name, row).FamilyExpiresAt \in {row.FamilyExpiresAt, Zero}
         /\ Drops(Table(name), "ExpiresAt") => Written(name, row).ExpiresAt = Zero
         /\ Drops(Table(name), "FamilyExpiresAt") => Written(name, row).FamilyExpiresAt = Zero
  BY DEF Written

LEMMA StampedKeeps ==
  ASSUME NEW row \in RowType, NEW at
  PROVE  /\ Stamped(row, at).text = row.text /\ Stamped(row, at).ExpiresAt = row.ExpiresAt
         /\ Stamped(row, at).FamilyExpiresAt = row.FamilyExpiresAt
  BY DEF Stamped, RowType

LEMMA CanaryIsBrief ==
  ASSUME TypeInv, NEW v \in Verifiers, NEW name \in Names, Hour < ver[v].now
  PROVE  Canary(v, name).ExpiresAt <= ver[v].now + Hour /\ Canary(v, name).FamilyExpiresAt <= ver[v].now + Hour
  BY TimeAssumption DEF TypeInv, Local, Canary, Row, Zero

(* A row that was rewritten is as short-lived as before and still lacks    *)
(* what the Store drops.                                                   *)
LEMMA RewrittenRow ==
  ASSUME TypeInv, TypeInv', NEW v \in Verifiers, ver[v].pc \in Calls, ver'[v].now = ver[v].now,
         store' = store, DroppedOK(v), Brief(v), \A name \in Names : Rewritten(v, name)
  PROVE  DroppedOK(v)' /\ Brief(v)'
  <1>. DEFINE now == ver[v].now
  <1>0. now \in Nat /\ Hour < now /\ Hour \in Nat
    BY CallIs, TimeAssumption
  <1>. DEFINE Fine(name, x) ==
                /\ \A c \in x.text : ~Drops(Table(name), c)
                /\ Drops(Table(name), "ExpiresAt") => x.ExpiresAt = Zero
                /\ Drops(Table(name), "FamilyExpiresAt") => x.FamilyExpiresAt = Zero
                /\ x.ExpiresAt <= now + Hour
                /\ Table(name) = "tokens" => x.FamilyExpiresAt <= now + Hour
  <1>1. ASSUME NEW name \in Names, NEW x, x = Own(v, name)', x # None
        PROVE  Fine(name, x)
    <2>1. CASE x = Own(v, name)
      BY <1>1, <2>1 DEF DroppedOK, Brief
    <2>2. CASE x = Written(name, Canary(v, name))
      <3>1. Canary(v, name) \in RowType /\ Canary(v, name).ExpiresAt <= now + Hour
            /\ Canary(v, name).FamilyExpiresAt <= now + Hour
        BY <1>0, CanaryIsTyped, CanaryIsBrief
      <3>2. Zero <= now + Hour
        BY <1>0 DEF Zero
      <3>. QED BY <2>2, <3>1, <3>2, WrittenKeeps
    <2>3. ASSUME Own(v, name) # None, NEW at, x = Stamped(Own(v, name), at)
          PROVE  Fine(name, x)
      <3>1. Own(v, name) \in RowType
        BY <2>3, CallIs
      <3>2. /\ x.text = Own(v, name).text /\ x.ExpiresAt = Own(v, name).ExpiresAt
            /\ x.FamilyExpiresAt = Own(v, name).FamilyExpiresAt
        BY <2>3, <3>1, StampedKeeps
      <3>. QED BY <2>3, <3>2 DEF DroppedOK, Brief
    <2>4. ASSUME NEW row \in RowType, x = Written(name, Expired(v, name, row))
          PROVE  Fine(name, x)
      <3>1. Expired(v, name, row) \in RowType /\ Expired(v, name, row).ExpiresAt = now - Hour
            /\ (Table(name) = "tokens" => Expired(v, name, row).FamilyExpiresAt = now - Hour)
        BY <1>0, ExpiredIsTyped
      <3>2. Zero <= now + Hour /\ now - Hour <= now + Hour
        BY <1>0 DEF Zero
      <3>. QED BY <2>4, <3>1, <3>2, WrittenKeeps
    <2>. QED BY <1>1, <2>1, <2>2, <2>3, <2>4 DEF Rewritten
  <1>2. \A t, c : Drops(t, c)' <=> Drops(t, c)
    BY DEF Drops
  <1>3. DroppedOK(v)'
    BY <1>1, <1>2 DEF DroppedOK
  <1>4. Brief(v)'
    BY <1>1 DEF Brief
  <1>. QED BY <1>3, <1>4

LEMMA IdlesKeepRows ==
  ASSUME TypeInv, NEW v \in Verifiers, Idles(v), Fresh(v), DroppedOK(v), Brief(v)
  PROVE  Fresh(v)' /\ DroppedOK(v)' /\ Brief(v)'
  <1>1. /\ \A name \in Names : Own(v, name)' \in {Own(v, name), None}
        /\ ver'[v] = ver[v] /\ racer'[v] = racer[v] /\ store' = store
    BY DEF Idles
  <1>2. "refresh" \in Names /\ "atomic" \in Names
    BY DEF Names
  <1>3. Fresh(v)'
    BY <1>1, <1>2 DEF Fresh, Reached
  <1>4. \A t, c : Drops(t, c)' <=> Drops(t, c)
    BY <1>1 DEF Drops
  <1>5. DroppedOK(v)'
    BY <1>1, <1>4 DEF DroppedOK
  <1>6. Brief(v)'
    BY <1>1 DEF Brief
  <1>. QED BY <1>3, <1>5, <1>6

LEMMA ActorKeepsRows ==
  ASSUME TypeInv, TypeInv', NEW v \in Verifiers, Fresh(v), DroppedOK(v), Brief(v),
         Begin(v) \/ Step(v) \/ StoreFault(v) \/ Crash(v) \/ \E r \in Racers : RaceFault(v, r)
  PROVE  Fresh(v)' /\ DroppedOK(v)' /\ Brief(v)'
  <1>0. "refresh" \in Names /\ "atomic" \in Names
    BY DEF Names
  <1>1. CASE Begin(v)
    <2>1. UNCHANGED <<clock, rows, store, racer>> /\ ver[v].pc = "idle" /\ ver'[v].pc = "saveClient"
      BY <1>1 DEF Begin, At, Become, Idle, TypeInv
    <2>2. \A name \in Names : Own(v, name) = None /\ Own(v, name)' = None
      BY <2>1 DEF Fresh, Own
    <2>3. \A r \in Racers : racer[v][r] \in {"wait"}
      BY <2>1, RankValues DEF Fresh, Reached
    <2>. QED BY <1>0, <2>1, <2>2, <2>3 DEF Fresh, DroppedOK, Brief
  <1>2. CASE Moves(v)
    <2>1. /\ ver[v].pc \in Calls /\ Rank[ver[v].pc] \in 1..34 /\ Rank[ver[v].pc] < Rank[ver'[v].pc]
          /\ ver'[v].now = ver[v].now /\ store' = store /\ racer' = racer
      BY <1>2, RankAfter DEF Moves, Forward, Reached
    <2>2. ver[v].pc # "dead" /\ ver'[v].pc # "idle"
      BY <2>1, RankValues, CallsArePcs
    <2>3. Rank[ver'[v].pc] \in Nat
      <3>1. ver'[v].pc \in Calls \cup {"idle", "done", "dead"}
        BY DEF TypeInv, Local, Pcs
      <3>. QED BY <3>1, RankAfter, RankValues
    <2>4. /\ Rank[ver'[v].pc] <= 13 => Rank[ver[v].pc] <= 12
          /\ Rank[ver'[v].pc] <= 24 => Rank[ver[v].pc] <= 23
      BY <2>1, <2>3
    <2>5. InTurn(v)
      BY <1>2 DEF Moves
    <2>6. Fresh(v)'
      BY <1>0, <2>1, <2>2, <2>3, <2>4, <2>5 DEF Fresh, InTurn, Reached
    <2>. QED BY <1>2, <2>1, <2>6, RewrittenRow DEF Moves
  <1>3. CASE Races(v)
    <2>1. ver[v].pc = "race" /\ ver[v].pc \in Calls /\ Rank["race"] = 25 /\ ver' = ver /\ store' = store
      BY <1>3, RankValues, TokenCallsAre DEF Races
    <2>2. Fresh(v)'
      BY <2>1 DEF Fresh, Reached
    <2>. QED BY <1>3, <2>1, <2>2, RewrittenRow DEF Races
  <1>4. CASE Crash(v)
    <2>1. ver'[v] = Moved(v, "dead", {}) /\ UNCHANGED <<rows, store>>
      BY <1>4 DEF Crash, Become, TypeInv
    <2>2. ver'[v].pc = "dead" /\ ver'[v].now = ver[v].now
      BY <2>1 DEF Moved, TypeInv, Local
    <2>3. Fresh(v)'
      BY <2>2 DEF Fresh
    <2>4. DroppedOK(v)' /\ Brief(v)'
      BY <2>1, <2>2 DEF DroppedOK, Brief, Own, Drops
    <2>. QED BY <2>3, <2>4
  <1>. QED BY <1>1, <1>2, <1>3, <1>4, StepMoves

(* A compliant Store does not purge what has not expired.                  *)
LEMMA AppRowsStay ==
  ASSUME TypeInv, Compliant, NEW name \in Names, NEW before \in 0..clock
  PROVE  ~Lapsed(name, AppRow(name), before)
  <1>1. ~Has("purgesOwnExpiry") /\ clock <= MaxTime /\ clock \in Nat /\ MaxTime \in Nat
    BY Defect, TimeAssumption DEF TypeInv
  <1>2. AppRow(name).ExpiresAt = MaxTime \/ (Table(name) = "tokens" /\ AppRow(name).FamilyExpiresAt = MaxTime)
    BY TableValues DEF AppRow, Row
  <1>. QED BY <1>1, <1>2 DEF Lapsed

LEMMA InitRowInv == Init => RowInv
  <1>. SUFFICES ASSUME Init PROVE RowInv
    OBVIOUS
  <1>1. TypeInv
    BY InitTypeInv
  <1>2. ASSUME NEW v \in Verifiers PROVE Fresh(v) /\ DroppedOK(v) /\ Brief(v)
    <2>1. \A name \in Names : Own(v, name) = None
      BY KeyIsOwn, OwnerAssumption DEF Init, Own
    <2>2. \A r \in Racers : racer[v][r] \in {"wait"}
      BY DEF Init
    <2>3. "refresh" \in Names /\ "atomic" \in Names
      BY DEF Names
    <2>. QED BY <2>1, <2>2, <2>3 DEF Fresh, DroppedOK, Brief
  <1>3. AppRowsUntouched
    BY KeyIsOwn DEF Init, AppRowsUntouched
  <1>. QED BY <1>1, <1>2, <1>3 DEF RowInv

LEMMA NextRowInv == RowInv /\ [Next]_vars => RowInv'
  <1>. SUFFICES ASSUME RowInv, [Next]_vars PROVE RowInv'
    OBVIOUS
  <1>0. TypeInv /\ TypeInv'
    BY NextTypeInv DEF RowInv
  <1>1. \A v \in Verifiers : Fresh(v)' /\ DroppedOK(v)' /\ Brief(v)'
    <2>. SUFFICES ASSUME NEW v \in Verifiers PROVE Fresh(v)' /\ DroppedOK(v)' /\ Brief(v)'
      OBVIOUS
    <2>1. CASE Idles(v)
      BY <1>0, <2>1, IdlesKeepRows DEF RowInv
    <2>2. CASE Begin(v) \/ Step(v) \/ StoreFault(v) \/ Crash(v) \/ \E r \in Racers : RaceFault(v, r)
      BY <1>0, <2>2, ActorKeepsRows DEF RowInv
    <2>. QED BY <1>0, <2>1, <2>2, NextActs, OthersIdle, EnvironmentIdles
  <1>2. Idles(App)
    BY <1>0, NextActs, OthersIdle, EnvironmentIdles, OwnerAssumption
  <1>3. AppRowsUntouched'
    <2>. SUFFICES ASSUME Compliant', NEW name \in Names PROVE Own(App, name)' = AppRow(name)
      BY DEF AppRowsUntouched, Own, AppRow, Row
    <2>1. Compliant
      BY <1>2 DEF Idles, Compliant, Has
    <2>2. Own(App, name) = AppRow(name)
      BY <2>1 DEF RowInv, AppRowsUntouched, Own
    <2>3. PICK before \in 0..clock : \/ Own(App, name)' = Own(App, name)
                                     \/ Lapsed(name, Own(App, name), before)
      BY <1>2 DEF Idles
    <2>. QED BY <1>0, <2>1, <2>2, <2>3, AppRowsStay
  <1>. QED BY <1>0, <1>1, <1>3 DEF RowInv

(* AppRowsUntouched: on a compliant Store, any number of verifications,    *)
(* crashing or not, and purges beside them, leave the application's rows   *)
(* alone.                                                                  *)
THEOREM AppRowsSafe == Spec => []AppRowsUntouched
  <1>1. RowInv => AppRowsUntouched
    BY DEF RowInv
  <1>. QED BY <1>1, InitRowInv, NextRowInv, PTL DEF Spec

(* LeftoversLapse: whatever a verification leaves behind is for the first  *)
(* purge an hour after it began.                                           *)
THEOREM LeftoversExpire == Spec => []LeftoversLapse
  <1>1. RowInv => LeftoversLapse
    <2>. SUFFICES ASSUME RowInv, Compliant, NEW v \in Verifiers, NEW name \in Names, Own(v, name) # None
         PROVE  Lapsed(name, Own(v, name), ver[v].now + Hour + 1)
      BY DEF LeftoversLapse, Own
    <2>1. /\ Own(v, name).ExpiresAt <= ver[v].now + Hour
          /\ Table(name) = "tokens" => Own(v, name).FamilyExpiresAt <= ver[v].now + Hour
      BY DEF RowInv, Brief
    <2>2. Own(v, name) \in RowType /\ ver[v].now \in Nat /\ Hour \in Nat
      BY KeyIsOwn, TimeAssumption DEF RowInv, TypeInv, Local, Own
    <2>3. Own(v, name).ExpiresAt \in Nat /\ Own(v, name).FamilyExpiresAt \in Nat
      BY <2>2 DEF RowType
    <2>4. ~Has("purgeSkipsTokens") /\ ~Has("purgeSkipsClients") /\ ~Has("purgeSkipsCodes")
      BY Defect
    <2>. QED BY <2>1, <2>2, <2>3, <2>4 DEF Lapsed
  <1>. QED BY <1>1, InitRowInv, NextRowInv, PTL DEF Spec

-----------------------------------------------------------------------------
(* What a verification without problems finds.                             *)

(* The terms the expectations are made of do not change.                   *)
LEMMA SameTerms ==
  ASSUME NEW v, ver'[v].now = ver[v].now, store' = store
  PROVE  /\ \A name : Stored(v, name)' = Stored(v, name) /\ Spent(v, name)' = Spent(v, name)
         /\ \A d : Has(d)' <=> Has(d)
         /\ \A t, c : Drops(t, c)' <=> Drops(t, c)
         /\ Compliant' <=> Compliant
  <1>1. \A t, c : Drops(t, c)' <=> Drops(t, c)
    BY DEF Drops
  <1>2. \A d : Has(d)' <=> Has(d)
    BY DEF Has
  <1>3. \A name : Canary(v, name)' = Canary(v, name)
    BY DEF Canary
  <1>4. \A name : Stored(v, name)' = Stored(v, name)
    BY <1>1, <1>3 DEF Stored, Written
  <1>5. \A name : Spent(v, name)' = Spent(v, name)
    BY <1>4 DEF Spent
  <1>6. Compliant' <=> Compliant
    BY <1>2 DEF Compliant
  <1>. QED BY <1>1, <1>2, <1>4, <1>5, <1>6

(* What the table holds of a canary.                                       *)
LEMMA StoredFields ==
  ASSUME TypeInv, NEW v \in Verifiers, ver[v].pc \in Calls, NEW name \in Names
  PROVE  /\ Stored(v, name) \in RowType /\ Stored(v, name) # None
         /\ Stored(v, name).ConsumedAt = Zero
         /\ ~Drops(Table(name), "ExpiresAt") => Stored(v, name).ExpiresAt = Canary(v, name).ExpiresAt
         /\ ~Drops(Table(name), "FamilyExpiresAt") =>
              Stored(v, name).FamilyExpiresAt = Canary(v, name).FamilyExpiresAt
         /\ \A c \in Columns[Table(name)] : ~Drops(Table(name), c) => c \in Stored(v, name).text
         /\ Spent(v, name) \in RowType /\ Spent(v, name) # None
         /\ Spent(v, name).ConsumedAt = ver[v].now /\ Spent(v, name).text = Stored(v, name).text
         /\ Spent(v, name).ExpiresAt = Stored(v, name).ExpiresAt
         /\ Spent(v, name).FamilyExpiresAt = Stored(v, name).FamilyExpiresAt
  <1>1. /\ Canary(v, name) \in RowType /\ Canary(v, name).ConsumedAt = Zero
        /\ Canary(v, name).text = Columns[Table(name)] /\ ver[v].now \in Nat
    BY CallIs, CanaryIsTyped
  <1>2. /\ Stored(v, name) \in RowType
        /\ Stored(v, name).ConsumedAt = Zero
        /\ ~Drops(Table(name), "ExpiresAt") => Stored(v, name).ExpiresAt = Canary(v, name).ExpiresAt
        /\ ~Drops(Table(name), "FamilyExpiresAt") =>
              Stored(v, name).FamilyExpiresAt = Canary(v, name).FamilyExpiresAt
        /\ \A c \in Columns[Table(name)] : ~Drops(Table(name), c) => c \in Stored(v, name).text
    BY <1>1, WrittenIsTyped DEF Stored, Written
  <1>3. /\ Spent(v, name) \in RowType
        /\ Spent(v, name).ConsumedAt = ver[v].now /\ Spent(v, name).text = Stored(v, name).text
        /\ Spent(v, name).ExpiresAt = Stored(v, name).ExpiresAt
        /\ Spent(v, name).FamilyExpiresAt = Stored(v, name).FamilyExpiresAt
    BY <1>1, <1>2 DEF Spent, RowType
  <1>. QED BY <1>2, <1>3, NoneAssumption

LEMMA CanaryValues ==
  ASSUME NEW v
  PROVE  /\ Canary(v, "client").ExpiresAt = ver[v].now + Hour
         /\ Canary(v, "client").FamilyExpiresAt = Zero
         /\ Canary(v, "code").ExpiresAt = ver[v].now + Minute
         /\ Canary(v, "code").FamilyExpiresAt = Zero
         /\ \A name \in {"pending", "first", "second"} :
              Canary(v, name).ExpiresAt = ver[v].now + Minute /\ Canary(v, name).FamilyExpiresAt = Zero
         /\ Canary(v, "refresh").ExpiresAt = ver[v].now - Minute
         /\ Canary(v, "refresh").FamilyExpiresAt = ver[v].now + Hour
         /\ Canary(v, "atomic").ExpiresAt = ver[v].now + Hour
         /\ Canary(v, "atomic").FamilyExpiresAt = ver[v].now + Hour
  BY DEF Canary, Row

(* No purge takes a canary of a verification at work, unless its lifetime  *)
(* was not kept or the Store goes by the token's own.                      *)
LEMMA CanariesStay ==
  ASSUME TypeInv, NEW v \in Verifiers, ver[v].pc \in Calls, NEW before \in 0..clock
  PROVE  /\ ~Drops("clients", "ExpiresAt") => ~Lapsed("client", Stored(v, "client"), before)
         /\ ~Drops("codes", "ExpiresAt") => ~Lapsed("code", Stored(v, "code"), before)
         /\ ~Drops("pending", "ExpiresAt") =>
              \A name \in {"pending", "first", "second"} : ~Lapsed(name, Stored(v, name), before)
         /\ ~Drops("tokens", "FamilyExpiresAt") /\ ~Has("purgesOwnExpiry") =>
              \A name \in {"refresh", "atomic"} :
                \A x : x.FamilyExpiresAt = Stored(v, name).FamilyExpiresAt => ~Lapsed(name, x, before)
  <1>0. /\ ver[v].now \in Nat /\ clock \in Nat /\ clock < ver[v].now + Minute
        /\ before \in Nat /\ before <= clock /\ Minute \in Nat /\ Hour \in Nat /\ Minute < Hour
    BY CallIs, TimeAssumption
  <1>1. {"client", "code", "pending", "first", "second", "refresh", "atomic"} \subseteq Names
    BY DEF Names
  <1>2. ~Drops("clients", "ExpiresAt") => Stored(v, "client").ExpiresAt = ver[v].now + Hour
    BY <1>1, StoredFields, CanaryValues, TableValues
  <1>3. ~Drops("codes", "ExpiresAt") => Stored(v, "code").ExpiresAt = ver[v].now + Minute
    BY <1>1, StoredFields, CanaryValues, TableValues
  <1>4. ~Drops("pending", "ExpiresAt") =>
          \A name \in {"pending", "first", "second"} : Stored(v, name).ExpiresAt = ver[v].now + Minute
    BY <1>1, StoredFields, CanaryValues, TableValues
  <1>5. ~Drops("tokens", "FamilyExpiresAt") =>
          \A name \in {"refresh", "atomic"} : Stored(v, name).FamilyExpiresAt = ver[v].now + Hour
    BY <1>1, StoredFields, CanaryValues, TableValues
  <1>6. ~Drops("clients", "ExpiresAt") => ~Lapsed("client", Stored(v, "client"), before)
    BY <1>0, <1>2 DEF Lapsed
  <1>7. ~Drops("codes", "ExpiresAt") => ~Lapsed("code", Stored(v, "code"), before)
    BY <1>0, <1>3 DEF Lapsed
  <1>8. ~Drops("pending", "ExpiresAt") =>
              \A name \in {"pending", "first", "second"} : ~Lapsed(name, Stored(v, name), before)
    BY <1>0, <1>4 DEF Lapsed
  <1>9. ASSUME ~Drops("tokens", "FamilyExpiresAt"), ~Has("purgesOwnExpiry"), NEW name \in {"refresh", "atomic"},
               NEW x, x.FamilyExpiresAt = Stored(v, name).FamilyExpiresAt
        PROVE  ~Lapsed(name, x, before)
    BY <1>0, <1>5, <1>9, TableValues DEF Lapsed
  <1>. QED BY <1>6, <1>7, <1>8, <1>9

(* What reading a canary back shows.                                       *)
LEMMA ReadingFinds ==
  ASSUME TypeInv, NEW v \in Verifiers, ver[v].pc \in Calls, NEW name \in Names
  PROVE  /\ Compliant => Mismatches(v, name, Stored(v, name)) = {}
         /\ DroppedOK(v) /\ Own(v, name) # None /\ Mismatches(v, name, Own(v, name)) = {} =>
              /\ \A c \in Probe(Table(name)) : ~Drops(Table(name), c)
              /\ name = "refresh" => ~Drops("tokens", "FamilyExpiresAt")
  <1>0. /\ ver[v].now \in Nat /\ Hour < ver[v].now /\ Minute \in Nat /\ Hour \in Nat /\ 0 < Minute /\ Minute < Hour
    BY CallIs, TimeAssumption
  <1>1. /\ Canary(v, name).text = Columns[Table(name)]
        /\ Canary(v, name).ExpiresAt # Zero
        /\ name = "refresh" => Canary(v, name).FamilyExpiresAt # Zero
    <2>1. Canary(v, name).text = Columns[Table(name)]
      BY <1>0, CanaryIsTyped
    <2>. QED BY <1>0, <2>1, CanaryValues DEF Zero, Names
  <1>2. Compliant => Mismatches(v, name, Stored(v, name)) = {}
    <2>1. Compliant => /\ Columns[Table(name)] \subseteq Stored(v, name).text
                       /\ Stored(v, name).ExpiresAt = Canary(v, name).ExpiresAt
                       /\ Stored(v, name).FamilyExpiresAt = Canary(v, name).FamilyExpiresAt
                       /\ Stored(v, name).ConsumedAt = Zero
      BY StoredFields, Defect
    <2>. QED BY <1>1, <2>1 DEF Mismatches, Unless
  <1>3. ASSUME DroppedOK(v), Own(v, name) # None, Mismatches(v, name, Own(v, name)) = {}
        PROVE  /\ \A c \in Probe(Table(name)) : ~Drops(Table(name), c)
               /\ name = "refresh" => ~Drops("tokens", "FamilyExpiresAt")
    <2>. DEFINE got == Own(v, name)
    <2>1. /\ Columns[Table(name)] \ {"CreatedAt"} \subseteq got.text
          /\ got.ExpiresAt = Canary(v, name).ExpiresAt
          /\ got.FamilyExpiresAt = Canary(v, name).FamilyExpiresAt
      BY <1>1, <1>3 DEF Mismatches, Unless
    <2>2. /\ \A c \in got.text : ~Drops(Table(name), c)
          /\ Drops(Table(name), "ExpiresAt") => got.ExpiresAt = Zero
          /\ Drops(Table(name), "FamilyExpiresAt") => got.FamilyExpiresAt = Zero
      BY <1>3 DEF DroppedOK
    <2>. QED BY <1>1, <2>1, <2>2, TableValues DEF Probe
  <1>. QED BY <1>2, <1>3

(* A verification that stands by, in any state, loses nothing it expects.  *)
LEMMA IdlesKeepExpected ==
  ASSUME TypeInv, NEW v \in Verifiers, Idles(v), Expected(v)
  PROVE  Expected(v)'
  <1>0. /\ store' = store /\ ver'[v] = ver[v] /\ racer'[v] = racer[v]
        /\ Reached(v)' = Reached(v)
    BY DEF Idles, Reached
  <1>a. /\ \A name : Stored(v, name)' = Stored(v, name) /\ Spent(v, name)' = Spent(v, name)
        /\ \A d : Has(d)' <=> Has(d)
        /\ \A t, c : Drops(t, c)' <=> Drops(t, c)
        /\ Compliant' <=> Compliant
    BY <1>0, SameTerms
  <1>1. PICK before \in 0..clock : \A name \in Names :
          \/ Own(v, name)' = Own(v, name)
          \/ Own(v, name) # None /\ Lapsed(name, Own(v, name), before) /\ Own(v, name)' = None
    BY DEF Idles
  <1>2. Reached(v) \in 0..35 /\ (Reached(v) \in 1..34 => ver[v].pc \in Calls)
    <2>1. ver[v].pc \in Calls \cup {"idle", "done", "dead"}
      BY DEF TypeInv, Local, Pcs
    <2>. QED BY <2>1, RankAfter, RankValues DEF Reached
  <1>3. Cleared(v)'
    BY <1>0, <1>a DEF Expected, Cleared
  <1>4. ClientRow(v)'
    <2>0. "client" \in Names
      BY DEF Names
    <2>1. Reached(v) \in 3..27 => ~Drops("clients", "ExpiresAt")
      BY <1>2 DEF Expected, Cleared, Probe
    <2>2. Reached(v) \in 2..27 /\ ~Drops("clients", "ExpiresAt") => Own(v, "client")' = Own(v, "client")
      <3>1. Reached(v) \in 2..27 /\ ~Drops("clients", "ExpiresAt") => Own(v, "client") = Stored(v, "client")
        BY <1>2 DEF Expected, ClientRow
      <3>. QED BY <1>1, <1>2, <2>0, <3>1, CanariesStay
    <2>3. Own(v, "client")' = Own(v, "client") \/ (Own(v, "client")' = None /\ ~Has("purgeSkipsClients"))
      BY <1>1, <2>0, TableValues DEF Lapsed
    <2>. QED BY <1>0, <1>a, <1>2, <2>1, <2>2, <2>3 DEF Expected, ClientRow
  <1>5. CodeRow(v)'
    <2>0. "code" \in Names
      BY DEF Names
    <2>1. Reached(v) = 5 => ~Drops("codes", "ExpiresAt")
      BY <1>2 DEF Expected, Cleared, Probe
    <2>2. Reached(v) \in {4, 5} /\ ~Drops("codes", "ExpiresAt") => Own(v, "code")' = Own(v, "code")
      <3>1. Reached(v) \in {4, 5} /\ ~Drops("codes", "ExpiresAt") => Own(v, "code") \in {None, Stored(v, "code")}
        BY <1>2 DEF Expected, CodeRow
      <3>. QED BY <1>1, <1>2, <2>0, <3>1, CanariesStay
    <2>3. Own(v, "code")' \in {None, Own(v, "code")}
      BY <1>1, <2>0
    <2>. QED BY <1>0, <1>a, <1>2, <2>1, <2>2, <2>3 DEF Expected, CodeRow
  <1>6. PendingRow(v)'
    <2>0. "pending" \in Names
      BY DEF Names
    <2>1. Reached(v) = 8 => ~Drops("pending", "ExpiresAt")
      BY <1>2 DEF Expected, Cleared, Probe
    <2>2. Reached(v) \in {7, 8} /\ ~Drops("pending", "ExpiresAt") => Own(v, "pending")' = Own(v, "pending")
      <3>1. Reached(v) \in {7, 8} /\ ~Drops("pending", "ExpiresAt") =>
              Own(v, "pending") \in {None, Stored(v, "pending")}
        BY <1>2 DEF Expected, PendingRow
      <3>. QED BY <1>1, <1>2, <2>0, <3>1, CanariesStay
    <2>3. Own(v, "pending")' \in {None, Own(v, "pending")}
      BY <1>1, <2>0
    <2>. QED BY <1>0, <1>a, <1>2, <2>1, <2>2, <2>3 DEF Expected, PendingRow
  <1>7. PairRows(v)'
    <2>0. "first" \in Names /\ "second" \in Names
      BY DEF Names
    <2>1. Reached(v) \in 10..12 => ~Drops("pending", "ExpiresAt")
      BY <1>2 DEF Expected, Cleared, Probe
    <2>2. Reached(v) \in 10..12 => Own(v, "first")' = Own(v, "first")
      <3>1. Reached(v) \in 10..12 => Own(v, "first") \in {None, Stored(v, "first")}
        BY <1>2 DEF Expected, PairRows
      <3>. QED BY <1>1, <1>2, <2>0, <2>1, <3>1, CanariesStay
    <2>3. Reached(v) \in 11..12 => Own(v, "second")' = Own(v, "second")
      <3>1. Reached(v) \in 11..12 => Own(v, "second") = Stored(v, "second")
        BY <1>2 DEF Expected, PairRows
      <3>. QED BY <1>1, <1>2, <2>0, <2>1, <3>1, CanariesStay
    <2>4. Own(v, "first")' \in {None, Own(v, "first")} /\ Own(v, "second")' \in {None, Own(v, "second")}
      BY <1>1, <2>0
    <2>. QED BY <1>0, <1>a, <1>2, <2>2, <2>3, <2>4 DEF Expected, PairRows
  <1>8. RefreshRow(v)'
    <2>0. "refresh" \in Names
      BY DEF Names
    <2>1. Reached(v) \in 15..23 => ~Drops("tokens", "FamilyExpiresAt")
      BY <1>2 DEF Expected, Cleared, Probe
    <2>a. Reached(v) \in 18..23 => ~Has("purgesOwnExpiry")
      BY <1>2 DEF Expected, Cleared
    <2>2. Reached(v) \in 14..23 /\ ~Drops("tokens", "FamilyExpiresAt") /\ ~Has("purgesOwnExpiry")
            => Own(v, "refresh")' = Own(v, "refresh")
      <3>. SUFFICES ASSUME Reached(v) \in 14..23, ~Drops("tokens", "FamilyExpiresAt"), ~Has("purgesOwnExpiry")
                    PROVE  Own(v, "refresh")' = Own(v, "refresh")
        OBVIOUS
      <3>0. PICK late : late = [Spent(v, "refresh") EXCEPT !.ConsumedAt = ver[v].now + Hour]
        OBVIOUS
      <3>1. Own(v, "refresh") \in {None, Stored(v, "refresh"), Spent(v, "refresh"), late}
        BY <1>2, <3>0 DEF Expected, RefreshRow
      <3>2. /\ Spent(v, "refresh") \in RowType
            /\ Spent(v, "refresh").FamilyExpiresAt = Stored(v, "refresh").FamilyExpiresAt
        BY <1>2, <2>0, StoredFields
      <3>a. late.FamilyExpiresAt = Stored(v, "refresh").FamilyExpiresAt
        BY <3>0, <3>2 DEF RowType
      <3>3. Own(v, "refresh") # None => Own(v, "refresh").FamilyExpiresAt = Stored(v, "refresh").FamilyExpiresAt
        BY <3>1, <3>2, <3>a
      <3>. QED BY <1>1, <1>2, <2>0, <3>3, CanariesStay
    <2>3. Own(v, "refresh")' \in {None, Own(v, "refresh")}
      BY <1>1, <2>0
    <2>. QED BY <1>0, <1>a, <1>2, <2>1, <2>a, <2>2, <2>3 DEF Expected, RefreshRow
  <1>9. AtomicRow(v)'
    <2>0. "atomic" \in Names
      BY DEF Names
    <2>1. Own(v, "atomic")' \in {None, Own(v, "atomic")}
      BY <1>1, <2>0
    <2>2. Reached(v) = 25 /\ Compliant => RaceOK(v)'
      <3>. SUFFICES ASSUME Reached(v) = 25, Compliant PROVE RaceOK(v)'
        OBVIOUS
      <3>1. RaceOK(v)
        BY DEF Expected, AtomicRow
      <3>2. Spent(v, "atomic").FamilyExpiresAt = Stored(v, "atomic").FamilyExpiresAt
        BY <1>2, <2>0, StoredFields
      <3>3. Own(v, "atomic").FamilyExpiresAt = Stored(v, "atomic").FamilyExpiresAt
        BY <3>1, <3>2 DEF RaceOK
      <3>4. Own(v, "atomic")' = Own(v, "atomic")
        BY <1>1, <1>2, <2>0, <3>3, CanariesStay, Defect
      <3>. QED BY <1>0, <1>a, <3>1, <3>4 DEF RaceOK
    <2>. QED BY <1>0, <1>a, <1>2, <2>1, <2>2 DEF Expected, AtomicRow
  <1>. QED BY <1>3, <1>4, <1>5, <1>6, <1>7, <1>8, <1>9 DEF Expected

(* A step of a verification without problems: it has none after it only if *)
(* things are as expected, and none if the Store is compliant.             *)
Probes(v) ==
    /\ ver'[v].problems = {} => Expected(v)'
    /\ Compliant => ver'[v].problems = {}

LEMMA Onward ==
  ASSUME TypeInv, NEW v \in Verifiers, NEW P \in SUBSET Complaints, GoesOn(v, P),
         clock' = clock, store' = store, ver[v].pc \in Calls \ DOMAIN CleanPcs
  PROVE  /\ Reached(v) \in 1..34 /\ Reached(v)' = Reached(v) + 1
         /\ ver'[v].now = ver[v].now /\ ver'[v].held = ver[v].held
         /\ ver'[v].problems = ver[v].problems \cup P
         /\ \A name : Stored(v, name)' = Stored(v, name) /\ Spent(v, name)' = Spent(v, name)
         /\ \A d : Has(d)' <=> Has(d)
         /\ \A t, c : Drops(t, c)' <=> Drops(t, c)
         /\ Compliant' <=> Compliant
  <1>1. /\ ver'[v].pc = After[ver[v].pc] /\ ver'[v].problems = ver[v].problems \cup P
        /\ ver'[v].now = ver[v].now /\ ver'[v].held = ver[v].held
    BY GoingOn
  <1>2. Reached(v) \in 1..34 /\ Reached(v)' = Reached(v) + 1
    BY <1>1, RankAfter DEF Reached
  <1>. QED BY <1>1, <1>2, SameTerms

LEMMA SaveProbes ==
  ASSUME RowInv, NEW v \in Verifiers, Expected(v), ver[v].problems = {}, Save(v)
  PROVE  Probes(v)
  <1>. DEFINE pc == ver[v].pc
  <1>0. TypeInv /\ Fresh(v) /\ UNCHANGED <<clock, store, racer>>
    BY DEF RowInv, Save
  <1>1. PICK name \in Names : pc \in DOMAIN SavePcs /\ name = SavePcs[pc]
    BY PcValues DEF Save
  <1>2. pc \in Calls \ DOMAIN CleanPcs /\ ver[v] \in Local
    BY <1>0, <1>1, PcValues, DomainValues DEF TypeInv
  <1>3. CASE Refuses(<<v, name>>)
    <2>1. ver'[v] = OnError(v)
      BY <1>0, <1>1, <1>3 DEF Save, Become, TypeInv
    <2>2. ver'[v].problems # {}
      BY <1>0, <1>1, <1>2, <2>1, OnErrorIsLocal, DomainValues
    <2>3. Own(v, name) # None /\ (Table(name) = "tokens" \/ Has("clientInserts"))
      BY <1>3, KeyIsOwn DEF Refuses, Own
    <2>4. Table(name) # "tokens"
      <3>1. Table(name) = "tokens" => pc \in {"saveRefresh", "saveAtomic"}
        BY <1>1, DomainValues, TableValues DEF SavePcs
      <3>2. pc = "saveRefresh" => name = "refresh" /\ Reached(v) = 13
        BY <1>1, RankValues DEF SavePcs, Reached
      <3>3. pc = "saveAtomic" => name = "atomic" /\ Reached(v) = 24
        BY <1>1, RankValues DEF SavePcs, Reached
      <3>. QED BY <1>0, <2>3, <3>1, <3>2, <3>3 DEF Fresh
    <2>5. ~Compliant
      BY <2>3, <2>4, Defect
    <2>. QED BY <2>2, <2>5 DEF Probes
  <1>4. CASE ~Refuses(<<v, name>>)
    <2>1. GoesOn(v, {}) /\ rows' = Saved(<<v, name>>, Canary(v, name))
      BY <1>1, <1>4 DEF Save
    <2>2. PICK row \in RowType : row = Canary(v, name)
      BY <1>0, <1>2, CallIs, CanaryIsTyped
    <2>3. rows' = Saved(<<v, name>>, row)
      BY <2>1, <2>2
    <2>4. /\ Own(v, name)' = Written(name, row)
          /\ \A m \in Names \ {name} :
               Own(v, m)' = IF Has("pendingByClient") /\ {m, name} = {"first", "second"}
                            THEN None ELSE Own(v, m)
      BY <1>0, <2>3, SavedRow
    <2>5. Own(v, name)' = Stored(v, name)
      BY <2>2, <2>4 DEF Stored
    <2>6. ver'[v].problems = {}
      BY <1>0, <1>2, <2>1, Onward
    <2>7. /\ Reached(v)' = Reached(v) + 1
          /\ ver'[v].now = ver[v].now /\ ver'[v].held = ver[v].held
          /\ \A n : Stored(v, n)' = Stored(v, n) /\ Spent(v, n)' = Spent(v, n)
          /\ \A d : Has(d)' <=> Has(d)
          /\ \A t, c : Drops(t, c)' <=> Drops(t, c)
          /\ Compliant' <=> Compliant
      <3>1. {} \in SUBSET Complaints
        OBVIOUS
      <3>. QED BY <1>0, <1>2, <2>1, <3>1, Onward
    <2>8. CASE pc = "saveClient"
      <3>1. Reached(v) = 1 /\ name = "client"
        BY <1>1, <2>8, RankValues DEF Reached, SavePcs
      <3>2. Reached(v)' = 2 /\ Own(v, "client")' = Stored(v, "client")
        BY <2>5, <2>7, <3>1
      <3>3. Expected(v)'
        BY <2>7, <3>2 DEF Expected, Cleared, ClientRow, CodeRow, PendingRow, PairRows, RefreshRow, AtomicRow
      <3>. QED BY <2>6, <3>3 DEF Probes
    <2>9. CASE pc = "saveSecond"
      <3>1. Reached(v) = 10 /\ name = "second"
        BY <1>1, <2>9, RankValues DEF Reached, SavePcs
      <3>2. /\ Reached(v)' = 11 /\ Own(v, "second")' = Stored(v, "second")
            /\ Own(v, "first")' = IF Has("pendingByClient") THEN None ELSE Own(v, "first")
            /\ \A m \in {"client", "code", "pending", "refresh", "atomic"} : Own(v, m)' = Own(v, m)
        BY <2>4, <2>5, <2>7, <3>1 DEF Names
      <3>3. Expected(v)'
        BY <2>7, <3>1, <3>2 DEF Expected, Cleared, ClientRow, CodeRow, PendingRow, PairRows, RefreshRow, AtomicRow
      <3>. QED BY <2>6, <3>3 DEF Probes
    <2>10. CASE pc = "saveCode"
      <3>1. Reached(v) = 3 /\ name = "code"
        BY <1>1, <2>10, RankValues DEF Reached, SavePcs
      <3>2. /\ Reached(v)' = 4 /\ Own(v, "code")' = Stored(v, "code")
            /\ \A m \in {"client", "pending", "first", "second", "refresh", "atomic"} : Own(v, m)' = Own(v, m)
        BY <2>4, <2>5, <2>7, <3>1 DEF Names
      <3>3. Expected(v)'
        BY <2>7, <3>1, <3>2
           DEF Expected, Cleared, ClientRow, CodeRow, PendingRow, PairRows, RefreshRow, AtomicRow
      <3>. QED BY <2>6, <3>3 DEF Probes
    <2>11. CASE pc = "savePending"
      <3>1. Reached(v) = 6 /\ name = "pending"
        BY <1>1, <2>11, RankValues DEF Reached, SavePcs
      <3>2. /\ Reached(v)' = 7 /\ Own(v, "pending")' = Stored(v, "pending")
            /\ \A m \in {"client", "code", "first", "second", "refresh", "atomic"} : Own(v, m)' = Own(v, m)
        BY <2>4, <2>5, <2>7, <3>1 DEF Names
      <3>3. Expected(v)'
        BY <2>7, <3>1, <3>2
           DEF Expected, Cleared, ClientRow, CodeRow, PendingRow, PairRows, RefreshRow, AtomicRow
      <3>. QED BY <2>6, <3>3 DEF Probes
    <2>12. CASE pc = "saveFirst"
      <3>1. Reached(v) = 9 /\ name = "first"
        BY <1>1, <2>12, RankValues DEF Reached, SavePcs
      <3>2. /\ Reached(v)' = 10 /\ Own(v, "first")' = Stored(v, "first")
            /\ \A m \in {"client", "code", "pending", "refresh", "atomic"} : Own(v, m)' = Own(v, m)
        BY <2>4, <2>5, <2>7, <3>1 DEF Names
      <3>3. Expected(v)'
        BY <2>7, <3>1, <3>2
           DEF Expected, Cleared, ClientRow, CodeRow, PendingRow, PairRows, RefreshRow, AtomicRow
      <3>. QED BY <2>6, <3>3 DEF Probes
    <2>13. CASE pc = "saveRefresh"
      <3>1. Reached(v) = 13 /\ name = "refresh"
        BY <1>1, <2>13, RankValues DEF Reached, SavePcs
      <3>2. /\ Reached(v)' = 14 /\ Own(v, "refresh")' = Stored(v, "refresh")
            /\ \A m \in {"client", "code", "pending", "first", "second", "atomic"} : Own(v, m)' = Own(v, m)
        BY <2>4, <2>5, <2>7, <3>1 DEF Names
      <3>3. Expected(v)'
        BY <2>7, <3>1, <3>2
           DEF Expected, Cleared, ClientRow, CodeRow, PendingRow, PairRows, RefreshRow, AtomicRow
      <3>. QED BY <2>6, <3>3 DEF Probes
    <2>14. CASE pc = "saveAtomic"
      <3>1. Reached(v) = 24 /\ name = "atomic"
        BY <1>1, <2>14, RankValues DEF Reached, SavePcs
      <3>2. /\ Reached(v)' = 25 /\ Own(v, "atomic")' = Stored(v, "atomic")
            /\ \A m \in {"client", "code", "pending", "first", "second", "refresh"} : Own(v, m)' = Own(v, m)
        BY <2>4, <2>5, <2>7, <3>1 DEF Names
      <3>3. RaceOK(v)'
        BY <1>0, <2>7, <3>1, <3>2, CallsArePcs, <1>2 DEF RaceOK, Fresh
      <3>4. Expected(v)'
        BY <2>7, <3>1, <3>2, <3>3
           DEF Expected, Cleared, ClientRow, CodeRow, PendingRow, PairRows, RefreshRow, AtomicRow
      <3>. QED BY <2>6, <3>4 DEF Probes
    <2>. QED BY <1>1, <2>8, <2>9, <2>10, <2>11, <2>12, <2>13, <2>14, DomainValues
  <1>. QED BY <1>3, <1>4

(* A canary is read and compared.                                          *)
LEMMA ReadingProbes ==
  ASSUME RowInv, NEW v \in Verifiers, ver[v].problems = {}, ver[v].pc \in Calls \ DOMAIN CleanPcs,
         NEW name \in Names, clock' = clock, store' = store,
         IF Own(v, name) = None THEN Returns(v, "notFound")
         ELSE GoesOn(v, Mismatches(v, name, Own(v, name))),
         Compliant => Own(v, name) = Stored(v, name)
  PROVE  /\ Compliant => ver'[v].problems = {}
         /\ ver'[v].problems = {} =>
              /\ Own(v, name) # None /\ Mismatches(v, name, Own(v, name)) = {} /\ GoesOn(v, {})
              /\ \A c \in Probe(Table(name)) : ~Drops(Table(name), c)
              /\ name = "refresh" => ~Drops("tokens", "FamilyExpiresAt")
  <1>0. TypeInv /\ DroppedOK(v) /\ "notFound" \in Complaints
    BY ComplaintsAre DEF RowInv
  <1>1. CASE Own(v, name) = None
    <2>1. ver'[v].problems # {}
      BY <1>0, <1>1, Returning
    <2>2. ~Compliant
      BY <1>0, <1>1, StoredFields
    <2>. QED BY <2>1, <2>2
  <1>2. CASE Own(v, name) # None
    <2>1. Mismatches(v, name, Own(v, name)) \in SUBSET Complaints
      BY <1>0, CallIs, MismatchesAre
    <2>2. ver'[v].problems = Mismatches(v, name, Own(v, name))
      BY <1>0, <1>2, <2>1, Onward
    <2>. QED BY <1>0, <1>2, <2>2, ReadingFinds
  <1>. QED BY <1>1, <1>2

LEMMA ReadBackProbes ==
  ASSUME RowInv, NEW v \in Verifiers, Expected(v), ver[v].problems = {}, ReadBack(v)
  PROVE  Probes(v)
  <1>0. TypeInv /\ UNCHANGED <<clock, rows, store, racer>> /\ {} \in SUBSET Complaints
    BY DEF RowInv, ReadBack
  <1>1. /\ ver[v].pc \in Calls \ DOMAIN CleanPcs
        /\ ver[v].pc \in {"getClient", "getRefresh"}
    BY PcValues, DomainValues DEF ReadBack
  <1>2. \A m \in Names : Own(v, m)' = Own(v, m)
    BY <1>0, SameRows
  <1>a. GoesOn(v, {}) =>
          /\ Reached(v)' = Reached(v) + 1
          /\ ver'[v].now = ver[v].now /\ ver'[v].held = ver[v].held
          /\ \A n : Stored(v, n)' = Stored(v, n) /\ Spent(v, n)' = Spent(v, n)
          /\ \A d : Has(d)' <=> Has(d)
          /\ \A t, c : Drops(t, c)' <=> Drops(t, c)
          /\ Compliant' <=> Compliant
    BY <1>0, <1>1, Onward
  <1>b. {"client", "code", "pending", "first", "second", "refresh", "atomic"} \subseteq Names
    BY DEF Names
  <1>3. CASE ver[v].pc = "getClient"
    <2>1. Reached(v) = 2
      BY <1>3, RankValues DEF Reached
    <2>2. IF Own(v, "client") = None THEN Returns(v, "notFound")
          ELSE GoesOn(v, Mismatches(v, "client", Own(v, "client")))
      BY <1>3 DEF ReadBack, ReadPcs, Own
    <2>3. Own(v, "client") = Stored(v, "client") \/ Drops("clients", "ExpiresAt")
      BY <2>1 DEF Expected, ClientRow
    <2>4. /\ Compliant => ver'[v].problems = {}
          /\ ver'[v].problems = {} => GoesOn(v, {}) /\ \A c \in Probe("clients") : ~Drops("clients", c)
      BY <1>0, <1>1, <1>b, <2>2, <2>3, ReadingProbes, TableValues, Defect
    <2>5. ASSUME ver'[v].problems = {} PROVE Expected(v)'
      <3>1. Own(v, "client")' = Stored(v, "client") /\ \A c \in Probe("clients") : ~Drops("clients", c)
        BY <1>2, <1>b, <2>3, <2>4, <2>5 DEF Probe
      <3>2. Reached(v)' = 3
        BY <1>a, <2>1, <2>4, <2>5
      <3>. QED BY <1>a, <2>4, <2>5, <3>1, <3>2
               DEF Expected, Cleared, ClientRow, CodeRow, PendingRow, PairRows, RefreshRow, AtomicRow
    <2>. QED BY <2>4, <2>5 DEF Probes
  <1>4. CASE ver[v].pc = "getRefresh"
    <2>1. Reached(v) = 14
      BY <1>4, RankValues DEF Reached
    <2>2. IF Own(v, "refresh") = None THEN Returns(v, "notFound")
          ELSE GoesOn(v, Mismatches(v, "refresh", Own(v, "refresh")))
      BY <1>4 DEF ReadBack, ReadPcs, Own
    <2>3. /\ Own(v, "refresh") \in {None, Stored(v, "refresh")}
          /\ Compliant => Own(v, "refresh") = Stored(v, "refresh")
      BY <2>1, Defect DEF Expected, RefreshRow
    <2>4. /\ Compliant => ver'[v].problems = {}
          /\ ver'[v].problems = {} => /\ GoesOn(v, {}) /\ Own(v, "refresh") # None
                                      /\ \A c \in Probe("tokens") : ~Drops("tokens", c)
                                      /\ ~Drops("tokens", "FamilyExpiresAt")
      BY <1>0, <1>1, <1>b, <2>2, <2>3, ReadingProbes, TableValues
    <2>5. ASSUME ver'[v].problems = {} PROVE Expected(v)'
      <3>1. /\ Own(v, "refresh")' = Stored(v, "refresh")
            /\ \A c \in Probe("tokens") \cup {"FamilyExpiresAt"} : ~Drops("tokens", c)
        BY <1>2, <1>b, <2>3, <2>4, <2>5
      <3>2. Reached(v)' = 15 /\ \A m \in {"client", "code", "pending", "first", "second"} : Own(v, m)' = Own(v, m)
        BY <1>2, <1>a, <1>b, <2>1, <2>4, <2>5
      <3>3. Cleared(v)'
        BY <1>a, <2>1, <2>4, <2>5, <3>1, <3>2 DEF Expected, Cleared
      <3>a. Stored(v, "refresh")' = Stored(v, "refresh") /\ ~Reached(v)' > 23
        BY <1>a, <2>4, <2>5, <3>2
      <3>4. RefreshRow(v)'
        BY <3>1, <3>2, <3>a DEF RefreshRow
      <3>. QED BY <1>a, <2>1, <2>4, <2>5, <3>2, <3>3, <3>4
               DEF Expected, ClientRow, CodeRow, PendingRow, PairRows, AtomicRow
    <2>. QED BY <2>4, <2>5 DEF Probes
  <1>. QED BY <1>1, <1>3, <1>4

LEMMA TakeProbes ==
  ASSUME RowInv, NEW v \in Verifiers, Expected(v), ver[v].problems = {}, Take(v)
  PROVE  Probes(v)
  <1>0. TypeInv /\ UNCHANGED <<clock, store, racer>> /\ {} \in SUBSET Complaints
    BY DEF RowInv, Take
  <1>1. /\ ver[v].pc \in Calls \ DOMAIN CleanPcs
        /\ ver[v].pc \in {"takeCode", "takePending", "takeFirst", "takeSecond"}
    BY PcValues, DomainValues DEF Take
  <1>a. GoesOn(v, {}) =>
          /\ Reached(v)' = Reached(v) + 1
          /\ ver'[v].now = ver[v].now /\ ver'[v].held = ver[v].held /\ ver'[v].problems = {}
          /\ \A n : Stored(v, n)' = Stored(v, n) /\ Spent(v, n)' = Spent(v, n)
          /\ \A d : Has(d)' <=> Has(d)
          /\ \A t, c : Drops(t, c)' <=> Drops(t, c)
          /\ Compliant' <=> Compliant
    BY <1>0, <1>1, Onward
  <1>b. {"client", "code", "pending", "first", "second", "refresh", "atomic"} \subseteq Names
    BY DEF Names
  <1>3. CASE ver[v].pc = "takeCode"
    <2>1. Reached(v) = 4 /\ rows' = Taken(<<v, "code">>)
      BY <1>3, RankValues DEF Reached, Take, TakePcs
    <2>2. IF Own(v, "code") = None THEN Returns(v, "notFound")
          ELSE GoesOn(v, Mismatches(v, "code", Own(v, "code")))
      BY <1>3 DEF Take, TakePcs, Own
    <2>3. Own(v, "code") = Stored(v, "code") \/ Drops("codes", "ExpiresAt")
      BY <2>1 DEF Expected, CodeRow
    <2>4. /\ Compliant => ver'[v].problems = {}
          /\ ver'[v].problems = {} => GoesOn(v, {}) /\ \A c \in Probe("codes") : ~Drops("codes", c)
      BY <1>0, <1>1, <1>b, <2>2, <2>3, ReadingProbes, TableValues, Defect
    <2>5. ASSUME ver'[v].problems = {} PROVE Expected(v)'
      <3>1. /\ Own(v, "code")' = IF Has("codeReusable") THEN Own(v, "code") ELSE None
            /\ \A m \in {"client"} : Own(v, m)' = Own(v, m)
        BY <1>0, <1>b, <2>1, TakenRow, TableValues
      <3>2. Own(v, "code") = Stored(v, "code") /\ \A c \in Probe("codes") : ~Drops("codes", c)
        BY <2>3, <2>4, <2>5 DEF Probe
      <3>3. Reached(v)' = 5
        BY <1>a, <2>1, <2>4, <2>5
      <3>. QED BY <1>a, <2>1, <2>4, <2>5, <3>1, <3>2, <3>3
               DEF Expected, Cleared, ClientRow, CodeRow, PendingRow, PairRows, RefreshRow, AtomicRow
    <2>. QED BY <2>4, <2>5 DEF Probes
  <1>4. CASE ver[v].pc = "takePending"
    <2>1. Reached(v) = 7 /\ rows' = Taken(<<v, "pending">>)
      BY <1>4, RankValues DEF Reached, Take, TakePcs
    <2>2. IF Own(v, "pending") = None THEN Returns(v, "notFound")
          ELSE GoesOn(v, Mismatches(v, "pending", Own(v, "pending")))
      BY <1>4 DEF Take, TakePcs, Own
    <2>3. Own(v, "pending") = Stored(v, "pending") \/ Drops("pending", "ExpiresAt")
      BY <2>1 DEF Expected, PendingRow
    <2>4. /\ Compliant => ver'[v].problems = {}
          /\ ver'[v].problems = {} => GoesOn(v, {}) /\ \A c \in Probe("pending") : ~Drops("pending", c)
      BY <1>0, <1>1, <1>b, <2>2, <2>3, ReadingProbes, TableValues, Defect
    <2>5. ASSUME ver'[v].problems = {} PROVE Expected(v)'
      <3>1. /\ Own(v, "pending")' = IF Has("pendingReusable") THEN Own(v, "pending") ELSE None
            /\ \A m \in {"client", "code"} : Own(v, m)' = Own(v, m)
        BY <1>0, <1>b, <2>1, TakenRow, TableValues
      <3>2. Own(v, "pending") = Stored(v, "pending") /\ \A c \in Probe("pending") : ~Drops("pending", c)
        BY <2>3, <2>4, <2>5 DEF Probe
      <3>3. Reached(v)' = 8
        BY <1>a, <2>1, <2>4, <2>5
      <3>. QED BY <1>a, <2>1, <2>4, <2>5, <3>1, <3>2, <3>3
               DEF Expected, Cleared, ClientRow, CodeRow, PendingRow, PairRows, RefreshRow, AtomicRow
    <2>. QED BY <2>4, <2>5 DEF Probes
  <1>5. CASE ver[v].pc = "takeFirst"
    <2>1. Reached(v) = 11 /\ rows' = Taken(<<v, "first">>)
      BY <1>5, RankValues DEF Reached, Take, TakePcs
    <2>2. IF Own(v, "first") = None THEN Returns(v, "notFound") ELSE GoesOn(v, {})
      BY <1>5 DEF Take, TakePcs, Own
    <2>3. /\ Own(v, "first") = IF Has("pendingByClient") THEN None ELSE Stored(v, "first")
          /\ Own(v, "second") = Stored(v, "second") /\ ~Has("pendingReusable")
      BY <2>1 DEF Expected, PairRows, Cleared
    <2>4. CASE Has("pendingByClient")
      <3>1. ver'[v].problems # {}
        BY <1>0, <1>1, <2>2, <2>3, <2>4, Returning, ComplaintsAre
      <3>. QED BY <2>4, <3>1, Defect DEF Probes
    <2>5. CASE ~Has("pendingByClient")
      <3>1. Own(v, "first") # None
        BY <1>0, <1>1, <1>b, <2>3, <2>5, StoredFields
      <3>2. /\ Own(v, "first")' = None
            /\ \A m \in {"client", "code", "pending", "second"} : Own(v, m)' = Own(v, m)
        BY <1>0, <1>b, <2>1, <2>3, TakenRow, TableValues
      <3>3. GoesOn(v, {}) /\ Reached(v)' = 12
        BY <1>a, <2>1, <2>2, <3>1
      <3>4. Expected(v)'
        BY <1>a, <2>1, <2>3, <2>5, <3>2, <3>3
           DEF Expected, Cleared, ClientRow, CodeRow, PendingRow, PairRows, RefreshRow, AtomicRow
      <3>. QED BY <1>a, <3>3, <3>4 DEF Probes
    <2>. QED BY <2>4, <2>5
  <1>6. CASE ver[v].pc = "takeSecond"
    <2>1. Reached(v) = 12 /\ rows' = Taken(<<v, "second">>)
      BY <1>6, RankValues DEF Reached, Take, TakePcs
    <2>2. IF Own(v, "second") = None THEN Returns(v, "notFound") ELSE GoesOn(v, {})
      BY <1>6 DEF Take, TakePcs, Own
    <2>3. Own(v, "second") = Stored(v, "second") /\ ~Has("pendingReusable")
      BY <2>1 DEF Expected, PairRows, Cleared
    <2>4. Own(v, "second") # None
      BY <1>0, <1>1, <1>b, <2>3, StoredFields
    <2>5. /\ Own(v, "second")' = None
          /\ \A m \in {"client", "code", "pending", "first"} : Own(v, m)' = Own(v, m)
      BY <1>0, <1>b, <2>1, <2>3, TakenRow, TableValues
    <2>6. GoesOn(v, {}) /\ Reached(v)' = 13
      BY <1>a, <2>1, <2>2, <2>4
    <2>7. Expected(v)'
      BY <1>a, <2>1, <2>5, <2>6
         DEF Expected, Cleared, ClientRow, CodeRow, PendingRow, PairRows, RefreshRow, AtomicRow
    <2>. QED BY <1>a, <2>6, <2>7 DEF Probes
  <1>. QED BY <1>1, <1>3, <1>4, <1>5, <1>6

LEMMA RetakeProbes ==
  ASSUME RowInv, NEW v \in Verifiers, Expected(v), ver[v].problems = {}, Retake(v)
  PROVE  Probes(v)
  <1>0. TypeInv /\ UNCHANGED <<clock, store, racer>>
    BY DEF RowInv, Retake
  <1>1. ver[v].pc \in Calls \ DOMAIN CleanPcs /\ ver[v].pc \in {"retakeCode", "retakePending"}
    BY PcValues, DomainValues DEF Retake
  <1>b. {"client", "code", "pending", "first", "second", "refresh", "atomic"} \subseteq Names
    BY DEF Names
  <1>2. PICK name \in Names, P \in SUBSET Complaints :
          /\ name = RetakePcs[ver[v].pc] /\ P = Unless(Own(v, name) = None, "notSingleUse")
          /\ GoesOn(v, P) /\ rows' = Taken(<<v, name>>)
    <2>1. Unless(Own(v, RetakePcs[ver[v].pc]) = None, "notSingleUse") \in SUBSET Complaints
      BY ComplaintsAre DEF Unless
    <2>. QED BY <2>1, PcValues DEF Retake, Own
  <1>a. /\ Reached(v)' = Reached(v) + 1
        /\ ver'[v].now = ver[v].now /\ ver'[v].held = ver[v].held /\ ver'[v].problems = P
        /\ \A n : Stored(v, n)' = Stored(v, n) /\ Spent(v, n)' = Spent(v, n)
        /\ \A d : Has(d)' <=> Has(d)
        /\ \A t, c : Drops(t, c)' <=> Drops(t, c)
        /\ Compliant' <=> Compliant
    <2>1. ver[v].problems \cup P = P
      OBVIOUS
    <2>. QED BY <1>0, <1>1, <1>2, <2>1, Onward
  <1>c. /\ Own(v, name)' \in {Own(v, name), None} /\ \A m \in Names \ {name} : Own(v, m)' = Own(v, m)
        /\ P = {} <=> Own(v, name) = None
    BY <1>0, <1>2, TakenRow DEF Unless
  <1>3. CASE ver[v].pc = "retakeCode"
    <2>1. Reached(v) = 5 /\ Reached(v)' = 6 /\ name = "code"
      BY <1>2, <1>3, <1>a, RankValues DEF Reached, RetakePcs
    <2>2. /\ Own(v, "code") = IF Has("codeReusable") THEN Stored(v, "code") ELSE None
          /\ Stored(v, "code") # None
      BY <1>0, <1>1, <1>b, <2>1, StoredFields DEF Expected, CodeRow
    <2>3. P = {} <=> ~Has("codeReusable")
      BY <1>c, <2>1, <2>2
    <2>4. ASSUME P = {} PROVE Expected(v)'
      <3>1. Own(v, "code")' = None /\ Own(v, "client")' = Own(v, "client")
        BY <1>b, <1>c, <2>1, <2>4
      <3>. QED BY <1>a, <2>1, <2>3, <2>4, <3>1
               DEF Expected, Cleared, ClientRow, CodeRow, PendingRow, PairRows, RefreshRow, AtomicRow
    <2>. QED BY <1>a, <2>3, <2>4, Defect DEF Probes
  <1>4. CASE ver[v].pc = "retakePending"
    <2>1. Reached(v) = 8 /\ Reached(v)' = 9 /\ name = "pending"
      BY <1>2, <1>4, <1>a, RankValues DEF Reached, RetakePcs
    <2>2. /\ Own(v, "pending") = IF Has("pendingReusable") THEN Stored(v, "pending") ELSE None
          /\ Stored(v, "pending") # None
      BY <1>0, <1>1, <1>b, <2>1, StoredFields DEF Expected, PendingRow
    <2>3. P = {} <=> ~Has("pendingReusable")
      BY <1>c, <2>1, <2>2
    <2>4. ASSUME P = {} PROVE Expected(v)'
      <3>1. Own(v, "pending")' = None /\ Own(v, "client")' = Own(v, "client") /\ Own(v, "code")' = Own(v, "code")
        BY <1>b, <1>c, <2>1, <2>4
      <3>. QED BY <1>a, <2>1, <2>3, <2>4, <3>1
               DEF Expected, Cleared, ClientRow, CodeRow, PendingRow, PairRows, RefreshRow, AtomicRow
    <2>. QED BY <1>a, <2>3, <2>4, Defect DEF Probes
  <1>. QED BY <1>1, <1>3, <1>4

(* A call that reads one thing of the Store and goes on.                   *)
LEMMA LookOnward ==
  ASSUME RowInv, NEW v \in Verifiers, Expected(v), ver[v].problems = {},
         ver[v].pc \in Calls \ DOMAIN CleanPcs, UNCHANGED <<clock, rows, store, racer>>, GoesOn(v, {}),
         Reached(v) \in {15, 17, 21, 23, 33, 34},
         Reached(v) = 15 => ~Has("unknownIsError"),
         Reached(v) = 17 => ~Has("purgesOwnExpiry"),
         Reached(v) = 21 => ~Has("getHidesConsumed"),
         Reached(v) = 23 => ~Has("revokeNoop"),
         Reached(v) = 33 => ~Has("purgeSkipsClients")
  PROVE  Probes(v)
  <1>0. TypeInv /\ {} \in SUBSET Complaints
    BY DEF RowInv
  <1>1. /\ Reached(v) \in 1..34 /\ Reached(v)' = Reached(v) + 1
        /\ ver'[v].now = ver[v].now /\ ver'[v].held = ver[v].held /\ ver'[v].problems = {}
        /\ \A n : Stored(v, n)' = Stored(v, n) /\ Spent(v, n)' = Spent(v, n)
        /\ \A d : Has(d)' <=> Has(d)
        /\ \A t, c : Drops(t, c)' <=> Drops(t, c)
        /\ Compliant' <=> Compliant
    BY <1>0, Onward
  <1>3. \A m \in {"client", "code", "pending", "first", "second", "refresh", "atomic"} : Own(v, m)' = Own(v, m)
    BY DEF Own
  <1>4. Cleared(v)'
    BY <1>1 DEF Expected, Cleared
  <1>5. ClientRow(v)' /\ CodeRow(v)' /\ PendingRow(v)' /\ PairRows(v)'
    BY <1>1, <1>3 DEF Expected, ClientRow, CodeRow, PendingRow, PairRows
  <1>6. RefreshRow(v)'
    BY <1>1, <1>3 DEF Expected, RefreshRow, Cleared
  <1>7. AtomicRow(v)'
    BY <1>1, <1>3 DEF Expected, AtomicRow
  <1>. QED BY <1>1, <1>4, <1>5, <1>6, <1>7 DEF Probes, Expected

LEMMA LookProbes ==
  ASSUME RowInv, NEW v \in Verifiers, Expected(v), ver[v].problems = {},
         GetUnknown(v) \/ GetKept(v) \/ GetConsumed(v) \/ GetRevoked(v) \/ ClientGone(v) \/ TokenGone(v)
  PROVE  Probes(v)
  <1>0. TypeInv /\ UNCHANGED <<clock, rows, store, racer>>
    BY DEF RowInv, GetUnknown, GetKept, GetConsumed, GetRevoked, ClientGone, TokenGone
  <1>1. ver[v].pc \in Calls \ DOMAIN CleanPcs
    BY TokenCallsAre DEF At, GetUnknown, GetKept, GetConsumed, GetRevoked, ClientGone, TokenGone
  <1>2. "refresh" \in Names
    BY DEF Names
  <1>3. /\ Stored(v, "refresh") # None /\ Stored(v, "refresh").ConsumedAt = Zero
        /\ Spent(v, "refresh") # None /\ Spent(v, "refresh").ConsumedAt # Zero
    BY <1>0, <1>1, <1>2, StoredFields, CallIs, TimeAssumption DEF Zero
  <1>4. ASSUME NEW P \in SUBSET Complaints, GoesOn(v, P) PROVE ver'[v].problems = P
    <2>1. ver[v].problems \cup P = P
      OBVIOUS
    <2>. QED BY <1>0, <1>1, <1>4, <2>1, Onward
  <1>5. CASE GetUnknown(v)
    <2>1. Reached(v) = 15 /\ ver[v].pc = "getUnknown"
      BY <1>5, RankValues DEF GetUnknown, At, Reached
    <2>2. CASE Has("unknownIsError")
      <3>1. ver'[v] = OnError(v)
        BY <1>0, <1>5, <2>2 DEF GetUnknown, Become, TypeInv
      <3>2. ver'[v].problems # {}
        BY <1>0, <1>1, <2>1, <3>1, OnErrorIsLocal
      <3>. QED BY <2>2, <3>2, Defect DEF Probes
    <2>3. CASE ~Has("unknownIsError")
      BY <1>0, <1>1, <1>5, <2>1, <2>3, LookOnward DEF GetUnknown
    <2>. QED BY <2>2, <2>3
  <1>6. CASE GetKept(v)
    <2>1. Reached(v) = 17 /\ ver[v].pc = "getKept"
      BY <1>6, RankValues DEF GetKept, At, Reached
    <2>2. Own(v, "refresh") = IF Has("purgesOwnExpiry") THEN None ELSE Stored(v, "refresh")
      BY <2>1 DEF Expected, RefreshRow
    <2>3. GetToken(<<v, "refresh">>) = Own(v, "refresh")
      BY <1>3, <2>2 DEF GetToken, Own
    <2>4. CASE Has("purgesOwnExpiry")
      <3>1. Returns(v, "purgedTooEarly")
        BY <1>6, <2>2, <2>3, <2>4 DEF GetKept
      <3>2. ver'[v].problems # {}
        BY <1>0, <1>1, <3>1, Returning, ComplaintsAre
      <3>. QED BY <2>4, <3>2, Defect DEF Probes
    <2>5. CASE ~Has("purgesOwnExpiry")
      <3>1. GoesOn(v, {})
        BY <1>3, <1>6, <2>2, <2>3, <2>5 DEF GetKept
      <3>. QED BY <1>0, <1>1, <2>1, <2>5, <3>1, LookOnward
    <2>. QED BY <2>4, <2>5
  <1>7. CASE GetConsumed(v)
    <2>1. Reached(v) = 21
      BY <1>7, RankValues DEF GetConsumed, At, Reached
    <2>2. Own(v, "refresh") = Spent(v, "refresh")
      BY <2>1 DEF Expected, RefreshRow
    <2>3. GetToken(<<v, "refresh">>) = None <=> Has("getHidesConsumed")
      BY <1>3, <2>2 DEF GetToken, Own
    <2>4. CASE Has("getHidesConsumed")
      <3>1. GoesOn(v, {"hidesConsumed"})
        BY <1>7, <2>3, <2>4 DEF GetConsumed, Unless
      <3>. QED BY <1>4, <2>4, <3>1, Defect, ComplaintsAre DEF Probes
    <2>5. CASE ~Has("getHidesConsumed")
      <3>1. GoesOn(v, {})
        BY <1>7, <2>3, <2>5 DEF GetConsumed, Unless
      <3>. QED BY <1>0, <1>1, <2>1, <2>5, <3>1, LookOnward
    <2>. QED BY <2>4, <2>5
  <1>8. CASE GetRevoked(v)
    <2>1. Reached(v) = 23
      BY <1>8, RankValues DEF GetRevoked, At, Reached
    <2>2. Own(v, "refresh") = (IF Has("revokeNoop") THEN Spent(v, "refresh") ELSE None) /\ ~Has("getHidesConsumed")
      BY <2>1 DEF Expected, RefreshRow, Cleared
    <2>3. GetToken(<<v, "refresh">>) = None <=> ~Has("revokeNoop")
      BY <1>3, <2>2 DEF GetToken, Own
    <2>4. CASE Has("revokeNoop")
      <3>1. GoesOn(v, {"revokedAlive"})
        BY <1>8, <2>3, <2>4 DEF GetRevoked, Unless
      <3>. QED BY <1>4, <2>4, <3>1, Defect, ComplaintsAre DEF Probes
    <2>5. CASE ~Has("revokeNoop")
      <3>1. GoesOn(v, {})
        BY <1>8, <2>3, <2>5 DEF GetRevoked, Unless
      <3>. QED BY <1>0, <1>1, <2>1, <2>5, <3>1, LookOnward
    <2>. QED BY <2>4, <2>5
  <1>9. CASE ClientGone(v)
    <2>1. Reached(v) = 33
      BY <1>9, RankValues DEF ClientGone, At, Reached
    <2>2. Own(v, "client") = None <=> ~Has("purgeSkipsClients")
      BY <2>1 DEF Expected, ClientRow
    <2>4. CASE Has("purgeSkipsClients")
      <3>1. GoesOn(v, {"keepsClients"})
        BY <1>9, <2>2, <2>4 DEF ClientGone, Unless, Own
      <3>. QED BY <1>4, <2>4, <3>1, Defect, ComplaintsAre DEF Probes
    <2>5. CASE ~Has("purgeSkipsClients")
      <3>1. GoesOn(v, {})
        BY <1>9, <2>2, <2>5 DEF ClientGone, Unless, Own
      <3>. QED BY <1>0, <1>1, <2>1, <2>5, <3>1, LookOnward
    <2>. QED BY <2>4, <2>5
  <1>10. CASE TokenGone(v)
    <2>1. Reached(v) = 34
      BY <1>10, RankValues DEF TokenGone, At, Reached
    <2>2. Own(v, "refresh") = None
      BY <2>1 DEF Expected, RefreshRow
    <2>3. GoesOn(v, {})
      BY <1>10, <2>2 DEF TokenGone, Unless, Own, GetToken
    <2>. QED BY <1>0, <1>1, <2>1, <2>3, LookOnward
  <1>. QED BY <1>5, <1>6, <1>7, <1>8, <1>9, <1>10

(* A call that goes on and reports nothing, whatever the Store does.       *)
LEMMA PurgeEarlyProbes ==
  ASSUME RowInv, NEW v \in Verifiers, Expected(v), ver[v].problems = {}, PurgeEarly(v)
  PROVE  Probes(v)
  <1>0. /\ TypeInv /\ UNCHANGED <<clock, store, racer>> /\ {} \in SUBSET Complaints
        /\ GoesOn(v, {}) /\ rows' = Purged(ver[v].now) /\ ver[v].pc = "purgeEarly"
        /\ ver[v].pc \in Calls \ DOMAIN CleanPcs
    BY TokenCallsAre DEF RowInv, PurgeEarly, At
  <1>1. Reached(v) = 16
    BY <1>0, RankValues DEF Reached
  <1>a. /\ Reached(v)' = 17
        /\ ver'[v].now = ver[v].now /\ ver'[v].held = ver[v].held /\ ver'[v].problems = {}
        /\ \A n : Stored(v, n)' = Stored(v, n) /\ Spent(v, n)' = Spent(v, n)
        /\ \A d : Has(d)' <=> Has(d)
        /\ \A t, c : Drops(t, c)' <=> Drops(t, c)
        /\ Compliant' <=> Compliant
    BY <1>0, <1>1, Onward
  <1>b. {"client", "code", "pending", "first", "second", "refresh"} \subseteq Names
    BY DEF Names
  <1>2. ver[v].now \in Nat /\ Minute \in Nat /\ 0 < Minute /\ ver[v].now \in 0..clock
    BY <1>0, CallIs, TimeAssumption
  <1>3. \A name \in Names : Own(v, name)' = IF Own(v, name) # None /\ Lapsed(name, Own(v, name), ver[v].now)
                                            THEN None ELSE Own(v, name)
    BY <1>0, KeyIsOwn DEF Purged, Own
  <1>4. /\ Own(v, "client") = Stored(v, "client")
        /\ \A m \in {"code", "pending", "first", "second"} : Own(v, m) = None
        /\ \/ Own(v, "refresh") = Stored(v, "refresh")
           \/ Own(v, "refresh") = None /\ Has("purgesOwnExpiry")
        /\ ~Drops("clients", "ExpiresAt") /\ ~Drops("tokens", "ExpiresAt") /\ ~Drops("tokens", "FamilyExpiresAt")
    BY <1>1 DEF Expected, ClientRow, CodeRow, PendingRow, PairRows, RefreshRow, Cleared, Probe
  <1>5. Own(v, "client")' = Stored(v, "client") /\ \A m \in {"code", "pending", "first", "second"} : Own(v, m)' = None
    BY <1>0, <1>b, <1>2, <1>3, <1>4, CanariesStay
  <1>6. Own(v, "refresh")' = IF Has("purgesOwnExpiry") THEN None ELSE Stored(v, "refresh")
    <2>1. CASE Has("purgesOwnExpiry")
      <3>1. Stored(v, "refresh").ExpiresAt = ver[v].now - Minute
        BY <1>0, <1>b, <1>4, StoredFields, CanaryValues, TableValues
      <3>2. Lapsed("refresh", Stored(v, "refresh"), ver[v].now)
        BY <1>2, <2>1, <3>1, TableValues, Defect DEF Lapsed
      <3>. QED BY <1>b, <1>3, <1>4, <2>1, <3>2
    <2>2. CASE ~Has("purgesOwnExpiry")
      BY <1>0, <1>b, <1>2, <1>3, <1>4, <2>2, CanariesStay
    <2>. QED BY <2>1, <2>2
  <1>7. Cleared(v)'
    BY <1>1, <1>a DEF Expected, Cleared
  <1>8. ClientRow(v)' /\ CodeRow(v)' /\ PendingRow(v)' /\ PairRows(v)' /\ RefreshRow(v)' /\ AtomicRow(v)'
    BY <1>a, <1>5, <1>6 DEF ClientRow, CodeRow, PendingRow, PairRows, RefreshRow, AtomicRow
  <1>. QED BY <1>a, <1>7, <1>8 DEF Probes, Expected

LEMMA FinalPurgeProbes ==
  ASSUME RowInv, NEW v \in Verifiers, Expected(v), ver[v].problems = {}, FinalPurge(v)
  PROVE  Probes(v)
  <1>0. /\ TypeInv /\ UNCHANGED <<clock, store, racer>> /\ {} \in SUBSET Complaints
        /\ GoesOn(v, {}) /\ rows' = Purged(ver[v].now) /\ ver[v].pc = "purge"
        /\ ver[v].pc \in Calls \ DOMAIN CleanPcs
    BY TokenCallsAre DEF RowInv, FinalPurge, At
  <1>1. Reached(v) = 32
    BY <1>0, RankValues DEF Reached
  <1>a. /\ Reached(v)' = 33
        /\ ver'[v].now = ver[v].now /\ ver'[v].held = ver[v].held /\ ver'[v].problems = {}
        /\ \A n : Stored(v, n)' = Stored(v, n) /\ Spent(v, n)' = Spent(v, n)
        /\ \A d : Has(d)' <=> Has(d)
        /\ \A t, c : Drops(t, c)' <=> Drops(t, c)
        /\ Compliant' <=> Compliant
    BY <1>0, <1>1, Onward
  <1>b. {"client", "code", "pending", "first", "second", "refresh", "atomic"} \subseteq Names
    BY DEF Names
  <1>2. ver[v].now \in Nat /\ Hour \in Nat /\ 0 < Hour
    BY <1>0, CallIs, TimeAssumption
  <1>3. \A name \in Names : Own(v, name)' = IF Own(v, name) # None /\ Lapsed(name, Own(v, name), ver[v].now)
                                            THEN None ELSE Own(v, name)
    BY <1>0, KeyIsOwn DEF Purged, Own
  <1>4. \A m \in {"code", "pending", "first", "second", "refresh"} : Own(v, m)' = None
    <2>1. \A m \in {"code", "pending", "first", "second", "refresh"} : Own(v, m) = None
      BY <1>1 DEF Expected, CodeRow, PendingRow, PairRows, RefreshRow
    <2>. QED BY <1>b, <1>3, <2>1
  <1>5. Own(v, "client")' = None <=> ~Has("purgeSkipsClients")
    <2>1. \/ Own(v, "client") = None /\ ~Has("purgeSkipsClients")
          \/ Own(v, "client") # None /\ Own(v, "client").ExpiresAt = ver[v].now - Hour
      BY <1>1 DEF Expected, ClientRow
    <2>2. Own(v, "client").ExpiresAt = ver[v].now - Hour =>
            (Lapsed("client", Own(v, "client"), ver[v].now) <=> ~Has("purgeSkipsClients"))
      BY <1>2, TableValues DEF Lapsed
    <2>. QED BY <1>b, <1>3, <2>1, <2>2
  <1>6. Compliant /\ ~store.insertOnly => Own(v, "atomic")' = None
    <2>. SUFFICES ASSUME Compliant, ~store.insertOnly PROVE Own(v, "atomic")' = None
      OBVIOUS
    <2>1. \/ Own(v, "atomic") = None
          \/ /\ Own(v, "atomic").ExpiresAt = ver[v].now - Hour
             /\ Own(v, "atomic").FamilyExpiresAt = ver[v].now - Hour
      BY <1>1 DEF Expected, AtomicRow
    <2>2. CASE Own(v, "atomic").ExpiresAt = ver[v].now - Hour /\ Own(v, "atomic").FamilyExpiresAt = ver[v].now - Hour
      <3>1. Lapsed("atomic", Own(v, "atomic"), ver[v].now)
        BY <1>2, <2>2, TableValues, Defect DEF Lapsed
      <3>. QED BY <1>b, <1>3, <3>1
    <2>. QED BY <1>b, <1>3, <2>1, <2>2
  <1>7. Cleared(v)'
    BY <1>1, <1>a DEF Expected, Cleared
  <1>8. ClientRow(v)' /\ CodeRow(v)' /\ PendingRow(v)' /\ PairRows(v)' /\ RefreshRow(v)' /\ AtomicRow(v)'
    BY <1>0, <1>a, <1>4, <1>5, <1>6 DEF ClientRow, CodeRow, PendingRow, PairRows, RefreshRow, AtomicRow
  <1>. QED BY <1>a, <1>7, <1>8 DEF Probes, Expected

LEMMA RevokeProbes ==
  ASSUME RowInv, NEW v \in Verifiers, Expected(v), ver[v].problems = {}, Revoke(v)
  PROVE  Probes(v)
  <1>0. /\ TypeInv /\ UNCHANGED <<clock, store, racer>> /\ {} \in SUBSET Complaints
        /\ GoesOn(v, {}) /\ rows' = Revoked(<<v, "refresh">>) /\ ver[v].pc = "revoke"
        /\ ver[v].pc \in Calls \ DOMAIN CleanPcs
    BY TokenCallsAre DEF RowInv, Revoke, At
  <1>1. Reached(v) = 22
    BY <1>0, RankValues DEF Reached
  <1>a. /\ Reached(v)' = 23
        /\ ver'[v].now = ver[v].now /\ ver'[v].held = ver[v].held /\ ver'[v].problems = {}
        /\ \A n : Stored(v, n)' = Stored(v, n) /\ Spent(v, n)' = Spent(v, n)
        /\ \A d : Has(d)' <=> Has(d)
        /\ \A t, c : Drops(t, c)' <=> Drops(t, c)
        /\ Compliant' <=> Compliant
    BY <1>0, <1>1, Onward
  <1>b. {"client", "code", "pending", "first", "second", "refresh", "atomic"} \subseteq Names
    BY DEF Names
  <1>2. Own(v, "refresh") = Spent(v, "refresh") /\ \A c \in Probe("tokens") : ~Drops("tokens", c)
    BY <1>1 DEF Expected, RefreshRow, Cleared
  <1>3. "FamilyID" \in Spent(v, "refresh").text /\ Spent(v, "refresh") # None
    <2>1. "FamilyID" \in Columns["tokens"] /\ "FamilyID" \in Probe("tokens")
      BY DEF Columns, Probe
    <2>. QED BY <1>0, <1>b, <1>2, <2>1, StoredFields, TableValues
  <1>4. /\ Own(v, "refresh")' = IF Has("revokeNoop") THEN Spent(v, "refresh") ELSE None
        /\ \A m \in {"client", "code", "pending", "first", "second"} : Own(v, m)' = Own(v, m)
    BY <1>0, <1>b, <1>2, <1>3, RevokedRow
  <1>5. Cleared(v)'
    BY <1>1, <1>a DEF Expected, Cleared
  <1>6. ClientRow(v)' /\ CodeRow(v)' /\ PendingRow(v)' /\ PairRows(v)'
    BY <1>1, <1>a, <1>4 DEF Expected, ClientRow, CodeRow, PendingRow, PairRows
  <1>7. RefreshRow(v)' /\ AtomicRow(v)'
    BY <1>a, <1>4 DEF RefreshRow, AtomicRow
  <1>. QED BY <1>a, <1>5, <1>6, <1>7 DEF Probes, Expected

(* What a consume returns and leaves, for a Store that keeps what it is    *)
(* given, FamilyID included.                                               *)
LEMMA ConsumedIs ==
  ASSUME NEW row \in RowType, NEW at
  PROVE  /\ Has("filtersExpired") /\ row.ExpiresAt < clock => Consumed(row, at).got = None
         /\ Has("consumeDeletes") => Consumed(row, at).got = row /\ Consumed(row, at).left = None
         /\ Has("returnsAfter") \/ (Has("updateReturning") /\ row.ConsumedAt = Zero) =>
              Consumed(row, at).got = Stamped(row, at)
         /\ ~Has("filtersExpired") /\ ~Has("consumeDeletes") /\ ~Has("updateReturning") /\ ~Has("returnsAfter") =>
              Consumed(row, at).got = row /\ Consumed(row, at).left = Stamped(row, at)
  <1>1. row # None
    BY NoneAssumption
  <1>. QED BY <1>1, Defect DEF Consumed

(* The refresh canary alone is replaced.                                   *)
LEMMA RefreshReplaced ==
  ASSUME TypeInv, NEW v \in Verifiers, NEW row \in RowType \cup {None},
         rows' = [rows EXCEPT ![<<v, "refresh">>] = row]
  PROVE  /\ Own(v, "refresh")' = row
         /\ \A m \in {"client", "code", "pending", "first", "second"} : Own(v, m)' = Own(v, m)
  <1>1. "refresh" \in Names
    BY DEF Names
  <1>2. Own(v, "refresh")' = row /\ \A m \in Names \ {"refresh"} : Own(v, m)' = Own(v, m)
    BY <1>1, OneRow
  <1>. QED BY <1>2 DEF Names

LEMMA ConsumeProbes ==
  ASSUME RowInv, NEW v \in Verifiers, Expected(v), ver[v].problems = {}, Consume(v)
  PROVE  Probes(v)
  <1>. DEFINE row == Stored(v, "refresh")
              now == ver[v].now
  <1>b. {"client", "code", "pending", "first", "second", "refresh", "atomic"} \subseteq Names
    BY DEF Names
  <1>0. /\ TypeInv /\ UNCHANGED <<clock, store, racer>> /\ {} \in SUBSET Complaints
        /\ ver[v].pc = "consume" /\ ver[v].pc \in Calls \ DOMAIN CleanPcs
    BY TokenCallsAre DEF RowInv, Consume, At
  <1>1. Reached(v) = 18
    BY <1>0, RankValues DEF Reached
  <1>2. /\ Own(v, "refresh") = row /\ row \in RowType /\ row.ConsumedAt = Zero
        /\ \A c \in Probe("tokens") : ~Drops("tokens", c)
    BY <1>0, <1>1, <1>b, StoredFields DEF Expected, RefreshRow, Cleared
  <1>3. now \in Nat /\ now # Zero /\ row.ExpiresAt < clock /\ "FamilyID" \in row.text
    <2>1. now \in Nat /\ Hour < now /\ now <= clock /\ clock \in Nat /\ Minute \in Nat /\ Hour \in Nat /\ 0 < Minute
      BY <1>0, CallIs, TimeAssumption
    <2>2. "FamilyID" \in Columns["tokens"] /\ "FamilyID" \in Probe("tokens") /\ "ExpiresAt" \in Probe("tokens")
      BY DEF Columns, Probe
    <2>3. row.ExpiresAt = now - Minute /\ "FamilyID" \in row.text
      BY <1>0, <1>b, <1>2, <2>2, StoredFields, CanaryValues, TableValues
    <2>. QED BY <2>1, <2>3 DEF Zero
  <1>4. PICK c : c = Consumed(row, now)
    OBVIOUS
  <1>5. /\ IF c.got = None THEN Returns(v, "notFound")
           ELSE GoesOn(v, Unless(c.got.ConsumedAt = Zero, "returnedAfterStamp")
                            \cup Unless("FamilyID" \in c.got.text, "FamilyID"))
        /\ rows' = [rows EXCEPT ![<<v, "refresh">>] = c.left]
        /\ c.left \in RowType \cup {None}
    BY <1>2, <1>3, <1>4, ConsumedIsTyped DEF Consume, Own
  <1>6. /\ Own(v, "refresh")' = c.left
        /\ \A m \in {"client", "code", "pending", "first", "second"} : Own(v, m)' = Own(v, m)
    <2>1. PICK left \in RowType \cup {None} : left = c.left /\ rows' = [rows EXCEPT ![<<v, "refresh">>] = left]
      BY <1>5
    <2>. QED BY <1>0, <2>1, RefreshReplaced
  <1>7. CASE Has("filtersExpired")
    <2>1. Returns(v, "notFound")
      BY <1>2, <1>3, <1>4, <1>5, <1>7, ConsumedIs
    <2>2. ver'[v].problems # {}
      BY <1>0, <2>1, Returning, ComplaintsAre
    <2>. QED BY <1>7, <2>2, Defect DEF Probes
  <1>8. CASE Has("updateReturning") \/ Has("returnsAfter")
    <2>1. c.got = Stamped(row, now)
      BY <1>2, <1>4, <1>8, ConsumedIs
    <2>2. c.got.ConsumedAt = now /\ c.got # None
      BY <1>2, <1>3, <1>8, <2>1, StampedIsTyped, NoneAssumption, Defect DEF Stamped, RowType
    <2>3. PICK P \in SUBSET Complaints : GoesOn(v, P) /\ "returnedAfterStamp" \in P
      BY <1>3, <1>5, <2>2, ComplaintsAre DEF Unless
    <2>4. ver'[v].problems # {}
      BY <1>0, <2>3, Onward
    <2>. QED BY <1>8, <2>4, Defect DEF Probes
  <1>9. CASE ~Has("filtersExpired") /\ ~Has("updateReturning") /\ ~Has("returnsAfter")
    <2>1. /\ c.got = row
          /\ c.left = IF Has("consumeDeletes") THEN None ELSE Stamped(row, now)
      BY <1>2, <1>4, <1>9, ConsumedIs
    <2>2. GoesOn(v, {})
      <3>1. row # None
        BY <1>2, NoneAssumption
      <3>2. Unless(row.ConsumedAt = Zero, "returnedAfterStamp") \cup Unless("FamilyID" \in row.text, "FamilyID") = {}
        BY <1>2, <1>3 DEF Unless
      <3>. QED BY <1>5, <2>1, <3>1, <3>2
    <2>3. Stamped(row, now) = IF Drops("tokens", "ConsumedAt") THEN row ELSE Spent(v, "refresh")
      BY <1>2 DEF Stamped, Spent
    <2>a. /\ Reached(v)' = 19
          /\ ver'[v].now = ver[v].now /\ ver'[v].held = ver[v].held /\ ver'[v].problems = {}
          /\ \A n : Stored(v, n)' = Stored(v, n) /\ Spent(v, n)' = Spent(v, n)
          /\ \A d : Has(d)' <=> Has(d)
          /\ \A t, d : Drops(t, d)' <=> Drops(t, d)
          /\ Compliant' <=> Compliant
      BY <1>0, <1>1, <2>2, Onward
    <2>4. Cleared(v)'
      BY <1>1, <1>9, <2>a DEF Expected, Cleared
    <2>5. ClientRow(v)' /\ CodeRow(v)' /\ PendingRow(v)' /\ PairRows(v)'
      BY <1>1, <1>6, <2>a DEF Expected, ClientRow, CodeRow, PendingRow, PairRows
    <2>6. RefreshRow(v)' /\ AtomicRow(v)'
      BY <1>6, <2>1, <2>3, <2>a DEF RefreshRow, AtomicRow
    <2>. QED BY <2>a, <2>4, <2>5, <2>6 DEF Probes, Expected
  <1>. QED BY <1>7, <1>8, <1>9

LEMMA ReplayProbes ==
  ASSUME RowInv, NEW v \in Verifiers, Expected(v), ver[v].problems = {}, Replay(v)
  PROVE  Probes(v)
  <1>. DEFINE now == ver[v].now
  <1>b. {"client", "code", "pending", "first", "second", "refresh", "atomic"} \subseteq Names
    BY DEF Names
  <1>0. /\ TypeInv /\ UNCHANGED <<clock, store, racer>> /\ {} \in SUBSET Complaints
        /\ ver[v].pc = "replay" /\ ver[v].pc \in Calls \ DOMAIN CleanPcs
    BY TokenCallsAre DEF RowInv, Replay, At
  <1>1. Reached(v) = 19
    BY <1>0, RankValues DEF Reached
  <1>2. /\ Own(v, "refresh") = IF Has("consumeDeletes") THEN None
                               ELSE IF Drops("tokens", "ConsumedAt") THEN Stored(v, "refresh")
                               ELSE Spent(v, "refresh")
        /\ \A c \in Probe("tokens") : ~Drops("tokens", c)
        /\ ~Has("filtersExpired") /\ ~Has("updateReturning") /\ ~Has("returnsAfter")
    BY <1>1 DEF Expected, RefreshRow, Cleared
  <1>3. /\ now \in Nat /\ now # Zero /\ now + Hour \in Nat /\ "FamilyID" \in Stored(v, "refresh").text
        /\ Stored(v, "refresh") \in RowType /\ Spent(v, "refresh") \in RowType
        /\ Stored(v, "refresh") # None /\ Spent(v, "refresh") # None
        /\ Stored(v, "refresh").ConsumedAt = Zero
        /\ Spent(v, "refresh").text = Stored(v, "refresh").text /\ Spent(v, "refresh").ConsumedAt = now
    <2>1. now \in Nat /\ Hour < now /\ Hour \in Nat
      BY <1>0, CallIs, TimeAssumption
    <2>2. "FamilyID" \in Columns["tokens"] /\ "FamilyID" \in Probe("tokens")
      BY DEF Columns, Probe
    <2>. QED BY <1>0, <1>b, <1>2, <2>1, <2>2, StoredFields, TableValues DEF Zero
  <1>4. PICK row : row = Own(v, "refresh") /\ row \in RowType \cup {None}
    BY <1>0, <1>b, CallIs
  <1>c. PICK c : c = Consumed(row, now + Hour)
    OBVIOUS
  <1>d. PICK P : P = Unless(c.got.ConsumedAt = now, "ConsumedAt") \cup Unless("FamilyID" \in c.got.text, "FamilyID")
    OBVIOUS
  <1>5. /\ IF c.got = None THEN Returns(v, "deletedOnConsume")
           ELSE Become(v, [WentOn(v, P) EXCEPT !.second = c.got.ConsumedAt])
        /\ rows' = [rows EXCEPT ![<<v, "refresh">>] = c.left]
    BY <1>4, <1>c, <1>d DEF Replay, Own
  <1>6. /\ Own(v, "refresh")' = c.left
        /\ \A m \in {"client", "code", "pending", "first", "second"} : Own(v, m)' = Own(v, m)
    <2>1. PICK left \in RowType \cup {None} : left = c.left /\ rows' = [rows EXCEPT ![<<v, "refresh">>] = left]
      BY <1>3, <1>4, <1>c, <1>5, ConsumedIsTyped
    <2>. QED BY <1>0, <2>1, RefreshReplaced
  <1>7. CASE Has("consumeDeletes")
    <2>1. Returns(v, "deletedOnConsume")
      BY <1>2, <1>4, <1>c, <1>5, <1>7 DEF Consumed
    <2>2. ver'[v].problems # {}
      BY <1>0, <2>1, Returning, ComplaintsAre
    <2>. QED BY <1>7, <2>2, Defect DEF Probes
  <1>8. CASE ~Has("consumeDeletes")
    <2>1. row = (IF Drops("tokens", "ConsumedAt") THEN Stored(v, "refresh") ELSE Spent(v, "refresh"))
          /\ row \in RowType /\ row # None /\ "FamilyID" \in row.text
      BY <1>2, <1>3, <1>4, <1>8
    <2>2. c.got = row /\ c.left = Stamped(row, now + Hour)
      BY <1>2, <1>c, <1>8, <2>1, ConsumedIs
    <2>3. Become(v, [WentOn(v, P) EXCEPT !.second = row.ConsumedAt]) /\ P = Unless(row.ConsumedAt = now, "ConsumedAt")
      BY <1>5, <1>d, <2>1, <2>2 DEF Unless
    <2>4. P \in SUBSET Complaints /\ (P = {} <=> row.ConsumedAt = now)
      BY <2>3, ComplaintsAre DEF Unless
    <2>5. /\ ver'[v].pc = "replayAgain" /\ ver'[v].now = now /\ ver'[v].held = ver[v].held
          /\ ver'[v].second = row.ConsumedAt /\ ver'[v].problems = P
      <3>1. ver'[v] = [Moved(v, "replayAgain", P) EXCEPT !.second = row.ConsumedAt]
        BY <1>0, <2>3, AfterValues DEF Become, TypeInv, WentOn
      <3>2. TypeInv /\ ver[v] \in Local /\ DOMAIN ver[v] = {"pc", "now", "problems", "second", "held", "faulted"}
        BY <1>0 DEF TypeInv, Local
      <3>3. /\ ver'[v].pc = "replayAgain" /\ ver'[v].now = now /\ ver'[v].held = ver[v].held
            /\ ver'[v].second = row.ConsumedAt
        BY <3>1, <3>2 DEF Moved, Local
      <3>4. ver'[v].problems = P
        BY <3>1, <3>2 DEF Moved, Local
      <3>. QED BY <3>3, <3>4
    <2>6. CASE Drops("tokens", "ConsumedAt")
      <3>1. P # {}
        BY <1>3, <2>1, <2>4, <2>6
      <3>. QED BY <2>5, <2>6, <3>1, Defect DEF Probes
    <2>7. CASE ~Drops("tokens", "ConsumedAt")
      <3>1. row = Spent(v, "refresh") /\ P = {} /\ ver'[v].second = ver'[v].now
        BY <1>3, <2>1, <2>4, <2>5, <2>7
      <3>2. c.left = IF Has("restamps") THEN [Spent(v, "refresh") EXCEPT !.ConsumedAt = now + Hour]
                     ELSE Spent(v, "refresh")
        BY <1>3, <2>2, <2>7, <3>1 DEF Stamped
      <3>3. Reached(v)' = 20
        BY <2>5, RankValues DEF Reached
      <3>a. /\ \A n : Stored(v, n)' = Stored(v, n) /\ Spent(v, n)' = Spent(v, n)
            /\ \A d : Has(d)' <=> Has(d)
            /\ \A t, d : Drops(t, d)' <=> Drops(t, d)
            /\ Compliant' <=> Compliant
        BY <1>0, <2>5, SameTerms
      <3>4. Cleared(v)'
        BY <1>1, <1>8, <2>7, <3>3, <3>a DEF Expected, Cleared
      <3>5. ClientRow(v)' /\ CodeRow(v)' /\ PendingRow(v)' /\ PairRows(v)'
        BY <1>1, <1>6, <3>3, <3>a DEF Expected, ClientRow, CodeRow, PendingRow, PairRows
      <3>6. RefreshRow(v)' /\ AtomicRow(v)'
        BY <1>6, <2>5, <3>1, <3>2, <3>3, <3>a DEF RefreshRow, AtomicRow
      <3>. QED BY <2>5, <3>1, <3>4, <3>5, <3>6 DEF Probes, Expected
    <2>. QED BY <2>6, <2>7
  <1>. QED BY <1>7, <1>8

LEMMA ReplayAgainProbes ==
  ASSUME RowInv, NEW v \in Verifiers, Expected(v), ver[v].problems = {}, ReplayAgain(v)
  PROVE  Probes(v)
  <1>. DEFINE now == ver[v].now
  <1>b. {"client", "code", "pending", "first", "second", "refresh", "atomic"} \subseteq Names
    BY DEF Names
  <1>0. /\ TypeInv /\ UNCHANGED <<clock, store, racer>> /\ {} \in SUBSET Complaints
        /\ ver[v].pc = "replayAgain" /\ ver[v].pc \in Calls \ DOMAIN CleanPcs
    BY TokenCallsAre DEF RowInv, ReplayAgain, At
  <1>1. Reached(v) = 20
    BY <1>0, RankValues DEF Reached
  <1>2. /\ ver[v].second = now
        /\ Own(v, "refresh") = IF Has("restamps") THEN [Spent(v, "refresh") EXCEPT !.ConsumedAt = now + Hour]
                               ELSE Spent(v, "refresh")
        /\ ~Has("filtersExpired") /\ ~Has("updateReturning") /\ ~Has("returnsAfter")
        /\ ~Has("consumeDeletes") /\ ~Drops("tokens", "ConsumedAt")
    BY <1>1 DEF Expected, RefreshRow, Cleared
  <1>3. /\ now \in Nat /\ now # Zero /\ now + Hour \in Nat /\ now + Hour # now /\ now + 2 * Hour \in Nat
        /\ Spent(v, "refresh") \in RowType /\ Spent(v, "refresh").ConsumedAt = now
    <2>1. now \in Nat /\ Hour < now /\ Hour \in Nat /\ Hour # 0
      BY <1>0, CallIs, TimeAssumption
    <2>. QED BY <1>0, <1>b, <2>1, StoredFields DEF Zero
  <1>4. PICK row : /\ row = Own(v, "refresh") /\ row \in RowType
                   /\ row.ConsumedAt = now <=> ~Has("restamps")
                   /\ ~Has("restamps") => row = Spent(v, "refresh")
    BY <1>2, <1>3 DEF RowType
  <1>c. PICK c : c = Consumed(row, now + 2 * Hour)
    OBVIOUS
  <1>5. c.got = row /\ c.left = Stamped(row, now + 2 * Hour) /\ row # None
    BY <1>2, <1>4, <1>c, ConsumedIs, NoneAssumption
  <1>6. /\ GoesOn(v, Unless(c.got.ConsumedAt = ver[v].second /\ c.got.ConsumedAt = ver[v].now, "restamped"))
        /\ rows' = [rows EXCEPT ![<<v, "refresh">>] = c.left]
    BY <1>4, <1>5, <1>c DEF ReplayAgain, Own
  <1>7. CASE Has("restamps")
    <2>1. GoesOn(v, {"restamped"})
      BY <1>4, <1>5, <1>6, <1>7 DEF Unless
    <2>2. ver'[v].problems # {}
      BY <1>0, <2>1, Onward, ComplaintsAre
    <2>. QED BY <1>7, <2>2, Defect DEF Probes
  <1>8. CASE ~Has("restamps")
    <2>1. GoesOn(v, {})
      BY <1>2, <1>4, <1>5, <1>6, <1>8 DEF Unless
    <2>2. Stamped(row, now + 2 * Hour) = row
      BY <1>3, <1>4, <1>8 DEF Stamped
    <2>3. rows' = [rows EXCEPT ![<<v, "refresh">>] = row]
      BY <1>5, <1>6, <2>2
    <2>4. /\ Own(v, "refresh")' = Spent(v, "refresh")
          /\ \A m \in {"client", "code", "pending", "first", "second"} : Own(v, m)' = Own(v, m)
      BY <1>0, <1>4, <1>8, <2>3, RefreshReplaced
    <2>a. /\ Reached(v)' = 21
          /\ ver'[v].now = ver[v].now /\ ver'[v].held = ver[v].held /\ ver'[v].problems = {}
          /\ \A n : Stored(v, n)' = Stored(v, n) /\ Spent(v, n)' = Spent(v, n)
          /\ \A d : Has(d)' <=> Has(d)
          /\ \A t, d : Drops(t, d)' <=> Drops(t, d)
          /\ Compliant' <=> Compliant
      BY <1>0, <1>1, <2>1, Onward
    <2>5. Cleared(v)'
      BY <1>1, <1>8, <2>a DEF Expected, Cleared
    <2>6. ClientRow(v)' /\ CodeRow(v)' /\ PendingRow(v)' /\ PairRows(v)'
      BY <1>1, <2>4, <2>a DEF Expected, ClientRow, CodeRow, PendingRow, PairRows
    <2>7. RefreshRow(v)' /\ AtomicRow(v)'
      BY <2>4, <2>a DEF RefreshRow, AtomicRow
    <2>. QED BY <2>a, <2>5, <2>6, <2>7 DEF Probes, Expected
  <1>. QED BY <1>7, <1>8

(* One goroutine's call, on a Store that is compliant.                     *)
LEMMA RaceProbes ==
  ASSUME RowInv, NEW v \in Verifiers, Expected(v), ver[v].problems = {}, NEW r \in Racers,
         RaceConsume(v, r) \/ RaceUpdate(v, r)
  PROVE  Probes(v)
  <1>b. {"client", "code", "pending", "first", "second", "refresh", "atomic"} \subseteq Names
    BY DEF Names
  <1>0. /\ TypeInv /\ UNCHANGED <<clock, store, ver>>
        /\ ver[v].pc = "race" /\ ver[v].pc \in Calls
    BY TokenCallsAre DEF RowInv, RaceConsume, RaceUpdate, At
  <1>1. Reached(v) = 25 /\ Reached(v)' = 25
    BY <1>0, RankValues DEF Reached
  <1>a. /\ \A n : Stored(v, n)' = Stored(v, n) /\ Spent(v, n)' = Spent(v, n)
        /\ \A d : Has(d)' <=> Has(d)
        /\ \A t, c : Drops(t, c)' <=> Drops(t, c)
        /\ Compliant' <=> Compliant
    BY <1>0, SameTerms
  <1>2. \A m \in {"client", "code", "pending", "first", "second", "refresh"} : Own(v, m)' = Own(v, m)
    <2>1. PICK x : rows' = rows \/ rows' = [rows EXCEPT ![<<v, "atomic">>] = x]
      BY DEF RaceConsume, RaceUpdate
    <2>2. \A m \in Names : <<v, m>> \in Keys
      BY KeyIsOwn
    <2>. QED BY <1>0, <1>b, <2>1, <2>2 DEF Own, TypeInv
  <1>3. ASSUME Compliant PROVE RaceOK(v)'
    <2>0. /\ ~Has("selectThenUpdate") /\ ~Has("filtersExpired") /\ ~Has("consumeDeletes") /\ ~Has("updateReturning")
          /\ ~Has("returnsAfter") /\ ~Has("restamps") /\ ~Drops("tokens", "ConsumedAt")
      BY <1>3, Defect
    <2>1. RaceOK(v)
      BY <1>1, <1>3 DEF Expected, AtomicRow
    <2>2. /\ Stored(v, "atomic") \in RowType /\ Spent(v, "atomic") \in RowType
          /\ Stored(v, "atomic") # None /\ Spent(v, "atomic") # None
          /\ Stored(v, "atomic").ConsumedAt = Zero /\ Spent(v, "atomic").ConsumedAt # Zero
          /\ ver[v].now \in Nat
      BY <1>0, <1>b, StoredFields, CallIs, TimeAssumption DEF Zero
    <2>3. racer[v][r] # "selected"
      BY <2>1 DEF RaceOK
    <2>4. RaceConsume(v, r) /\ racer[v][r] = "wait"
      BY <2>3 DEF RaceConsume, RaceUpdate
    <2>5. PICK row \in RowType : row = Own(v, "atomic")
      BY <2>1, <2>2 DEF RaceOK
    <2>6. PICK c : c = Consumed(row, ver[v].now)
      OBVIOUS
    <2>7. c.got = row /\ c.left = Stamped(row, ver[v].now) /\ row # None
      BY <2>0, <2>6, ConsumedIs, NoneAssumption
    <2>8. PICK o : o = Outcome(row) /\ racer' = [racer EXCEPT ![v][r] = o]
                   /\ rows' = [rows EXCEPT ![<<v, "atomic">>] = Stamped(row, ver[v].now)]
      BY <2>0, <2>4, <2>5, <2>6, <2>7 DEF RaceConsume, Own
    <2>9. PICK left \in RowType \cup {None} : left = Stamped(row, ver[v].now)
      BY <2>2, StampedIsTyped
    <2>10. Own(v, "atomic")' = left
      BY <1>0, <1>b, <2>8, <2>9, OneRow
    <2>11. racer'[v][r] = o /\ \A s \in Racers \ {r} : racer'[v][s] = racer[v][s]
      BY <1>0, <2>8 DEF TypeInv
    <2>12. CASE Own(v, "atomic") = Stored(v, "atomic") /\ \A s \in Racers : racer[v][s] = "wait"
      <3>1. left = Spent(v, "atomic") /\ o = "zero"
        BY <2>0, <2>2, <2>5, <2>7, <2>8, <2>9, <2>12 DEF Stamped, Spent, Outcome
      <3>. QED BY <1>a, <2>10, <2>11, <2>12, <3>1 DEF RaceOK
    <2>13. ASSUME Own(v, "atomic") = Spent(v, "atomic"), NEW z \in Racers, racer[v][z] = "zero",
                  \A s \in Racers \ {z} : racer[v][s] \in {"wait", "stamped"}
           PROVE  RaceOK(v)'
      <3>1. left = Spent(v, "atomic") /\ o = "stamped"
        BY <2>0, <2>2, <2>5, <2>7, <2>8, <2>9, <2>13 DEF Stamped, Outcome
      <3>2. r # z
        BY <2>4, <2>13
      <3>3. racer'[v][z] = "zero" /\ \A s \in Racers \ {z} : racer'[v][s] \in {"wait", "stamped"}
        BY <2>11, <2>13, <3>1, <3>2
      <3>. QED BY <1>a, <2>10, <3>1, <3>3 DEF RaceOK
    <2>. QED BY <2>1, <2>12, <2>13 DEF RaceOK
  <1>4. Cleared(v)'
    BY <1>1, <1>a DEF Expected, Cleared
  <1>5. ClientRow(v)' /\ CodeRow(v)' /\ PendingRow(v)' /\ PairRows(v)'
    BY <1>1, <1>2, <1>a DEF Expected, ClientRow, CodeRow, PendingRow, PairRows
  <1>6. RefreshRow(v)'
    BY <1>1, <1>2, <1>a DEF Expected, RefreshRow
  <1>7. AtomicRow(v)'
    BY <1>1, <1>3, <1>a DEF AtomicRow
  <1>. QED BY <1>0, <1>4, <1>5, <1>6, <1>7 DEF Probes, Expected

LEMMA TallyProbes ==
  ASSUME RowInv, NEW v \in Verifiers, Expected(v), ver[v].problems = {}, Tally(v)
  PROVE  Probes(v)
  <1>0. /\ TypeInv /\ UNCHANGED <<clock, rows, store, racer>>
        /\ ver[v].pc = "race" /\ ver[v].pc \in Calls \ DOMAIN CleanPcs
    BY TokenCallsAre DEF RowInv, Tally, At
  <1>1. Reached(v) = 25
    BY <1>0, RankValues DEF Reached
  <1>2. PICK P \in SUBSET Complaints :
          /\ GoesOn(v, P)
          /\ P = IF {racer[v][r] : r \in Racers} \cap {"error", "missing"} # {} THEN {"raceFailed"}
                 ELSE Unless(Cardinality({r \in Racers : racer[v][r] = "zero"}) = 1, "notAtomic")
    BY ComplaintsAre DEF Tally, Unless
  <1>a. /\ Reached(v)' = 26
        /\ ver'[v].now = ver[v].now /\ ver'[v].held = ver[v].held /\ ver'[v].problems = P
        /\ \A n : Stored(v, n)' = Stored(v, n) /\ Spent(v, n)' = Spent(v, n)
        /\ \A d : Has(d)' <=> Has(d)
        /\ \A t, c : Drops(t, c)' <=> Drops(t, c)
        /\ Compliant' <=> Compliant
    <2>2. GoesOn(v, P) /\ TypeInv /\ clock' = clock /\ store' = store /\ ver[v].pc \in Calls \ DOMAIN CleanPcs
      BY <1>0, <1>2
    <2>3. ver'[v].problems = P
      BY <2>2 DEF GoesOn, WentOn, Moved, Become, TypeInv, Local
    <2>4. /\ Reached(v)' = 26
          /\ ver'[v].now = ver[v].now /\ ver'[v].held = ver[v].held
      BY <1>1, <2>2, Onward
    <2>. QED BY <2>2, <2>3, <2>4, SameTerms
  <1>3. Compliant => P = {}
    <2>. SUFFICES ASSUME Compliant PROVE P = {}
      OBVIOUS
    <2>1. RaceOK(v)
      BY <1>1 DEF Expected, AtomicRow
    <2>2. \A r \in Racers : racer[v][r] \notin {"wait", "selected"}
      BY DEF Tally
    <2>3. PICK z \in Racers : racer[v][z] = "zero" /\ \A r \in Racers \ {z} : racer[v][r] = "stamped"
      BY <2>1, <2>2, RacersAssumption DEF RaceOK
    <2>4. {r \in Racers : racer[v][r] = "zero"} = {z}
      BY <2>3
    <2>5. Cardinality({z}) = 1
      BY FS_Singleton
    <2>6. {racer[v][r] : r \in Racers} \cap {"error", "missing"} = {}
      BY <2>3
    <2>. QED BY <1>2, <2>4, <2>5, <2>6 DEF Unless
  <1>4. \A m \in {"client", "code", "pending", "first", "second", "refresh", "atomic"} : Own(v, m)' = Own(v, m)
    BY <1>0 DEF Own
  <1>5. Cleared(v)'
    BY <1>1, <1>a DEF Expected, Cleared
  <1>6. ClientRow(v)' /\ CodeRow(v)' /\ PendingRow(v)' /\ PairRows(v)'
    BY <1>1, <1>4, <1>a DEF Expected, ClientRow, CodeRow, PendingRow, PairRows
  <1>7. RefreshRow(v)' /\ AtomicRow(v)'
    BY <1>1, <1>4, <1>a DEF Expected, RefreshRow, AtomicRow
  <1>. QED BY <1>3, <1>a, <1>5, <1>6, <1>7 DEF Probes, Expected

LEMMA CleanReadProbes ==
  ASSUME RowInv, NEW v \in Verifiers, Expected(v), ver[v].problems = {}, CleanRead(v)
  PROVE  Probes(v)
  <1>b. {"client", "code", "pending", "first", "second", "refresh", "atomic"} \subseteq Names
    BY DEF Names
  <1>0. /\ TypeInv /\ UNCHANGED <<clock, rows, store, racer>> /\ ver[v] \in Local
        /\ ver[v].pc \in {"readClient", "readRefresh", "readAtomic"} /\ ver[v].pc \in Calls
    BY PcValues, DomainValues DEF RowInv, CleanRead, TypeInv
  <1>c. PICK name \in Names : name = CleanPcs[ver[v].pc]
    BY PcValues DEF CleanRead
  <1>1. PICK got : /\ name = CleanPcs[ver[v].pc]
                   /\ got = IF name = "client" THEN Own(v, name) ELSE GetToken(<<v, name>>)
    BY <1>c
  <1>2. /\ got = None => ver'[v] = Moved(v, After[After[ver[v].pc]], {})
        /\ got # None => ver'[v] = [Moved(v, After[ver[v].pc], {}) EXCEPT !.held = got]
    BY <1>0, <1>1 DEF CleanRead, Become, WentOn, TypeInv, Own
  <1>3. ver'[v].now = ver[v].now /\ ver'[v].problems = {}
    <2>1. CASE ver'[v] = Moved(v, After[After[ver[v].pc]], {})
      BY <1>0, <2>1 DEF Moved, Local
    <2>2. CASE ver'[v] = [Moved(v, After[ver[v].pc], {}) EXCEPT !.held = got]
      BY <1>0, <2>2 DEF Moved, Local
    <2>. QED BY <1>2, <2>1, <2>2
  <1>4. /\ got = None => ver'[v].pc = After[After[ver[v].pc]]
        /\ got # None => ver'[v].pc = After[ver[v].pc] /\ ver'[v].held = got
    BY <1>0, <1>2 DEF Moved, Local
  <1>a. /\ \A n : Stored(v, n)' = Stored(v, n) /\ Spent(v, n)' = Spent(v, n)
        /\ \A d : Has(d)' <=> Has(d)
        /\ \A t, c : Drops(t, c)' <=> Drops(t, c)
        /\ Compliant' <=> Compliant
    BY <1>0, <1>3, SameTerms
  <1>5. \A m \in {"client", "code", "pending", "first", "second", "refresh", "atomic"} : Own(v, m)' = Own(v, m)
    BY <1>0 DEF Own
  <1>6. CASE ver[v].pc = "readClient"
    <2>1. Reached(v) = 26 /\ name = "client" /\ got = Own(v, "client")
      BY <1>1, <1>6, RankValues DEF Reached, CleanPcs
    <2>2. got = Stored(v, "client") /\ got # None
      BY <1>0, <1>b, <2>1, StoredFields DEF Expected, ClientRow
    <2>3. Reached(v)' = 27 /\ ver'[v].held = Stored(v, "client")
      BY <1>4, <1>6, <2>2, AfterValues, RankValues DEF Reached
    <2>4. Cleared(v)'
      BY <1>a, <2>1, <2>3 DEF Expected, Cleared
    <2>5. ClientRow(v)' /\ CodeRow(v)' /\ PendingRow(v)' /\ PairRows(v)'
      BY <1>5, <1>a, <2>1, <2>3 DEF Expected, ClientRow, CodeRow, PendingRow, PairRows
    <2>6. RefreshRow(v)' /\ AtomicRow(v)'
      BY <1>5, <1>a, <2>1, <2>3 DEF Expected, RefreshRow, AtomicRow
    <2>. QED BY <1>3, <2>4, <2>5, <2>6 DEF Probes, Expected
  <1>7. CASE ver[v].pc = "readRefresh"
    <2>1. Reached(v) = 28 /\ name = "refresh" /\ got = GetToken(<<v, "refresh">>)
      BY <1>1, <1>7, RankValues DEF Reached, CleanPcs
    <2>2. got = None
      BY <2>1 DEF Expected, RefreshRow, GetToken, Own
    <2>3. Reached(v)' = 30
      BY <1>4, <1>7, <2>2, AfterValues, RankValues DEF Reached
    <2>4. Cleared(v)'
      BY <1>a, <2>1, <2>3 DEF Expected, Cleared
    <2>5. ClientRow(v)' /\ CodeRow(v)' /\ PendingRow(v)' /\ PairRows(v)'
      BY <1>3, <1>5, <1>a, <2>1, <2>3 DEF Expected, ClientRow, CodeRow, PendingRow, PairRows
    <2>6. RefreshRow(v)' /\ AtomicRow(v)'
      BY <1>5, <1>a, <2>1, <2>3 DEF Expected, RefreshRow, AtomicRow
    <2>. QED BY <1>3, <2>4, <2>5, <2>6 DEF Probes, Expected
  <1>8. CASE ver[v].pc = "readAtomic"
    <2>1. Reached(v) = 30 /\ name = "atomic" /\ got = GetToken(<<v, "atomic">>)
      BY <1>1, <1>8, RankValues DEF Reached, CleanPcs
    <2>2. Compliant => got = Own(v, "atomic")
      BY <2>1, Defect DEF GetToken, Own
    <2>3. Reached(v)' = IF got = None THEN 32 ELSE 31
      BY <1>4, <1>8, AfterValues, RankValues DEF Reached
    <2>4. Cleared(v)'
      BY <1>a, <2>1, <2>3 DEF Expected, Cleared
    <2>5. ClientRow(v)' /\ CodeRow(v)' /\ PendingRow(v)' /\ PairRows(v)'
      BY <1>3, <1>5, <1>a, <2>1, <2>3 DEF Expected, ClientRow, CodeRow, PendingRow, PairRows
    <2>6. RefreshRow(v)' /\ AtomicRow(v)'
      BY <1>5, <1>a, <2>1, <2>2, <2>3 DEF Expected, RefreshRow, AtomicRow
    <2>. QED BY <1>3, <2>4, <2>5, <2>6 DEF Probes, Expected
  <1>. QED BY <1>0, <1>6, <1>7, <1>8

LEMMA CleanExpireProbes ==
  ASSUME RowInv, NEW v \in Verifiers, Expected(v), ver[v].problems = {}, CleanExpire(v)
  PROVE  Probes(v)
  <1>b. {"client", "code", "pending", "first", "second", "refresh", "atomic"} \subseteq Names
    BY DEF Names
  <1>0. /\ TypeInv /\ UNCHANGED <<clock, store, racer>> /\ {} \in SUBSET Complaints
        /\ ver[v].pc \in {"expireClient", "expireRefresh", "expireAtomic"} /\ ver[v].pc \in Calls \ DOMAIN CleanPcs
    BY PcValues, DomainValues DEF RowInv, CleanExpire
  <1>1. ver[v].pc # "expireRefresh"
    BY RankValues DEF Expected, RefreshRow, Reached
  <1>2. PICK held \in RowType : held = ver[v].held
    BY <1>0, DomainValues DEF TypeInv, LocalOK, Local
  <1>a. GoesOn(v, {}) =>
          /\ Reached(v)' = Reached(v) + 1
          /\ ver'[v].now = ver[v].now /\ ver'[v].held = ver[v].held /\ ver'[v].problems = {}
          /\ \A n : Stored(v, n)' = Stored(v, n) /\ Spent(v, n)' = Spent(v, n)
          /\ \A d : Has(d)' <=> Has(d)
          /\ \A t, c : Drops(t, c)' <=> Drops(t, c)
          /\ Compliant' <=> Compliant
    BY <1>0, Onward
  <1>3. /\ ver[v].now \in Nat /\ Hour < ver[v].now /\ Hour \in Nat
    BY <1>0, CallIs, TimeAssumption
  <1>4. CASE ver[v].pc = "expireClient"
    <2>1. Reached(v) = 27
      BY <1>4, RankValues DEF Reached
    <2>2. /\ Own(v, "client") = Stored(v, "client") /\ Own(v, "client") # None
          /\ ~Drops("clients", "ExpiresAt")
      BY <1>0, <1>b, <2>1, StoredFields DEF Expected, ClientRow, Cleared, Probe
    <2>3. Refuses(<<v, "client">>) <=> Has("clientInserts")
      BY <2>2, TableValues DEF Refuses, Own
    <2>4. CASE Has("clientInserts")
      <3>1. ver'[v] = OnError(v)
        BY <1>0, <1>4, <2>3, <2>4 DEF CleanExpire, ExpirePcs, Become, TypeInv
      <3>2. ver'[v].problems # {}
        BY <1>0, <1>4, <3>1, OnErrorIsLocal
      <3>. QED BY <2>4, <3>2, Defect DEF Probes
    <2>5. CASE ~Has("clientInserts")
      <3>1. GoesOn(v, {}) /\ rows' = Saved(<<v, "client">>, Expired(v, "client", held))
        BY <1>2, <1>4, <2>3, <2>5 DEF CleanExpire, ExpirePcs
      <3>2. PICK row \in RowType : row = Expired(v, "client", held) /\ row.ExpiresAt = ver[v].now - Hour
        BY <1>0, <1>b, <1>2, <1>3, ExpiredIsTyped
      <3>3. /\ Own(v, "client")' = Written("client", row)
            /\ \A m \in {"code", "pending", "first", "second", "refresh"} : Own(v, m)' = Own(v, m)
        <4>1. /\ Own(v, "client")' = Written("client", row)
              /\ \A m \in Names \ {"client"} :
                   Own(v, m)' = IF Has("pendingByClient") /\ {m, "client"} = {"first", "second"}
                                THEN None ELSE Own(v, m)
          BY <1>0, <1>b, <3>1, <3>2, SavedRow
        <4>2. \A m : {m, "client"} # {"first", "second"}
          OBVIOUS
        <4>. QED BY <1>b, <4>1, <4>2
      <3>4. Own(v, "client")' # None /\ Own(v, "client")'.ExpiresAt = ver[v].now - Hour
        BY <2>2, <3>2, <3>3, WrittenIsTyped, NoneAssumption, TableValues DEF Written
      <3>5. Reached(v)' = 28
        BY <1>a, <2>1, <3>1
      <3>6. Cleared(v)'
        BY <1>a, <2>1, <2>5, <3>1, <3>5 DEF Expected, Cleared
      <3>7. ClientRow(v)' /\ CodeRow(v)' /\ PendingRow(v)' /\ PairRows(v)'
        BY <1>a, <2>1, <3>1, <3>3, <3>4, <3>5 DEF Expected, ClientRow, CodeRow, PendingRow, PairRows
      <3>8. RefreshRow(v)' /\ AtomicRow(v)'
        BY <1>a, <2>1, <3>1, <3>3, <3>5 DEF Expected, RefreshRow, AtomicRow
      <3>. QED BY <1>a, <3>1, <3>6, <3>7, <3>8 DEF Probes, Expected
    <2>. QED BY <2>4, <2>5
  <1>5. CASE ver[v].pc = "expireAtomic"
    <2>1. Reached(v) = 31
      BY <1>5, RankValues DEF Reached
    <2>2. GoesOn(v, {})
      <3>1. OnError(v) = WentOn(v, {})
        BY <1>0, <1>5, OnErrorIsLocal
      <3>. QED BY <3>1 DEF CleanExpire, GoesOn
    <2>3. /\ \A m \in {"client", "code", "pending", "first", "second", "refresh"} : Own(v, m)' = Own(v, m)
          /\ Compliant /\ ~store.insertOnly =>
               Own(v, "atomic")'.ExpiresAt = ver[v].now - Hour /\ Own(v, "atomic")'.FamilyExpiresAt = ver[v].now - Hour
      <3>1. CASE Refuses(<<v, "atomic">>)
        <4>1. UNCHANGED rows
          BY <1>5, <3>1 DEF CleanExpire, ExpirePcs
        <4>2. ~(Compliant /\ ~store.insertOnly)
          BY <3>1, TableValues, Defect DEF Refuses
        <4>. QED BY <4>1, <4>2 DEF Own
      <3>2. CASE ~Refuses(<<v, "atomic">>)
        <4>1. rows' = Saved(<<v, "atomic">>, Expired(v, "atomic", held))
          BY <1>2, <1>5, <3>2 DEF CleanExpire, ExpirePcs
        <4>2. PICK row \in RowType : /\ row = Expired(v, "atomic", held) /\ row.ExpiresAt = ver[v].now - Hour
                                     /\ row.FamilyExpiresAt = ver[v].now - Hour
          BY <1>0, <1>b, <1>2, <1>3, ExpiredIsTyped, TableValues
        <4>3. /\ Own(v, "atomic")' = Written("atomic", row)
              /\ \A m \in Names \ {"atomic"} :
                   Own(v, m)' = IF Has("pendingByClient") /\ {m, "atomic"} = {"first", "second"}
                                THEN None ELSE Own(v, m)
          BY <1>0, <1>b, <4>1, <4>2, SavedRow
        <4>4. \A m : {m, "atomic"} # {"first", "second"}
          OBVIOUS
        <4>5. Compliant => Written("atomic", row).ExpiresAt = row.ExpiresAt
                           /\ Written("atomic", row).FamilyExpiresAt = row.FamilyExpiresAt
          BY Defect DEF Written
        <4>. QED BY <1>b, <4>2, <4>3, <4>4, <4>5
      <3>. QED BY <3>1, <3>2
    <2>4. Reached(v)' = 32
      BY <1>a, <2>1, <2>2
    <2>5. Cleared(v)'
      BY <1>a, <2>1, <2>2, <2>4 DEF Expected, Cleared
    <2>6. ClientRow(v)' /\ CodeRow(v)' /\ PendingRow(v)' /\ PairRows(v)'
      BY <1>a, <2>1, <2>2, <2>3, <2>4 DEF Expected, ClientRow, CodeRow, PendingRow, PairRows
    <2>7. RefreshRow(v)'
      BY <1>a, <2>1, <2>2, <2>3, <2>4 DEF Expected, RefreshRow
    <2>8. AtomicRow(v)'
      BY <1>0, <1>a, <2>2, <2>3, <2>4 DEF AtomicRow
    <2>. QED BY <1>a, <2>2, <2>5, <2>6, <2>7, <2>8 DEF Probes, Expected
  <1>. QED BY <1>0, <1>1, <1>4, <1>5

LEMMA StepProbes ==
  ASSUME RowInv, NEW v \in Verifiers, Expected(v), ver[v].problems = {}, Step(v)
  PROVE  Probes(v)
  BY SaveProbes, ReadBackProbes, TakeProbes, RetakeProbes, LookProbes, PurgeEarlyProbes, ConsumeProbes,
     ReplayProbes, ReplayAgainProbes, RevokeProbes, RaceProbes, TallyProbes, CleanReadProbes,
     CleanExpireProbes, FinalPurgeProbes DEF Step

(* Nothing is expected before the first call and of a dead process.        *)
LEMMA NothingExpected ==
  ASSUME NEW v, Reached(v) \in {0, 1}
  PROVE  Expected(v)
  BY DEF Expected, Cleared, ClientRow, CodeRow, PendingRow, PairRows, RefreshRow, AtomicRow

(* What is reported and what has failed stays so.                          *)
LEMMA StepRemembers ==
  ASSUME TypeInv, NEW v \in Verifiers, Step(v)
  PROVE  /\ Faulted(v) => Faulted(v)'
         /\ ver[v].problems \subseteq ver'[v].problems
  <1>1. CASE Moves(v)
    <2>1. (ver[v].faulted => ver'[v].faulted) /\ racer' = racer /\ ver[v].problems \subseteq ver'[v].problems
      BY <1>1 DEF Moves, Forward
    <2>. QED BY <2>1 DEF Faulted
  <1>2. CASE Races(v)
    BY <1>2 DEF Races, Faulted
  <1>. QED BY <1>1, <1>2, StepMoves

LEMMA FaultsRemain ==
  ASSUME TypeInv, NEW v \in Verifiers, StoreFault(v) \/ \E r \in Racers : RaceFault(v, r)
  PROVE  Faulted(v)'
  <1>1. CASE StoreFault(v)
    <2>1. ver'[v] = [OnError(v) EXCEPT !.faulted = TRUE] /\ ver[v].pc \in Calls
      BY <1>1 DEF StoreFault, Become, TypeInv, Active, Local, Pcs
    <2>2. ver'[v].faulted
      BY <2>1, OnErrorIsLocal DEF Local
    <2>. QED BY <2>2 DEF Faulted
  <1>2. ASSUME NEW r \in Racers, RaceFault(v, r) PROVE Faulted(v)'
    <2>1. racer'[v][r] = "error"
      BY <1>2 DEF RaceFault, TypeInv
    <2>. QED BY <2>1 DEF Faulted
  <1>. QED BY <1>1, <1>2

LEMMA InitProbeInv == Init => ProbeInv
  <1>. SUFFICES ASSUME Init PROVE ProbeInv
    OBVIOUS
  <1>1. \A v \in Verifiers : ver[v].problems = {} /\ Reached(v) = 0
    BY RankValues DEF Init, Idle, Reached
  <1>. QED BY <1>1, InitRowInv, NothingExpected DEF ProbeInv, CompliantNeverReported

LEMMA NextProbeInv == ProbeInv /\ [Next]_vars => ProbeInv'
  <1>. SUFFICES ASSUME ProbeInv, [Next]_vars PROVE ProbeInv'
    OBVIOUS
  <1>0. RowInv /\ RowInv' /\ TypeInv /\ TypeInv'
    BY NextRowInv DEF ProbeInv, RowInv
  <1>a. store' = store
    BY <1>0, NextActs DEF Acts, Ticker, Tick, vars
  <1>b. Compliant' <=> Compliant
    BY <1>a DEF Compliant, Has
  <1>1. ASSUME NEW v \in Verifiers, ~Faulted(v)'
        PROVE  /\ ver'[v].problems = {} => Expected(v)'
               /\ Compliant' => ver'[v].problems = {}
    <2>0. /\ ~Faulted(v) /\ ver[v].problems = {} => Expected(v)
          /\ Compliant /\ ~Faulted(v) => ver[v].problems = {}
      BY DEF ProbeInv, CompliantNeverReported
    <2>1. CASE Idles(v)
      <3>1. ver'[v] = ver[v] /\ racer'[v] = racer[v]
        BY <2>1 DEF Idles
      <3>2. ~Faulted(v)
        BY <1>1, <3>1 DEF Faulted
      <3>. QED BY <1>0, <1>b, <2>0, <2>1, <3>1, <3>2, IdlesKeepExpected
    <2>2. CASE Begin(v)
      <3>1. ver'[v].pc = "saveClient" /\ ver'[v].problems = {}
        BY <1>0, <2>2 DEF Begin, Become, Idle, TypeInv
      <3>2. Reached(v)' = 1
        BY <3>1, RankValues DEF Reached
      <3>. QED BY <3>1, <3>2 DEF Expected, Cleared, ClientRow, CodeRow, PendingRow, PairRows, RefreshRow, AtomicRow
    <2>3. CASE Step(v)
      <3>1. ~Faulted(v) /\ ver[v].problems \subseteq ver'[v].problems
        BY <1>0, <1>1, <2>3, StepRemembers
      <3>2. ver[v].problems = {} => Probes(v)
        BY <1>0, <2>0, <2>3, <3>1, StepProbes
      <3>. QED BY <1>b, <2>0, <3>1, <3>2 DEF Probes
    <2>4. CASE Crash(v)
      <3>1. ver'[v] = Moved(v, "dead", {}) /\ racer' = racer
        BY <1>0, <2>4 DEF Crash, Become, TypeInv
      <3>2. ver'[v].pc = "dead" /\ ver'[v].problems = ver[v].problems /\ ver'[v].faulted = ver[v].faulted
        BY <1>0, <3>1 DEF Moved, TypeInv, Local
      <3>3. Reached(v)' = 0 /\ ~Faulted(v)
        BY <1>1, <3>1, <3>2, RankValues DEF Reached, Faulted
      <3>4. Expected(v)'
        BY <3>3 DEF Expected, Cleared, ClientRow, CodeRow, PendingRow, PairRows, RefreshRow, AtomicRow
      <3>. QED BY <1>b, <2>0, <3>2, <3>3, <3>4
    <2>5. CASE StoreFault(v) \/ \E r \in Racers : RaceFault(v, r)
      BY <1>0, <1>1, <2>5, FaultsRemain
    <2>. QED BY <1>0, <2>1, <2>2, <2>3, <2>4, <2>5, NextActs, OthersIdle, EnvironmentIdles
  <1>. QED BY <1>0, <1>1 DEF ProbeInv, CompliantNeverReported

(* CompliantNeverReported: a compliant Store passes, beside any number of  *)
(* other verifications and purges.                                         *)
THEOREM CompliantStorePasses == Spec => []CompliantNeverReported
  <1>1. ProbeInv => CompliantNeverReported
    BY DEF ProbeInv
  <1>. QED BY <1>1, InitProbeInv, NextProbeInv, PTL DEF Spec

(* ProbedDefectsReported: a verification that ran to its end, no call of   *)
(* which failed, has found the defect if it is one it probes for.          *)
THEOREM DefectsAreFound == Spec => []ProbedDefectsReported
  <1>1. ProbeInv => ProbedDefectsReported
    <2>. SUFFICES ASSUME ProbeInv, NEW v \in Verifiers, At(v, "done"), ~Faulted(v), ver[v].problems = {}
                  PROVE  store.defect \notin Probed
      BY DEF ProbedDefectsReported
    <2>1. Reached(v) = 35 /\ Expected(v)
      BY RankValues DEF ProbeInv, At, Reached
    <2>2. /\ \A t \in DOMAIN Columns : \A c \in Probe(t) : ~Drops(t, c)
          /\ ~Drops("tokens", "FamilyExpiresAt") /\ ~Drops("tokens", "ConsumedAt")
      <3>1. DOMAIN Columns = {"clients", "codes", "pending", "tokens"}
        BY DEF Columns
      <3>. QED BY <2>1, <3>1 DEF Expected, Cleared
    <2>3. \A b \in {"codeReusable", "pendingReusable", "pendingByClient", "clientInserts",
                    "filtersExpired", "consumeDeletes", "updateReturning", "returnsAfter",
                    "restamps", "getHidesConsumed", "unknownIsError", "revokeNoop",
                    "purgesOwnExpiry", "purgeSkipsClients"} : ~Has(b)
      BY <2>1 DEF Expected, Cleared
    <2>. QED BY <2>2, <2>3 DEF Probed, Probe, Has, Drops
  <1>. QED BY <1>1, InitProbeInv, NextProbeInv, PTL DEF Spec

(* CleansUp: such a verification of a compliant Store leaves no row, or    *)
(* only the atomicity canary, where a token may not be saved again.        *)
THEOREM VerificationCleansUp == Spec => []CleansUp
  <1>1. ProbeInv => CleansUp
    <2>. SUFFICES ASSUME ProbeInv, NEW v \in Verifiers, Compliant, At(v, "done"), ~Faulted(v),
                         NEW name \in Names, ~(name = "atomic" /\ store.insertOnly)
                  PROVE  Own(v, name) = None
      BY DEF CleansUp, Own
    <2>1. Reached(v) = 35 /\ Expected(v)
      BY RankValues DEF ProbeInv, At, Reached, CompliantNeverReported
    <2>2. ~Has("purgeSkipsClients")
      BY Defect
    <2>. QED BY <2>1, <2>2
             DEF Expected, ClientRow, CodeRow, PendingRow, PairRows, RefreshRow, AtomicRow, Names
  <1>. QED BY <1>1, InitProbeInv, NextProbeInv, PTL DEF Spec
=============================================================================
