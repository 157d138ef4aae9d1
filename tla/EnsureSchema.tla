---------------------------- MODULE EnsureSchema ----------------------------
(***************************************************************************)
(* pgstore.EnsureSchema (pgstore/schema.go), called at start-up by several *)
(* instances, or by an application and its migration job, on one database. *)
(*                                                                         *)
(* One action is one statement of its transaction.  A statement sees what  *)
(* is committed when it starts and what its own transaction wrote (READ    *)
(* COMMITTED); nothing is visible to others before the commit, DDL         *)
(* included.  Two open transactions that create the same table or insert   *)
(* the same key conflict: the second waits and, once the first commits,    *)
(* fails with a unique violation even under IF NOT EXISTS.                 *)
(*                                                                         *)
(* Callers may run different releases of the library: Release[c] is the    *)
(* length of schemaSteps in c's release (1 in this one), and step k        *)
(* retires one thing of the schema, also called k (for k = 1 the column    *)
(* successor_sealed).  Releases only ever append steps.                    *)
(***************************************************************************)
EXTENDS Naturals

CONSTANTS
    Callers,     \* instances and jobs that call EnsureSchema
    Release,     \* caller -> length of its release's schemaSteps
    Tables,      \* the tables of SchemaSQL, the version table among them
    RefreshTable,\* the table the steps change
    None,        \* no row, no holder
    MayFail      \* may statements fail and instances die

Steps == UNION {1..Release[c] : c \in Callers}

ASSUME ReleaseAssumption == Release \in [Callers -> Nat]
ASSUME TablesAssumption == RefreshTable \in Tables
ASSUME NoneAssumption == None \notin Nat /\ None \notin Callers
ASSUME FailAssumption == MayFail \in BOOLEAN

VARIABLES
    tables,   \* committed: the tables that exist
    version,  \* committed: the row of mcp_oauth_schema_version, None if there is none
    retired,  \* committed: the things later steps retire that are still there
    holder,   \* who holds the advisory lock
    tx,       \* caller -> its call and its open transaction
    result    \* caller -> how its last call ended

database == <<tables, version, retired>>
vars == <<database, holder, tx, result>>

(* `seen' is the Go variable version; `made', `wrote' and `dropped' are    *)
(* what the open transaction has written.                                  *)
NoCall == [pc |-> "idle", seen |-> None, made |-> {}, wrote |-> None, dropped |-> {}]

(* The databases EnsureSchema may find: an empty one, one whose tables the *)
(* application's own migrations made (some of them, without the version    *)
(* table or with an empty one), one that an earlier call brought to a      *)
(* version.                                                                *)
Init ==
    /\ tables \in SUBSET Tables
    /\ version \in {None, 0} \cup Steps
    /\ version # None => tables = Tables
    /\ retired \in SUBSET Steps
    /\ RefreshTable \notin tables => retired = {}
    /\ version # None => \A k \in retired : k > version
    /\ holder = None
    /\ tx = [c \in Callers |-> NoCall]
    /\ result = [c \in Callers |-> "none"]

-----------------------------------------------------------------------------
(* Variants named "...Slip" are plausible mistakes in the definition that  *)
(* follows them; no specification uses them.                               *)

Become(c, q) == tx' = [tx EXCEPT ![c] = q]

Goto(c, pc) == Become(c, [tx[c] EXCEPT !.pc = pc])

(* Slip: the lock belongs to the session and survives the rollback.        *)
EndsSlip(c, outcome) ==
    /\ Become(c, NoCall)
    /\ holder' = IF holder = c /\ outcome = "ok" THEN None ELSE holder
    /\ result' = [result EXCEPT ![c] = outcome]

(* The call returns; commit or deferred Rollback ends the transaction and  *)
(* gives up its lock.                                                      *)
Ends(c, outcome) ==
    /\ Become(c, NoCall)
    /\ holder' = IF holder = c THEN None ELSE holder
    /\ result' = [result EXCEPT ![c] = outcome]

(* What the other open transactions have created or inserted.              *)
MadeByOthers(c) == UNION {tx[o].made : o \in Callers \ {c}}
WrittenByOthers(c) == \E o \in Callers \ {c} : tx[o].wrote # None

(* A statement that ends in a unique violation.                            *)
Conflict(c) == Ends(c, "conflict") /\ UNCHANGED database

(* BeginTx.                                                                *)
Begin(c) ==
    /\ tx[c].pc = "idle"
    /\ Goto(c, "lock")
    /\ result' = [result EXCEPT ![c] = "none"]
    /\ UNCHANGED <<database, holder>>

(* Slip: nobody waits for the lock.                                        *)
LockSlip(c) ==
    /\ tx[c].pc = "lock"
    /\ holder' = c
    /\ Goto(c, "ddl")
    /\ UNCHANGED <<database, result>>

(* pg_advisory_xact_lock.                                                  *)
Lock(c) ==
    /\ tx[c].pc = "lock" /\ holder = None
    /\ holder' = c
    /\ Goto(c, "ddl")
    /\ UNCHANGED <<database, result>>

(* SchemaSQL: CREATE TABLE IF NOT EXISTS, for each table.                  *)
CreateTables(c) ==
    LET missing == Tables \ tables IN
    /\ tx[c].pc = "ddl"
    /\ IF missing \cap MadeByOthers(c) # {} THEN Conflict(c)
       ELSE /\ Become(c, [tx[c] EXCEPT !.pc = "read", !.made = missing])
            /\ UNCHANGED <<database, holder, result>>

(* Slip: the scanned version is thrown away.                               *)
ReadVersionSlip(c) ==
    /\ tx[c].pc = "read"
    /\ Become(c, [tx[c] EXCEPT !.pc = IF version = None THEN "init" ELSE "step",
                               !.seen = IF version = None THEN None ELSE 0])
    /\ UNCHANGED <<database, holder, result>>

(* SELECT version.                                                         *)
ReadVersion(c) ==
    /\ tx[c].pc = "read"
    /\ Become(c, [tx[c] EXCEPT !.pc = IF version = None THEN "init" ELSE "step",
                               !.seen = version])
    /\ UNCHANGED <<database, holder, result>>

(* INSERT (TRUE, 0), after ErrNoRows.                                      *)
InitVersion(c) ==
    /\ tx[c].pc = "init"
    /\ IF version # None \/ WrittenByOthers(c) THEN Conflict(c)
       ELSE /\ Become(c, [tx[c] EXCEPT !.pc = "step", !.seen = 0, !.wrote = 0])
            /\ UNCHANGED <<database, holder, result>>

(* Slip: the loop runs one step too far.                                   *)
RunStepSlip(c) ==
    LET q == tx[c] IN
    /\ q.pc = "step" /\ q.seen <= Release[c]
    /\ Become(c, [q EXCEPT !.pc = "record", !.dropped = q.dropped \cup {q.seen + 1}])
    /\ UNCHANGED <<database, holder, result>>

(* The next step whose version is above the one seen.                      *)
RunStep(c) ==
    LET q == tx[c] IN
    /\ q.pc = "step" /\ q.seen < Release[c]
    /\ Become(c, [q EXCEPT !.pc = "record", !.dropped = q.dropped \cup {q.seen + 1}])
    /\ UNCHANGED <<database, holder, result>>

(* Slip: the release's last version is recorded after its first step.      *)
RecordStepSlip(c) ==
    /\ tx[c].pc = "record"
    /\ Become(c, [tx[c] EXCEPT !.pc = "step", !.seen = Release[c], !.wrote = Release[c]])
    /\ UNCHANGED <<database, holder, result>>

(* UPDATE version, and the next round of the loop.                         *)
RecordStep(c) ==
    LET q == tx[c] IN
    /\ q.pc = "record"
    /\ Become(c, [q EXCEPT !.pc = "step", !.seen = q.seen + 1, !.wrote = q.seen + 1])
    /\ UNCHANGED <<database, holder, result>>

(* The tables a release creates carry what later releases retire.          *)
Baseline(c) == {k \in Steps : k > Release[c]}

Applied(c) ==
    LET q == tx[c] IN
    /\ tables' = tables \cup q.made
    /\ version' = IF q.wrote # None THEN q.wrote ELSE version
    /\ retired' = (IF RefreshTable \in q.made THEN Baseline(c) ELSE retired) \ q.dropped

(* Slip: the call returns nil and leaves the rest to the deferred Rollback.*)
CommitSlip(c) ==
    /\ tx[c].pc = "step" /\ tx[c].seen >= Release[c]
    /\ Ends(c, "ok")
    /\ UNCHANGED database

Commit(c) ==
    /\ tx[c].pc = "step" /\ tx[c].seen >= Release[c]
    /\ Applied(c)
    /\ Ends(c, "ok")

(* The commit happens and its reply is lost: the caller sees an error.     *)
CommitUnseen(c) ==
    /\ MayFail
    /\ tx[c].pc = "step" /\ tx[c].seen >= Release[c]
    /\ Applied(c)
    /\ Ends(c, "error")

(* A statement fails, the context ends or the instance dies.               *)
Fail(c) ==
    /\ MayFail
    /\ tx[c].pc # "idle"
    /\ Ends(c, "error")
    /\ UNCHANGED database

Call(c) ==
    \/ CreateTables(c) \/ ReadVersion(c) \/ InitVersion(c)
    \/ RunStep(c) \/ RecordStep(c) \/ Commit(c)

Next ==
    \E c \in Callers : Begin(c) \/ Lock(c) \/ Call(c) \/ CommitUnseen(c) \/ Fail(c)

Spec == Init /\ [][Next]_vars

(* A statement that need not wait returns.  Waiters are granted the lock   *)
(* in the order they asked, so whoever waits is not passed over for ever.  *)
FairSpec ==
    /\ Spec
    /\ \A c \in Callers : WF_vars(Call(c)) /\ SF_vars(Lock(c))

-----------------------------------------------------------------------------
(* Properties.                                                             *)

(* The type of every variable.                                             *)
TypeOK ==
    /\ tables \subseteq Tables
    /\ version \in Nat \cup {None}
    /\ retired \subseteq Steps
    /\ holder \in Callers \cup {None}
    /\ tx \in [Callers -> [pc : {"idle", "lock", "ddl", "read", "init", "step", "record"},
                           seen : Nat \cup {None}, made : SUBSET Tables,
                           wrote : Nat \cup {None}, dropped : SUBSET Steps]]
    /\ result \in [Callers -> {"none", "ok", "error", "conflict"}]

(* A recorded version tells the truth, whoever recorded it and whatever    *)
(* failed on the way: every table is there and every step up to it has     *)
(* been applied.                                                           *)
VersionTellsTruth ==
    version # None => tables = Tables /\ \A k \in retired : k > version

(* Calls that overlap do not make each other fail: EnsureSchema is "safe   *)
(* to call concurrently from several instances".                           *)
OverlapIsHarmless == \A c \in Callers : result[c] # "conflict"

(* Once a call has returned nil the schema is at its release or above, and *)
(* stays there while other releases are deployed or rolled back.           *)
OkMeansUpgraded ==
    \A c \in Callers : result[c] = "ok" =>
      /\ version # None /\ version >= Release[c]
      /\ \A k \in retired : k > Release[c]

(* No commit takes the schema back: an older release booting after a newer *)
(* one leaves version, tables and applied steps alone.                     *)
NeverDowngraded ==
    [][/\ version # None => version' # None /\ version' >= version
       /\ tables \subseteq tables'
       /\ RefreshTable \in tables => retired' \subseteq retired]_vars

(* Every call returns: nobody waits for ever for a lock whose holder       *)
(* failed or died.                                                         *)
CallsReturn == \A c \in Callers : tx[c].pc # "idle" ~> tx[c].pc = "idle"
=============================================================================
