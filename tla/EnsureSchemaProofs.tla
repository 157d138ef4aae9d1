------------------------- MODULE EnsureSchemaProofs -------------------------
(***************************************************************************)
(* Safety of EnsureSchema for any number of callers, releases and tables.  *)
(*                                                                         *)
(* The properties are not inductive: that a recorded version tells the     *)
(* truth depends on what the open transaction is about to write.           *)
(* SchemaInv adds that only the holder of the advisory lock has written    *)
(* anything (LockOK) and what its transaction will leave behind at each    *)
(* statement (ProgressOK).                                                 *)
(***************************************************************************)
EXTENDS EnsureSchema, TLAPS

Working == {"ddl", "read", "init", "step", "record"}

(* What c's commit would leave to retire.                                  *)
Left(c) == (IF RefreshTable \in tx[c].made THEN Baseline(c) ELSE retired) \ tx[c].dropped

(* The type of a call's record.                                            *)
CallRecord ==
    [pc : {"idle", "lock", "ddl", "read", "init", "step", "record"},
     seen : Nat \cup {None}, made : SUBSET Tables,
     wrote : Nat \cup {None}, dropped : SUBSET Steps]

LockOK ==
    \A c \in Callers :
      /\ tx[c].pc \in Working <=> holder = c
      /\ holder # c => tx[c].made = {} /\ tx[c].wrote = None /\ tx[c].dropped = {}

ProgressOK ==
    \A c \in Callers :
      /\ tx[c].pc = "ddl" => tx[c].made = {}
      /\ tx[c].pc \in {"ddl", "read", "init"} => tx[c].wrote = None /\ tx[c].dropped = {}
      /\ tx[c].pc \in {"read", "init", "step", "record"} => tx[c].made = Tables \ tables
      /\ tx[c].pc = "init" => version = None
      /\ tx[c].pc \in {"step", "record"} =>
           /\ tx[c].seen \in Nat
           /\ tx[c].seen = IF tx[c].wrote # None THEN tx[c].wrote ELSE version
           /\ version # None => tx[c].seen >= version
           /\ \A k \in Left(c) : k > tx[c].seen
      /\ tx[c].pc = "record" => tx[c].seen < Release[c] /\ tx[c].seen + 1 \in tx[c].dropped

SchemaInv ==
    /\ TypeOK
    /\ VersionTellsTruth
    /\ OverlapIsHarmless
    /\ OkMeansUpgraded
    /\ LockOK
    /\ ProgressOK

-----------------------------------------------------------------------------
(* The steps of every release are positive numbers.                        *)
LEMMA StepsArePositive == Steps \subseteq Nat \ {0}
BY ReleaseAssumption DEF Steps

(* A release's own steps are steps.                                        *)
LEMMA OwnSteps ==
    ASSUME NEW c \in Callers, NEW k \in Nat, k < Release[c]
    PROVE  k + 1 \in Steps
<1>1. k + 1 \in 1..Release[c]
  BY ReleaseAssumption
<1> QED
  BY <1>1 DEF Steps

(* Every database EnsureSchema may find satisfies the invariant.           *)
LEMMA SchemaInit == Init => SchemaInv
<1> SUFFICES ASSUME Init PROVE SchemaInv
  OBVIOUS
<1>1. TypeOK
  <2>1. NoCall \in CallRecord
    BY DEF NoCall, CallRecord
  <2>2. version \in Nat \cup {None}
    <3>1. version \in {None, 0} \cup Steps
      BY DEF Init
    <3>2. CASE version \in Steps
      BY <3>2, StepsArePositive, Zenon
    <3>3. CASE version = 0
      BY <3>3
    <3>4. CASE version = None
      BY <3>4
    <3> QED
      BY <3>1, <3>2, <3>3, <3>4, Zenon
  <2> QED
    BY <2>1, <2>2 DEF Init, TypeOK, CallRecord
<1>2. VersionTellsTruth
  BY DEF Init, VersionTellsTruth
<1>3. OverlapIsHarmless /\ OkMeansUpgraded
  BY DEF Init, OverlapIsHarmless, OkMeansUpgraded
<1>4. LockOK
  BY NoneAssumption DEF Init, LockOK, Working, NoCall
<1>5. ProgressOK
  BY DEF Init, ProgressOK, NoCall
<1> QED
  BY <1>1, <1>2, <1>3, <1>4, <1>5 DEF SchemaInv

(* A call that ends without a commit leaves the invariant as it was.       *)
LEMMA EndKeeps ==
    ASSUME SchemaInv, NEW c \in Callers, NEW outcome \in {"error"},
           Ends(c, outcome), UNCHANGED database
    PROVE  SchemaInv'
<1> USE DEF SchemaInv
<1>1. TypeOK'
  BY DEF TypeOK, Ends, Become, NoCall, database
<1>2. VersionTellsTruth'
  BY DEF VersionTellsTruth, database
<1>3. OverlapIsHarmless'
  BY DEF TypeOK, OverlapIsHarmless, Ends, Become
<1>4. OkMeansUpgraded'
  BY DEF TypeOK, OkMeansUpgraded, Ends, Become, database
<1>5. LockOK'
  BY NoneAssumption DEF TypeOK, LockOK, Ends, Become, NoCall, Working
<1>6. ProgressOK'
  BY DEF TypeOK, ProgressOK, Ends, Become, NoCall, database, Left, Baseline
<1> QED
  BY <1>1, <1>2, <1>3, <1>4, <1>5, <1>6

(* A statement that changes only its own transaction keeps what is         *)
(* committed as it was.                                                    *)
LEMMA StatementKeeps ==
    ASSUME SchemaInv, UNCHANGED <<database, holder, result>>
    PROVE  VersionTellsTruth' /\ OverlapIsHarmless' /\ OkMeansUpgraded'
BY DEF SchemaInv, VersionTellsTruth, OverlapIsHarmless, OkMeansUpgraded, database

(* BeginTx.                                                                *)
LEMMA BeginKeeps ==
    ASSUME SchemaInv, NEW c \in Callers, Begin(c)
    PROVE  SchemaInv'
<1> USE DEF SchemaInv
<1>1. TypeOK'
  BY DEF TypeOK, Begin, Goto, Become, database
<1>2. VersionTellsTruth'
  BY DEF VersionTellsTruth, Begin, database
<1>3. OverlapIsHarmless' /\ OkMeansUpgraded'
  BY DEF TypeOK, OverlapIsHarmless, OkMeansUpgraded, Begin, database
<1>4. LockOK'
  BY DEF TypeOK, LockOK, Begin, Goto, Become, Working
<1>5. ProgressOK'
  BY DEF TypeOK, ProgressOK, Begin, Goto, Become, database, Left, Baseline
<1> QED
  BY <1>1, <1>2, <1>3, <1>4, <1>5

(* The advisory lock.                                                      *)
LEMMA LockKeeps ==
    ASSUME SchemaInv, NEW c \in Callers, Lock(c)
    PROVE  SchemaInv'
<1> USE DEF SchemaInv
<1>1. TypeOK'
  BY DEF TypeOK, Lock, Goto, Become, database
<1>2. VersionTellsTruth' /\ OverlapIsHarmless' /\ OkMeansUpgraded'
  BY DEF VersionTellsTruth, OverlapIsHarmless, OkMeansUpgraded, Lock, database
<1>3. LockOK'
  BY NoneAssumption DEF TypeOK, LockOK, Lock, Goto, Become, Working
<1>4. ProgressOK'
  <2>1. tx[c].made = {} /\ tx[c].wrote = None /\ tx[c].dropped = {}
    BY NoneAssumption DEF LockOK, Lock, TypeOK
  <2> QED
    BY <2>1 DEF TypeOK, ProgressOK, Lock, Goto, Become, database, Left, Baseline
<1> QED
  BY <1>1, <1>2, <1>3, <1>4

(* The holder of the lock meets nobody else's writes.                      *)
LEMMA HolderIsAlone ==
    ASSUME SchemaInv, NEW c \in Callers, tx[c].pc \in Working
    PROVE  MadeByOthers(c) = {} /\ ~WrittenByOthers(c)
<1>1. holder = c
  BY DEF SchemaInv, LockOK
<1>2. \A o \in Callers \ {c} : tx[o].made = {} /\ tx[o].wrote = None
  BY <1>1 DEF SchemaInv, LockOK
<1> QED
  BY <1>2 DEF MadeByOthers, WrittenByOthers

(* SchemaSQL.                                                              *)
LEMMA CreateTablesKeeps ==
    ASSUME SchemaInv, NEW c \in Callers, CreateTables(c)
    PROVE  SchemaInv'
<1> USE DEF SchemaInv
<1>1. tx[c].pc = "ddl" /\ MadeByOthers(c) = {}
  BY HolderIsAlone DEF CreateTables, Become, Working
<1>2. /\ tx' = [tx EXCEPT ![c] = [tx[c] EXCEPT !.pc = "read", !.made = Tables \ tables]]
      /\ UNCHANGED <<database, holder, result>>
  BY <1>1 DEF CreateTables, Become
<1>3. TypeOK'
  BY <1>2 DEF TypeOK, database
<1>4. LockOK'
  BY <1>1, <1>2 DEF TypeOK, LockOK, Working
<1>5. ProgressOK'
  BY <1>1, <1>2 DEF TypeOK, ProgressOK, database, Left, Baseline
<1> QED
  BY <1>2, <1>3, <1>4, <1>5, StatementKeeps

(* SELECT version.                                                         *)
LEMMA ReadVersionKeeps ==
    ASSUME SchemaInv, NEW c \in Callers, ReadVersion(c)
    PROVE  SchemaInv'
<1> USE DEF SchemaInv
<1>1. TypeOK'
  <2> DEFINE pc == IF version = None THEN "init" ELSE "step"
             q == [tx[c] EXCEPT !.pc = pc, !.seen = version]
  <2>1. tx[c] \in CallRecord /\ version \in Nat \cup {None}
    BY DEF TypeOK, CallRecord
  <2>2. pc \in {"init", "step"}
    OBVIOUS
  <2>3. tx' = [tx EXCEPT ![c] = q] /\ UNCHANGED <<database, holder, result>>
    BY DEF ReadVersion, Become
  <2> HIDE DEF pc
  <2>4. q \in CallRecord
    BY <2>1, <2>2 DEF CallRecord
  <2> HIDE DEF q
  <2> QED
    BY <2>3, <2>4 DEF TypeOK, CallRecord, database
<1>2. LockOK'
  BY DEF TypeOK, LockOK, Working, ReadVersion, Become
<1>3. ProgressOK'
  <2>1. version # None => Left(c) = retired
    BY TablesAssumption DEF ProgressOK, ReadVersion, Become, VersionTellsTruth, Left
  <2>2. version # None => \A k \in Left(c)' : k > version
    BY <2>1 DEF VersionTellsTruth, ReadVersion, Become, Left, Baseline, database, TypeOK
  <2>3. \A d \in Callers \ {c} : tx'[d] = tx[d] /\ Left(d)' = Left(d)
    BY DEF ReadVersion, Become, TypeOK, Left, Baseline, database
  <2> QED
    BY <2>2, <2>3 DEF TypeOK, ProgressOK, ReadVersion, Become, database
<1> QED
  BY <1>1, <1>2, <1>3, StatementKeeps DEF ReadVersion, Become

(* INSERT (TRUE, 0).                                                       *)
LEMMA InitVersionKeeps ==
    ASSUME SchemaInv, NEW c \in Callers, InitVersion(c)
    PROVE  SchemaInv'
<1> USE DEF SchemaInv
<1>1. tx[c].pc = "init" /\ ~WrittenByOthers(c) /\ version = None
  BY HolderIsAlone DEF InitVersion, Become, Working, ProgressOK
<1>2. /\ tx' = [tx EXCEPT ![c] = [tx[c] EXCEPT !.pc = "step", !.seen = 0, !.wrote = 0]]
      /\ UNCHANGED <<database, holder, result>>
  BY <1>1 DEF InitVersion, Become
<1>3. TypeOK'
  BY <1>2 DEF TypeOK, database
<1>4. LockOK'
  BY <1>1, <1>2 DEF TypeOK, LockOK, Working
<1>5. ProgressOK'
  <2>1. \A k \in Left(c)' : k > 0
    BY <1>2, StepsArePositive DEF Left, Baseline, TypeOK, database
  <2>2. \A d \in Callers \ {c} : tx'[d] = tx[d] /\ Left(d)' = Left(d)
    BY <1>2 DEF TypeOK, Left, Baseline, database
  <2> QED
    BY <1>1, <1>2, <2>1, <2>2, NoneAssumption DEF TypeOK, ProgressOK, database
<1> QED
  BY <1>2, <1>3, <1>4, <1>5, StatementKeeps

(* One versioned step.                                                     *)
LEMMA RunStepKeeps ==
    ASSUME SchemaInv, NEW c \in Callers, RunStep(c)
    PROVE  SchemaInv'
<1> USE DEF SchemaInv
<1>1. tx[c].pc = "step" /\ tx[c].seen \in Nat /\ tx[c].seen < Release[c]
  BY DEF RunStep, Become, ProgressOK
<1>2. tx[c].seen + 1 \in Steps
  BY <1>1, OwnSteps
<1>3. TypeOK'
  BY <1>2 DEF TypeOK, RunStep, Become, database
<1>4. LockOK'
  BY DEF TypeOK, LockOK, Working, RunStep, Become
<1>5. ProgressOK'
  <2>1. Left(c)' \subseteq Left(c)
    BY DEF RunStep, Become, TypeOK, Left, Baseline, database
  <2>2. \A d \in Callers \ {c} : tx'[d] = tx[d] /\ Left(d)' = Left(d)
    BY DEF RunStep, Become, TypeOK, Left, Baseline, database
  <2> QED
    BY <1>1, <2>1, <2>2 DEF TypeOK, ProgressOK, RunStep, Become, database
<1> QED
  BY <1>3, <1>4, <1>5, StatementKeeps DEF RunStep, Become

(* Recording it.                                                           *)
LEMMA RecordStepKeeps ==
    ASSUME SchemaInv, NEW c \in Callers, RecordStep(c)
    PROVE  SchemaInv'
<1> USE DEF SchemaInv
<1>1. tx[c].pc = "record" /\ tx[c].seen \in Nat
  BY DEF RecordStep, Become, ProgressOK
<1>2. TypeOK'
  <2> DEFINE n == tx[c].seen + 1
             q == [tx[c] EXCEPT !.pc = "step", !.seen = n, !.wrote = n]
  <2>1. n \in Nat /\ tx[c] \in CallRecord
    BY <1>1 DEF TypeOK, CallRecord
  <2>2. tx' = [tx EXCEPT ![c] = q] /\ UNCHANGED <<database, holder, result>>
    BY DEF RecordStep, Become
  <2> HIDE DEF n
  <2>3. q \in CallRecord
    BY <2>1 DEF CallRecord
  <2> HIDE DEF q
  <2> QED
    BY <2>2, <2>3 DEF TypeOK, CallRecord, database
<1>3. LockOK'
  BY DEF TypeOK, LockOK, Working, RecordStep, Become
<1>4. ProgressOK'
  <2>1. Left(c)' = Left(c)
    BY DEF RecordStep, Become, TypeOK, Left, Baseline, database
  <2>2. tx[c].seen + 1 \notin Left(c)
    BY <1>1 DEF ProgressOK, Left
  <2>3. \A k \in Left(c) : k \in Nat /\ k > tx[c].seen
    BY <1>1, StepsArePositive DEF ProgressOK, TypeOK, Left, Baseline
  <2>4. \A k \in Left(c)' : k > tx[c].seen + 1
    BY <1>1, <2>1, <2>2, <2>3
  <2>5. \A d \in Callers \ {c} : tx'[d] = tx[d] /\ Left(d)' = Left(d)
    BY DEF RecordStep, Become, TypeOK, Left, Baseline, database
  <2> QED
    BY <1>1, <2>4, <2>5, NoneAssumption DEF TypeOK, ProgressOK, RecordStep, Become, database
<1> QED
  BY <1>2, <1>3, <1>4, StatementKeeps DEF RecordStep, Become

(* What a commit does to the committed schema.                             *)
LEMMA CommitEffect ==
    ASSUME SchemaInv, NEW c \in Callers, tx[c].pc = "step", tx[c].seen >= Release[c], Applied(c)
    PROVE  /\ tables' = Tables
           /\ version' = tx[c].seen /\ version' \in Nat
           /\ version # None => version' >= version
           /\ retired' = Left(c) /\ \A k \in retired' : k > version'
           /\ RefreshTable \in tables => retired' \subseteq retired
<1> USE DEF SchemaInv
<1>1. tx[c].made = Tables \ tables
  BY DEF ProgressOK
<1>2. tables' = Tables
  BY <1>1 DEF Applied, TypeOK
<1>3. version' = tx[c].seen /\ version' \in Nat
  BY DEF ProgressOK, Applied
<1>4. retired' = Left(c)
  BY DEF Applied, Left
<1>5. RefreshTable \in tables => retired' \subseteq retired
  BY <1>1, <1>4 DEF Left
<1>6. (version # None => version' >= version) /\ \A k \in retired' : k > version'
  BY <1>3, <1>4 DEF ProgressOK
<1> QED
  BY <1>2, <1>3, <1>4, <1>5, <1>6

(* The commit, whether or not its reply arrives.                           *)
LEMMA CommitKeeps ==
    ASSUME SchemaInv, NEW c \in Callers, NEW outcome \in {"ok", "error"},
           tx[c].pc = "step", tx[c].seen >= Release[c], Applied(c), Ends(c, outcome)
    PROVE  SchemaInv'
<1> USE DEF SchemaInv
<1>1. holder = c /\ \A d \in Callers \ {c} : tx[d].pc \notin Working
  BY DEF LockOK, Working
<1>2. /\ tables' = Tables /\ version' = tx[c].seen /\ version' \in Nat
      /\ version # None => version' >= version
      /\ retired' = Left(c) /\ \A k \in retired' : k > version'
      /\ RefreshTable \in tables => retired' \subseteq retired
  BY CommitEffect
<1>3. TypeOK'
  BY <1>2, NoneAssumption DEF TypeOK, Ends, Become, NoCall, Left, Baseline
<1>4. VersionTellsTruth'
  BY <1>2 DEF VersionTellsTruth
<1>5. OverlapIsHarmless'
  BY DEF TypeOK, OverlapIsHarmless, Ends, Become
<1>6. OkMeansUpgraded'
  <2> SUFFICES ASSUME NEW d \in Callers, result'[d] = "ok"
               PROVE  /\ version' # None /\ version' >= Release[d]
                      /\ \A k \in retired' : k > Release[d]
    BY DEF OkMeansUpgraded
  <2>1. CASE d = c
    <3>1. version' >= Release[d]
      BY <1>2, <2>1
    <3>2. \A k \in retired' : k \in Nat
      BY <1>3, StepsArePositive DEF TypeOK
    <3> QED
      BY <1>2, <3>1, <3>2, ReleaseAssumption, NoneAssumption
  <2>2. CASE d # c
    <3>1. result[d] = "ok"
      BY <2>2 DEF TypeOK, Ends, Become
    <3>2. version # None /\ version >= Release[d] /\ \A k \in retired : k > Release[d]
      BY <3>1 DEF OkMeansUpgraded
    <3>3. RefreshTable \in tables
      BY <3>2, TablesAssumption DEF VersionTellsTruth
    <3>4. version \in Nat
      BY <3>2 DEF TypeOK
    <3> QED
      BY <1>2, <3>2, <3>3, <3>4, ReleaseAssumption, NoneAssumption
  <2> QED
    BY <2>1, <2>2
<1>7. LockOK'
  BY <1>1, NoneAssumption DEF TypeOK, LockOK, Ends, Become, NoCall, Working
<1>8. ProgressOK'
  <2>1. \A d \in Callers : tx'[d].pc \notin Working
    BY <1>1 DEF TypeOK, Ends, Become, NoCall, Working
  <2> QED
    BY <2>1 DEF ProgressOK, Working
<1> QED
  BY <1>3, <1>4, <1>5, <1>6, <1>7, <1>8

(* Every step keeps the invariant.                                         *)
LEMMA SchemaStep == SchemaInv /\ [Next]_vars => SchemaInv'
<1> SUFFICES ASSUME SchemaInv, [Next]_vars PROVE SchemaInv'
  OBVIOUS
<1>1. CASE UNCHANGED vars
  BY <1>1 DEF vars, database, SchemaInv, TypeOK, VersionTellsTruth, OverlapIsHarmless,
              OkMeansUpgraded, LockOK, ProgressOK, Left, Baseline
<1>2. CASE Next
  <2>1. PICK c \in Callers : Begin(c) \/ Lock(c) \/ Call(c) \/ CommitUnseen(c) \/ Fail(c)
    BY <1>2 DEF Next
  <2>2. CASE Begin(c)
    BY <2>2, BeginKeeps
  <2>3. CASE Lock(c)
    BY <2>3, LockKeeps
  <2>4. CASE CreateTables(c)
    BY <2>4, CreateTablesKeeps
  <2>5. CASE ReadVersion(c)
    BY <2>5, ReadVersionKeeps
  <2>6. CASE InitVersion(c)
    BY <2>6, InitVersionKeeps
  <2>7. CASE RunStep(c)
    BY <2>7, RunStepKeeps
  <2>8. CASE RecordStep(c)
    BY <2>8, RecordStepKeeps
  <2>9. CASE Commit(c)
    BY <2>9, CommitKeeps DEF Commit
  <2>10. CASE CommitUnseen(c)
    BY <2>10, CommitKeeps DEF CommitUnseen
  <2>11. CASE Fail(c)
    BY <2>11, EndKeeps DEF Fail
  <2> QED
    BY <2>1, <2>2, <2>3, <2>4, <2>5, <2>6, <2>7, <2>8, <2>9, <2>10, <2>11 DEF Call
<1> QED
  BY <1>1, <1>2

-----------------------------------------------------------------------------
(* The invariant holds throughout.                                         *)
THEOREM SchemaAlways == Spec => []SchemaInv
BY SchemaInit, SchemaStep, PTL DEF Spec

(* A recorded version is never ahead of the schema, whatever overlaps and  *)
(* fails: EnsureSchema writes the version in the transaction of the step.  *)
THEOREM VersionIsTrue == Spec => []VersionTellsTruth
<1>1. SchemaInv => VersionTellsTruth
  BY DEF SchemaInv
<1> QED
  BY SchemaAlways, <1>1, PTL

(* Overlapping calls never fail because of each other (the advisory lock). *)
THEOREM OverlapIsSafe == Spec => []OverlapIsHarmless
<1>1. SchemaInv => OverlapIsHarmless
  BY DEF SchemaInv
<1> QED
  BY SchemaAlways, <1>1, PTL

(* After a nil return the schema is at the caller's release for good.      *)
THEOREM OkIsLasting == Spec => []OkMeansUpgraded
<1>1. SchemaInv => OkMeansUpgraded
  BY DEF SchemaInv
<1> QED
  BY SchemaAlways, <1>1, PTL

(* No step of any release takes the committed schema back.                 *)
THEOREM SchemaOnlyGrows == Spec => NeverDowngraded
<1> DEFINE Grows == /\ version # None => version' # None /\ version' >= version
                    /\ tables \subseteq tables'
                    /\ RefreshTable \in tables => retired' \subseteq retired
<1>1. SchemaInv /\ [Next]_vars => [Grows]_vars
  <2> SUFFICES ASSUME SchemaInv, Next PROVE Grows
    OBVIOUS
  <2>1. version \in Nat \cup {None} /\ tables \subseteq Tables
    BY DEF SchemaInv, TypeOK
  <2>2. CASE UNCHANGED database
    BY <2>1, <2>2 DEF database
  <2>3. CASE \E c \in Callers : Commit(c) \/ CommitUnseen(c)
    <3>1. PICK c \in Callers : tx[c].pc = "step" /\ tx[c].seen >= Release[c] /\ Applied(c)
      BY <2>3 DEF Commit, CommitUnseen
    <3> QED
      BY <2>1, <3>1, CommitEffect, NoneAssumption
  <2> QED
    BY <2>2, <2>3 DEF Next, Call, Begin, Lock, CreateTables, Become, ReadVersion, InitVersion,
                      RunStep, RecordStep, Fail, Conflict
<1> QED
  BY SchemaAlways, <1>1, PTL DEF Spec, NeverDowngraded

(* The variables of the schema, of the open transactions and of the calls  *)
(* keep their types: no release reads or records a version that is not one. *)
THEOREM SchemaTypes == Spec => []TypeOK
<1>1. SchemaInv => TypeOK
  BY DEF SchemaInv
<1> QED
  BY SchemaAlways, <1>1, PTL
=============================================================================
