---------------------------- MODULE MCVerifyStore ----------------------------
(* VerifyStore for TLC.                                                    *)
EXTENDS VerifyStore, TLC

(* Stores with a defect no check looks at, or one found only by luck.      *)
Unprobed ==
    {<<t, "CreatedAt">> : t \in DOMAIN Columns}
      \cup {<<"purgeSkipsCodes">>, <<"purgeSkipsTokens">>, <<"selectThenUpdate">>}

EveryStore == Probed \cup Unprobed \cup {<<"none">>}

SkipsTokens == {<<"purgeSkipsTokens">>}

(* Failures are explored on a compliant Store that only inserts tokens     *)
(* (pgstore), in calls that leave canaries behind when they fail.          *)
FailsOnPgstore ==
    Verifiers \X {[defect |-> <<"none">>, insertOnly |-> TRUE]}
      \X {"saveRefresh", "revoke", "saveAtomic", "race", "expireClient", "readAtomic", "purge"}
NoFailures == {}

Symmetry == Permutations(Verifiers) \cup Permutations(Racers)
=============================================================================
