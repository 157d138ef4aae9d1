--------------------------- MODULE MCEnsureSchema ---------------------------
(* EnsureSchema for TLC: two instances of one release and one of the next. *)
EXTENDS EnsureSchema

RollingDeploy == [c \in Callers |-> IF c = 3 THEN 2 ELSE 1]
=============================================================================
