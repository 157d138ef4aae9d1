--------------------------- MODULE RefreshSession ---------------------------
(***************************************************************************)
(* The refresh grant implements Session: a family is a session.            *)
(***************************************************************************)
EXTENDS RefreshGrant

HandedOut(f) == {t \in issued : lineage[t].family = f}

(* The tokens of a family that a client holds and that would be rotated.   *)
Usable(f) == {t \in HandedOut(f) : rows[t] # None /\ rows[t].consumed = 0}

(* A family is over when the store has none of the tokens handed out.      *)
Over(f) == HandedOut(f) # {} /\ \A t \in HandedOut(f) : rows[t] = None

sessionPhase ==
    [f \in Families |->
       CASE HandedOut(f) = {} -> "unborn"
         [] Over(f) -> "over"
         [] Usable(f) # {} -> "held"
         [] OTHER -> "spent"]

sessionUsed == {t \in issued : spentAt[t] # 0 /\ lineage[t].family \in Families}

S == INSTANCE Session WITH
       Sessions <- Families, phase <- sessionPhase, current <- [f \in Families |-> Usable(f)], used <- sessionUsed

(* With a store whose revocation is atomic, duplicates, retries, reuse,    *)
(* failed calls, restarts and purges look from outside like a session that *)
(* is opened once, has one working token at a time, and ends for good.     *)
ImplementsSession == S!Spec
=============================================================================
