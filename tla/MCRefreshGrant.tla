--------------------------- MODULE MCRefreshGrant ---------------------------
(* Small instances of RefreshGrant for TLC.                                *)
EXTENDS RefreshSession, TLC

(* Clocks that agree, and a second node that is one instant ahead.         *)
NoSkew == [n \in Nodes |-> 0]
SecondAhead == [n \in Nodes |-> n - 1]

(* Sound where no LegacyTokens are singled out and no liveness is checked. *)
Symmetry == Permutations(Reqs) \cup Permutations(Tokens)
=============================================================================
