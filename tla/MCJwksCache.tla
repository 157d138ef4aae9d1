---------------------------- MODULE MCJwksCache -----------------------------
(***************************************************************************)
(* JwksCache for TLC: the values of max-age and the symmetry of its sets.  *)
(***************************************************************************)
EXTENDS JwksCache, TLC

(* Zero, above maxTTL, and large enough to wrap around with DurationLimit  *)
(* = 8.                                                                    *)
Ages == {0, 5, 12}

Symmetry == Permutations(Reqs) \cup Permutations(Kids)
=============================================================================
