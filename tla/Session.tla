------------------------------ MODULE Session ------------------------------
(***************************************************************************)
(* What the refresh grant promises about a login, whatever happens below:  *)
(* nothing is said of requests, instances, caches or rows.                 *)
(*                                                                         *)
(* A session is opened once.  While it lasts it has one refresh token that *)
(* works; using that token ends its life and buys at most one new one.     *)
(* A session that is over stays over, and no token works twice.            *)
(***************************************************************************)
CONSTANTS Sessions, Tokens

VARIABLES
    phase,    \* session -> how far it has come
    current,  \* session -> its tokens that work
    used      \* tokens that have been used

vars == <<phase, current, used>>

Init ==
    /\ phase = [f \in Sessions |-> "unborn"]
    /\ current = [f \in Sessions |-> {}]
    /\ used = {}

Fresh(t) == t \notin used /\ \A f \in Sessions : t \notin current[f]

(* A session in phase p gets a token that works.                           *)
HandOut(f, p) ==
    /\ phase[f] = p
    /\ \E t \in Tokens : Fresh(t) /\ current' = [current EXCEPT ![f] = {t}]
    /\ phase' = [phase EXCEPT ![f] = "held"]
    /\ UNCHANGED used

Open(f) == HandOut(f, "unborn")

Renew(f) == HandOut(f, "spent")

Spend(f) ==
    /\ phase[f] = "held"
    /\ phase' = [phase EXCEPT ![f] = "spent"]
    /\ current' = [current EXCEPT ![f] = {}]
    /\ used' = used \cup current[f]

(* Sessions end: by reuse, by the absolute lifetime, by a logout.          *)
End(F) ==
    /\ phase' = [f \in Sessions |-> IF f \in F THEN "over" ELSE phase[f]]
    /\ current' = [f \in Sessions |-> IF f \in F THEN {} ELSE current[f]]
    /\ UNCHANGED used

Next ==
    \/ \E f \in Sessions : Open(f) \/ Renew(f) \/ Spend(f)
    \/ \E F \in SUBSET Sessions : End(F)

Spec == Init /\ [][Next]_vars
=============================================================================
