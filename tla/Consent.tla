------------------------------ MODULE Consent ------------------------------
(***************************************************************************)
(* What the authorization endpoints promise about a login, whatever        *)
(* happens below: nothing is said of handles, cookies, records, requests   *)
(* or browsers that present what is not theirs.                            *)
(*                                                                         *)
(* A flow begins with a page that is shown to one browser and names what   *)
(* is asked for.  It goes forward only: the person the page was shown to   *)
(* approves it, a code is issued for that person's account, and the code   *)
(* buys tokens on the terms of the page, each of them once.  A flow may    *)
(* end anywhere on the way, and then it is over for good.                  *)
(***************************************************************************)
CONSTANTS Flows, Pages, None

VARIABLES
    phase,      \* flow -> how far it has come
    page,       \* flow -> the page its user was shown: [browser, ask, ...]
    approvers,  \* flow -> the browsers that approved it
    accounts,   \* flow -> the accounts codes were issued for
    terms       \* flow -> the terms tokens were granted on

vars == <<phase, page, approvers, accounts, terms>>

Nothing == [x \in Flows |-> {}]

Init ==
    /\ phase = [x \in Flows |-> "unborn"]
    /\ page = [x \in Flows |-> None]
    /\ approvers = Nothing /\ accounts = Nothing /\ terms = Nothing

Advance(x, from, to) ==
    /\ phase[x] = from
    /\ phase' = [phase EXCEPT ![x] = to]

Open(x) ==
    /\ Advance(x, "unborn", "asked")
    /\ page'[x] \in Pages /\ page' = [page EXCEPT ![x] = page'[x]]
    /\ UNCHANGED <<approvers, accounts, terms>>

Approve(x) ==
    /\ Advance(x, "asked", "approved")
    /\ approvers' = [approvers EXCEPT ![x] = {page[x].browser}]
    /\ UNCHANGED <<page, accounts, terms>>

Issue(x) ==
    /\ Advance(x, "approved", "issued")
    /\ accounts' = [accounts EXCEPT ![x] = {page[x].browser}]
    /\ UNCHANGED <<page, approvers, terms>>

Grant(x) ==
    /\ Advance(x, "issued", "granted")
    /\ terms' = [terms EXCEPT ![x] = {page[x].ask}]
    /\ UNCHANGED <<page, approvers, accounts>>

(* Flows end: refused, expired, or lost with a request.                    *)
End(F) ==
    /\ \A x \in F : phase[x] \in {"asked", "approved", "issued"}
    /\ phase' = [x \in Flows |-> IF x \in F THEN "over" ELSE phase[x]]
    /\ UNCHANGED <<page, approvers, accounts, terms>>

Next ==
    \/ \E x \in Flows : Open(x) \/ Approve(x) \/ Issue(x) \/ Grant(x)
    \/ \E F \in SUBSET Flows : End(F)

Spec == Init /\ [][Next]_vars
=============================================================================
