---------------------------- MODULE LoginConsent ----------------------------
(***************************************************************************)
(* The login flow implements Consent: a binder is a flow.                  *)
(***************************************************************************)
EXTENDS LoginFlow

(* What carries a binder on the way from its consent page to its code: a   *)
(* pending record, a request between two Store calls, a code.              *)
Stored(h, x) == pending[h] # None /\ pending[h].binder = x
Flies(r, x) == req[r].pc \in {"restate", "code"} /\ req[r].rec.binder = x
Minted(k, x) == k \in drawn /\ mintedFor[k].binder = x

(* How far the flow of x has come, as the tables and the requests in       *)
(* flight show it.                                                         *)
Asked(x) ==
    \/ \E h \in Handles : Stored(h, x) /\ ~pending[h].approved
    \/ \E r \in Reqs : Flies(r, x) /\ req[r].pc = "restate"

Agreed(x) ==
    \/ \E h \in Handles : Stored(h, x) /\ pending[h].approved
    \/ \E r \in Reqs : Flies(r, x) /\ req[r].pc = "code"

Issued(x) == \E k \in Codes : Minted(k, x) /\ codes[k] # None

Redeemed(x) == \E k \in Codes : Minted(k, x) /\ granted[k] # <<>>

flowPhase ==
    [x \in Binders |->
       IF consents[x] = None THEN "unborn"
       ELSE IF Asked(x) THEN "asked"
       ELSE IF Agreed(x) THEN "approved"
       ELSE IF Issued(x) THEN "issued"
       ELSE IF Redeemed(x) THEN "granted"
       ELSE "over"]

flowAccounts ==
    [x \in Binders |-> {b \in Browsers : \E k \in Codes : Minted(k, x) /\ mintedFor[k].browser = b}]

flowTerms ==
    [x \in Binders |->
       {a \in Ask : \E k \in Codes : Minted(k, x) /\ \E i \in 1..Len(granted[k]) : granted[k][i] = a}]

C == INSTANCE Consent WITH
       Flows <- Binders, Pages <- Page, phase <- flowPhase, page <- consents,
       approvers <- [x \in Binders |-> {approvedBy[x]} \ {None}],
       accounts <- flowAccounts, terms <- flowTerms

(* Replayed and stolen handles, overlapping requests, failed calls,        *)
(* purges and restarts look from outside like a login that goes forward    *)
(* only, in the hands of the person who was asked, and once it is over     *)
(* never comes back: ConsumePendingAuth and ConsumeAuthCode burn what they *)
(* return.                                                                 *)
ImplementsConsent == C!Spec
=============================================================================
