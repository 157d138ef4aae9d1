----------------------------- MODULE JwksCache ------------------------------
(***************************************************************************)
(* The cache of Google's signing keys (google.go: jwksCache).  Every login *)
(* asks key() for the key its ID token names; several logins do so at      *)
(* once, each fetching on its own, while Google rotates its keys and the   *)
(* endpoint may be unreachable.                                            *)
(*                                                                         *)
(* key() takes the mutex twice, so it is three steps: the look-up, Google's *)
(* answer to the fetch, and what is done with that answer.  A document is  *)
(* the set of its usable RSA signing keys and the lifetime fetch() gives   *)
(* it.                                                                     *)
(***************************************************************************)
EXTENDS Integers

CONSTANTS
    Reqs,            \* logins being verified
    Kids,            \* key IDs
    MaxAges,         \* max-age values Google may send, in seconds
    None,            \* no key ID, no max-age, no document
    MaxTime,         \* last instant of the clock (bound)
    minTTL, fallback, maxTTL, maxStaleJWKS,
    DurationLimit,   \* a time.Duration holds -DurationLimit .. DurationLimit - 1
    FetchTimeout     \* longest time from a fetch to the use of its answer

ASSUME TimesAssumption ==
    /\ MaxTime \in Nat /\ maxStaleJWKS \in Nat /\ FetchTimeout \in Nat
    /\ minTTL \in Nat /\ fallback \in Nat /\ maxTTL \in Nat
    /\ minTTL <= fallback /\ fallback <= maxTTL
    /\ DurationLimit \in Nat \ {0}
ASSUME KeysAssumption == MaxAges \subseteq Int /\ None \notin Kids \cup MaxAges

VARIABLES
    clock,
    published,   \* the keys in Google's document
    cache,       \* jwksCache.keys and expiresAt
    req,         \* request -> the locals of its call of key()
    lastOut      \* history: key -> last instant Google's document had it

vars == <<clock, published, cache, req, lastOut>>

Steps == {"idle", "look", "fetch", "answer", "accept", "unknown", "unreachable"}

(* `doc' is the answer to the fetch; `gap': history, whether the key was   *)
(* absent from Google's document at some time during the call.             *)
Idle == [pc |-> "idle", kid |-> None, hit |-> FALSE, expiresAt |-> 0, sent |-> 0,
         doc |-> None, at |-> 0, gap |-> FALSE]

NoKeys == [keys |-> {}, expiresAt |-> 0]

Init ==
    /\ clock = 0
    /\ published = Kids
    /\ cache = NoKeys
    /\ req = [r \in Reqs |-> Idle]
    /\ lastOut = [k \in Kids |-> 0]

-----------------------------------------------------------------------------
(* Variants named "...Slip" are plausible mistakes in the definition that  *)
(* follows them; no specification uses them.                               *)

Become(r, q) == req' = [req EXCEPT ![r] = q]

(* key() returns: the key, or one of its two errors.                       *)
Return(r, result) ==
    Become(r, [Idle EXCEPT !.pc = result, !.kid = req[r].kid, !.at = clock, !.gap = req[r].gap])

(* The look-up's result is kept while Google is asked.                     *)
Fetch(r) ==
    Become(r, [req[r] EXCEPT !.pc = "fetch", !.hit = req[r].kid \in cache.keys,
                             !.expiresAt = cache.expiresAt, !.sent = clock])

(* time.Duration(secs) * time.Second wraps around.                         *)
Duration(secs) == ((secs + DurationLimit) % (2 * DurationLimit)) - DurationLimit

(* Slip: the advertised lifetime is not clamped.                           *)
cacheTTLSlip(age) ==
    IF age = None THEN fallback ELSE IF age <= 0 THEN fallback ELSE Duration(age)

cacheTTL(age) ==
    IF age = None THEN fallback
    ELSE IF age <= 0 THEN fallback
    ELSE IF Duration(age) < minTTL THEN minTTL
    ELSE IF Duration(age) > maxTTL THEN maxTTL
    ELSE Duration(age)

(* A key named by an ID token is looked up.                                *)
Call(r, k) ==
    /\ req[r].pc = "idle"
    /\ Become(r, [Idle EXCEPT !.pc = "look", !.kid = k, !.gap = k \notin published])
    /\ UNCHANGED <<clock, published, cache, lastOut>>

(* Slip: an unknown key is refused without asking Google.                  *)
LookSlip(r) ==
    /\ req[r].pc = "look"
    /\ IF req[r].kid \notin cache.keys THEN Return(r, "unknown")
       ELSE IF clock < cache.expiresAt THEN Return(r, "accept")
       ELSE Fetch(r)
    /\ UNCHANGED <<clock, published, cache, lastOut>>

(* The cache is read under the mutex and judged after it is released; a    *)
(* token without a key ID is refused.                                      *)
Look(r) ==
    /\ req[r].pc = "look"
    /\ IF req[r].kid = None THEN Return(r, "unknown")
       ELSE IF req[r].kid \in cache.keys /\ clock < cache.expiresAt THEN Return(r, "accept")
       ELSE Fetch(r)
    /\ UNCHANGED <<clock, published, cache, lastOut>>

(* Google answers the fetch with its document of this instant.             *)
Serve(r, age) ==
    /\ req[r].pc = "fetch"
    /\ published # {}
    /\ Become(r, [req[r] EXCEPT !.pc = "answer",
                    !.doc = [keys |-> published, ttl |-> cacheTTL(age)]])
    /\ UNCHANGED <<clock, published, cache, lastOut>>

(* Slip: a key known once is used for as long as the outage lasts.         *)
FetchFailsSlip(r) ==
    /\ req[r].pc \in {"fetch", "answer"}
    /\ Return(r, IF req[r].hit THEN "accept" ELSE "unreachable")
    /\ UNCHANGED <<clock, published, cache, lastOut>>

(* No answer, not in time, or not one with a usable key: the key found by  *)
(* the look-up is used for maxStaleJWKS past its expiry.                   *)
FetchFails(r) ==
    /\ req[r].pc \in {"fetch", "answer"}
    /\ Return(r, IF req[r].hit /\ clock < req[r].expiresAt + maxStaleJWKS
                 THEN "accept" ELSE "unreachable")
    /\ UNCHANGED <<clock, published, cache, lastOut>>

(* The document replaces the cached one, whichever is newer.               *)
Install(r) ==
    LET doc == req[r].doc IN
    /\ req[r].pc = "answer"
    /\ cache' = [keys |-> doc.keys, expiresAt |-> clock + doc.ttl]
    /\ Return(r, IF req[r].kid \in doc.keys THEN "accept" ELSE "unknown")
    /\ UNCHANGED <<clock, published, lastOut>>

(* verifyGoogleIDToken goes on with the key or the error.                  *)
Done(r) ==
    /\ req[r].pc \in {"accept", "unknown", "unreachable"}
    /\ Become(r, Idle)
    /\ UNCHANGED <<clock, published, cache, lastOut>>

-----------------------------------------------------------------------------
(* The environment.                                                        *)

(* Google changes its document.                                            *)
Rotate(keys) ==
    /\ published' = keys
    /\ lastOut' = [k \in Kids |-> IF k \in keys THEN clock ELSE lastOut[k]]
    /\ req' = [r \in Reqs |-> 
                 IF req[r].pc = "idle" THEN Idle
                 ELSE [req[r] EXCEPT !.gap = req[r].gap \/ req[r].kid \notin keys]]
    /\ UNCHANGED <<clock, cache>>

(* A new process starts with an empty cache.                               *)
Restart ==
    /\ cache' = NoKeys
    /\ req' = [r \in Reqs |-> Idle]
    /\ UNCHANGED <<clock, published, lastOut>>

(* The HTTP client gives up on a fetch that lasts FetchTimeout.            *)
Tick ==
    /\ clock < MaxTime
    /\ \A r \in Reqs : req[r].pc \in {"fetch", "answer"} => clock < req[r].sent + FetchTimeout
    /\ clock' = clock + 1
    /\ lastOut' = [k \in Kids |-> IF k \in published THEN clock + 1 ELSE lastOut[k]]
    /\ UNCHANGED <<published, cache, req>>

key(r) ==
    \/ Look(r)
    \/ \E age \in MaxAges \cup {None} : Serve(r, age)
    \/ FetchFails(r)
    \/ Install(r)

Next ==
    \/ \E r \in Reqs :
         \/ \E k \in Kids \cup {None} : Call(r, k)
         \/ key(r)
         \/ Done(r)
    \/ \E keys \in SUBSET Kids : Rotate(keys)
    \/ Restart
    \/ Tick

Spec == Init /\ [][Next]_vars

-----------------------------------------------------------------------------
(* Properties.                                                             *)

Document == [keys : SUBSET Kids, ttl : minTTL..maxTTL]

Local == [pc : Steps, kid : Kids \cup {None}, hit : BOOLEAN, expiresAt : Nat, sent : Nat,
          doc : Document \cup {None}, at : Nat, gap : BOOLEAN]

(* The variables have their types; a lifetime is within the clamp,         *)
(* whatever max-age says, and none ends before the clock started.          *)
TypeOK ==
    /\ clock \in Nat
    /\ published \subseteq Kids
    /\ cache \in [keys : SUBSET Kids, expiresAt : Nat]
    /\ req \in [Reqs -> Local]
    /\ lastOut \in [Kids -> Nat]

(* The longest a key stays usable after the last document that had it.     *)
Lifetime == FetchTimeout + maxTTL + maxStaleJWKS

(* A key Google has withdrawn authenticates nobody once Lifetime is over,  *)
(* however long the endpoint is unreachable, whatever lifetime it          *)
(* advertised and in whatever order concurrent fetches install their       *)
(* documents (key's two checks, cacheTTL's clamp).                         *)
WithdrawnKeysDie ==
    \A r \in Reqs : req[r].pc = "accept" => req[r].at <= lastOut[req[r].kid] + Lifetime

(* A login is told its key is unknown only when Google's document lacked   *)
(* that key at some time during the login (key's second lookup).  It may   *)
(* still be refused as unreachable, when another login installs an older   *)
(* document late and the fetch that would correct it fails.                *)
RefusalsAreJustified ==
    \A r \in Reqs : req[r].pc = "unknown" => req[r].gap
=============================================================================
