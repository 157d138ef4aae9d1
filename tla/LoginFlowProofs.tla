--------------------------- MODULE LoginFlowProofs --------------------------
(***************************************************************************)
(* Proofs about LoginFlow, for every number of browsers, requests,         *)
(* clients, URIs, challenges and secrets and every setting of the          *)
(* lifetimes: who gets a code, how often, on which terms and where it      *)
(* goes, which flows a browser keeps, and that it all implements Consent.  *)
(***************************************************************************)
EXTENDS LoginConsent, FiniteSetTheorems, SequenceTheorems, TLAPS

Client == [uris : SUBSET Uris, expires : Nat]
Pending == [ask : Ask, binder : Binders, approved : BOOLEAN, expires : Nat]
AuthCode == [ask : Ask, user : Browsers, expires : Nat]
Mint == [browser : Browsers, binder : Binders]

Local == [pc : Steps, browser : Browsers \cup {None}, cookie : Seq(Binders),
          handle : Handles \cup Codes \cup {None}, ask : Ask \cup {None},
          rec : Pending \cup {None}, at : Nat, lease : Client \cup {None},
          set : Seq(Binders) \cup {None}, gives : Handles \cup Codes \cup {None}]

(* The types of the tables, the browsers, the requests and the history.    *)
TablesOK ==
    /\ clock \in Nat /\ lastPurge \in Nat /\ allowed \in AllowLists
    /\ clients \in [Clients -> Client \cup {None}]
    /\ pending \in [Handles -> Pending \cup {None}]
    /\ codes \in [Codes -> AuthCode \cup {None}]
    /\ cookie \in [Browsers -> [values : Seq(Binders), until : Nat]]
    /\ req \in [Reqs -> Local]
    /\ drawn \subseteq Handles \cup Binders \cup Codes
    /\ out \subseteq drawn /\ known \subseteq Clients
    /\ consents \in [Binders -> Page \cup {None}]
    /\ approvedBy \in [Binders -> Browsers \cup {None}]
    /\ mintedFor \in [Codes -> Mint \cup {None}]
    /\ granted \in [Codes -> Seq(Ask)]

(* A URI that Register accepts, and one that a page may name.              *)
SafeURI(u) ==
    /\ u.scheme = "https" \/ (u.scheme = "http" /\ u.host \in LoopbackHosts)
    /\ ~u.fragment /\ ~u.userinfo

SafePage(page) ==
    /\ SafeURI(page.ask.uri)
    /\ page.allowed = {} \/ page.ask.uri.host \in page.allowed \/ page.ask.uri.scheme = "http"

SafeClient(c) == c \in Client /\ \A u \in c.uris : SafeURI(u)

(* The binders of a cookie belong to pages its browser was shown, and no   *)
(* binder is there twice.                                                  *)
Own(values, b) ==
    /\ values \in Seq(Binders) /\ Len(values) <= maxBinders
    /\ \A i \in 1..Len(values) : values[i] \in drawn /\ consents[values[i]].browser = b
    /\ \A i, j \in 1..Len(values) : values[i] = values[j] => i = j

(* A pending record is on the terms of its consent page, and is approved   *)
(* only by the browser that was shown the page.                            *)
RecordOK(p) ==
    /\ p \in Pending /\ p.binder \in drawn
    /\ p.ask = consents[p.binder].ask
    /\ p.approved => approvedBy[p.binder] = consents[p.binder].browser

Asking == {"load", "claim", "sweep", "pend", "redeem"}
Checked == {"claim", "sweep", "pend"}
Holding == {"restate", "code", "extend", "renew"}

(* What the locals q of a request hold at each step.                       *)
LocalOK(q) ==
    /\ q.pc \notin {"idle", "redeem"} => q.browser \in Browsers
    /\ Own(q.cookie, q.browser)
    /\ q.set # None => Own(q.set, q.browser)
    /\ q.gives # None => q.gives \in drawn
    /\ q.pc \in Asking => q.ask \in Ask
    /\ q.pc \in Checked => SafeURI(q.ask.uri) /\ checkRedirectHostPolicy(q.ask.uri)
    /\ q.pc \in {"approve", "callback"} => q.handle \in Handles
    /\ q.pc = "redeem" => q.handle \in Codes /\ q.handle \in drawn
    /\ q.pc \in Holding => RecordOK(q.rec) /\ consents[q.rec.binder].browser = q.browser
    /\ q.pc \in Holding \ {"restate"} => q.rec.approved
    /\ q.pc = "renew" => SafeClient(q.lease)

LocalsOK == \A r \in Reqs : LocalOK(req[r])

ClientsOK == \A c \in Clients : clients[c] # None => SafeClient(clients[c])

RecordsOK == \A h \in Handles : pending[h] # None => h \in drawn /\ RecordOK(pending[h])

CookiesOK == \A b \in Browsers : Own(cookie[b].values, b)

(* Only drawn binders have pages, and a page names a safe URI.             *)
PagesOK ==
    \A x \in Binders :
      /\ x \in drawn => consents[x] \in Page /\ SafePage(consents[x])
      /\ x \notin drawn => consents[x] = None /\ approvedBy[x] = None

(* A code was minted for a page that its browser opened and approved; it   *)
(* is redeemed once, on the terms of the page.                             *)
CodeOK(k) ==
    /\ k \in drawn =>
         LET m == mintedFor[k] IN
         /\ m \in Mint /\ m.binder \in drawn
         /\ consents[m.binder].browser = m.browser /\ approvedBy[m.binder] = m.browser
         /\ \A i \in 1..Len(granted[k]) : granted[k][i] = consents[m.binder].ask
         /\ Len(granted[k]) <= 1
         /\ codes[k] # None => codes[k].ask = consents[m.binder].ask /\ granted[k] = <<>>
    /\ k \notin drawn => mintedFor[k] = None /\ granted[k] = <<>> /\ codes[k] = None

CodesOK == \A k \in Codes : CodeOK(k)

LoginInv ==
    TablesOK /\ LocalsOK /\ ClientsOK /\ RecordsOK /\ CookiesOK /\ PagesOK /\ CodesOK

(* One record, request or code at a time carries a binder.                 *)
CarriedOnce(x) ==
    /\ \A g, h \in Handles : Stored(g, x) /\ Stored(h, x) => g = h
    /\ \A r, o \in Reqs : Flies(r, x) /\ Flies(o, x) => r = o
    /\ \A j, k \in Codes : Minted(j, x) /\ Minted(k, x) => j = k
    /\ \A h \in Handles, r \in Reqs : ~(Stored(h, x) /\ Flies(r, x))
    /\ \A h \in Handles, k \in Codes : ~(Stored(h, x) /\ Minted(k, x))
    /\ \A r \in Reqs, k \in Codes : ~(Flies(r, x) /\ Minted(k, x))

OneCarrier == \A x \in Binders : CarriedOnce(x)

-----------------------------------------------------------------------------
(* The cookie.                                                             *)

Prepended(w, values, x) ==
    /\ w \in Seq(Binders) /\ Len(w) <= maxBinders
    /\ Len(w) = IF Len(values) < maxBinders THEN Len(values) + 1 ELSE maxBinders
    /\ \A i \in 1..Len(w) : IF i = 1 THEN w[i] = x
                            ELSE i - 1 \in 1..Len(values) /\ w[i] = values[i - 1]

(* addBinder puts the new binder in front and keeps the cookie's length    *)
(* within maxBinders.                                                      *)
LEMMA AddShape ==
    ASSUME NEW values \in Seq(Binders), Len(values) <= maxBinders, NEW x \in Binders,
           NEW w, w = addBinder(values, x)
    PROVE  Prepended(w, values, x)
<1> DEFINE v == <<x>> \o values
           n == IF Len(values) < maxBinders THEN Len(values) + 1 ELSE maxBinders
<1>1. Len(values) \in Nat /\ maxBinders \in Nat \ {0}
  BY LenProperties, TimesAssumption
<1>2. <<x>> \in Seq(Binders) /\ Len(<<x>>) = 1 /\ <<x>>[1] = x
  OBVIOUS
<1>3. /\ v \in Seq(Binders) /\ Len(v) = 1 + Len(values)
      /\ \A i \in 1..Len(v) : v[i] = IF i <= 1 THEN <<x>>[i] ELSE values[i - 1]
  BY <1>2, ConcatProperties
<1>4. n \in Nat \ {0} /\ n <= Len(v) /\ n <= maxBinders
  BY <1>1, <1>3
<1>5. w = SubSeq(v, 1, n)
  BY DEF addBinder
<1>6. \A i \in 1..n : v[i] \in Binders
  BY <1>1, <1>3, <1>4, ElementOfSeq
<1> HIDE DEF v, n
<1>7. /\ w \in Seq(Binders) /\ Len(w) = n
      /\ \A i \in 1..n : w[i] = v[i]
  <2>1. n \in Int /\ 1 \in Int /\ 1 <= n
    BY <1>4
  <2>2. /\ SubSeq(v, 1, n) \in Seq(Binders)
        /\ Len(SubSeq(v, 1, n)) = IF 1 <= n THEN n - 1 + 1 ELSE 0
        /\ \A i \in 1..n - 1 + 1 : SubSeq(v, 1, n)[i] = v[1 + i - 1]
    BY <1>6, <2>1, SubSeqProperties
  <2> QED BY <1>4, <1>5, <2>2
<1>8. Len(w) = IF Len(values) < maxBinders THEN Len(values) + 1 ELSE maxBinders
  BY <1>7 DEF n
<1> QED BY <1>1, <1>2, <1>3, <1>4, <1>7, <1>8 DEF Prepended

(* dropBinder leaves the other binders, in their order.                    *)
LEMMA DropShape ==
    ASSUME NEW values \in Seq(Binders), NEW x, NEW w, w = dropBinder(values, x)
    PROVE  \/ w = values /\ \A i \in 1..Len(values) : values[i] # x
           \/ \E k \in 1..Len(values) :
                /\ values[k] = x
                /\ w \in Seq(Binders) /\ Len(w) = Len(values) - 1
                /\ \A i \in 1..Len(w) : w[i] = values[IF i < k THEN i ELSE i + 1]
<1> DEFINE At == {i \in 1..Len(values) : values[i] = x}
<1>1. CASE At = {}
  BY <1>1 DEF dropBinder
<1>2. CASE At # {}
  <2> DEFINE k == CHOOSE j \in At : TRUE
             a == SubSeq(values, 1, k - 1)
             b == SubSeq(values, k + 1, Len(values))
  <2>1. k \in At
    BY <1>2
  <2>2. Len(values) \in Nat /\ k \in 1..Len(values) /\ values[k] = x
    BY <2>1, LenProperties
  <2>3. w = a \o b
    BY <1>2 DEF dropBinder
  <2> HIDE DEF k
  <2>4. \A i \in 1..Len(values) : values[i] \in Binders
    BY ElementOfSeq
  <2>5. /\ a \in Seq(Binders) /\ Len(a) = k - 1
        /\ \A i \in 1..k - 1 : a[i] = values[i]
    <3>1. \A i \in 1..k - 1 : values[i] \in Binders
      BY <2>2, <2>4
    <3>2. k - 1 \in Int /\ 1 \in Int
      BY <2>2
    <3>3. /\ a \in Seq(Binders)
          /\ Len(a) = IF 1 <= k - 1 THEN k - 1 - 1 + 1 ELSE 0
          /\ \A i \in 1..k - 1 - 1 + 1 : a[i] = values[1 + i - 1]
      BY <3>1, <3>2, SubSeqProperties
    <3> QED BY <2>2, <3>3
  <2>6. /\ b \in Seq(Binders) /\ Len(b) = Len(values) - k
        /\ \A i \in 1..Len(values) - k : b[i] = values[k + i]
    <3>1. \A i \in k + 1..Len(values) : values[i] \in Binders
      BY <2>2, <2>4
    <3>2. k + 1 \in Int /\ Len(values) \in Int
      BY <2>2
    <3>3. /\ b \in Seq(Binders)
          /\ Len(b) = IF k + 1 <= Len(values) THEN Len(values) - (k + 1) + 1 ELSE 0
          /\ \A i \in 1..Len(values) - (k + 1) + 1 : b[i] = values[k + 1 + i - 1]
      BY <3>1, <3>2, SubSeqProperties
    <3> QED BY <2>2, <3>3
  <2> HIDE DEF a, b
  <2>7. /\ w \in Seq(Binders) /\ Len(w) = Len(a) + Len(b)
        /\ \A i \in 1..Len(a) + Len(b) : w[i] = IF i <= Len(a) THEN a[i] ELSE b[i - Len(a)]
    <3>1. a \in Seq(Binders) /\ b \in Seq(Binders)
      BY <2>5, <2>6
    <3>2. /\ a \o b \in Seq(Binders) /\ Len(a \o b) = Len(a) + Len(b)
          /\ \A i \in 1..Len(a) + Len(b) :
               (a \o b)[i] = IF i <= Len(a) THEN a[i] ELSE b[i - Len(a)]
      BY <3>1, ConcatProperties
    <3> QED BY <2>3, <3>2
  <2>8. Len(w) = Len(values) - 1
    BY <2>2, <2>5, <2>6, <2>7
  <2>9. ASSUME NEW i \in 1..Len(w)
        PROVE  w[i] = values[IF i < k THEN i ELSE i + 1]
    <3>1. i \in 1..Len(a) + Len(b) /\ i \in Nat /\ k \in Nat
      BY <2>2, <2>7, <2>9, LenProperties
    <3>2. CASE i < k
      <4>1. i <= Len(a) /\ i \in 1..k - 1
        BY <2>2, <2>5, <3>1, <3>2
      <4> QED BY <2>5, <2>7, <3>1, <3>2, <4>1
    <3>3. CASE ~(i < k)
      <4>1. ~(i <= Len(a)) /\ i - Len(a) \in 1..Len(values) - k /\ k + (i - Len(a)) = i + 1
        BY <2>2, <2>5, <2>6, <3>1, <3>3
      <4>2. w[i] = b[i - Len(a)]
        BY <2>7, <3>1, <4>1
      <4> QED BY <2>6, <3>3, <4>1, <4>2
    <3> QED BY <3>2, <3>3
  <2> QED BY <2>2, <2>7, <2>8, <2>9
<1> QED BY <1>1, <1>2

LEMMA EmptyOwn == ASSUME NEW b PROVE Own(<<>>, b)
BY EmptySeq, TimesAssumption DEF Own

(* A cookie that lost a binder is still its browser's, and the binder is   *)
(* gone: dropping one occurrence drops them all.                           *)
LEMMA DropOwn ==
    ASSUME NEW values, NEW b, Own(values, b), NEW x
    PROVE  /\ Own(dropBinder(values, x), b)
           /\ ~binderMatches(dropBinder(values, x), x)
<1> PICK w : w = dropBinder(values, x)
  OBVIOUS
<1>1. values \in Seq(Binders) /\ Len(values) \in Nat /\ Len(values) <= maxBinders
  BY LenProperties DEF Own
<1>2. CASE w = values /\ \A i \in 1..Len(values) : values[i] # x
  BY <1>2 DEF binderMatches
<1>3. ASSUME NEW k \in 1..Len(values), values[k] = x,
             w \in Seq(Binders), Len(w) = Len(values) - 1,
             \A i \in 1..Len(w) : w[i] = values[IF i < k THEN i ELSE i + 1]
      PROVE  Own(w, b) /\ ~binderMatches(w, x)
  <2>1. ASSUME NEW i \in 1..Len(w)
        PROVE  \E j \in 1..Len(values) : /\ w[i] = values[j] /\ j # k
                                         /\ j = IF i < k THEN i ELSE i + 1
    BY <1>1, <1>3
  <2>2. \A i, j \in 1..Len(w) : w[i] = w[j] => i = j
    <3> SUFFICES ASSUME NEW i \in 1..Len(w), NEW j \in 1..Len(w), w[i] = w[j] PROVE i = j
      OBVIOUS
    <3>1. PICK m \in 1..Len(values) : w[i] = values[m] /\ m # k /\ m = IF i < k THEN i ELSE i + 1
      BY <2>1
    <3>2. PICK n \in 1..Len(values) : w[j] = values[n] /\ n # k /\ n = IF j < k THEN j ELSE j + 1
      BY <2>1
    <3>3. m = n
      BY <3>1, <3>2 DEF Own
    <3> QED BY <1>1, <3>1, <3>2, <3>3
  <2>3. \A i \in 1..Len(w) : w[i] \in drawn /\ consents[w[i]].browser = b
    BY <2>1 DEF Own
  <2>4. ~binderMatches(w, x)
    BY <1>3, <2>1 DEF Own, binderMatches
  <2>5. Len(w) <= maxBinders
    BY <1>1, <1>3, TimesAssumption
  <2> QED BY <1>3, <2>2, <2>3, <2>4, <2>5 DEF Own
<1> QED BY <1>1, <1>2, <1>3, DropShape

-----------------------------------------------------------------------------
(* What a step leaves true.                                                *)

(* Secrets are only ever added, a page stays as it was shown, and a page   *)
(* its own browser approved stays approved by it.                          *)
Grows ==
    /\ drawn \subseteq drawn'
    /\ \A x \in Binders \cap drawn :
         /\ consents'[x] = consents[x]
         /\ approvedBy[x] = consents[x].browser => approvedBy'[x] = approvedBy[x]

LEMMA OwnStays == ASSUME NEW values, NEW b, Own(values, b), Grows PROVE Own(values, b)'
<1>1. \A i \in 1..Len(values) : values[i] \in Binders
  BY ElementOfSeq DEF Own
<1> QED BY <1>1 DEF Own, Grows

LEMMA RecordStays == ASSUME NEW p, RecordOK(p), Grows PROVE RecordOK(p)'
BY DEF RecordOK, Grows, Pending

LEMMA LocalStays ==
    ASSUME NEW q, LocalOK(q), Grows, allowed' = allowed
    PROVE  LocalOK(q)'
<1>1. Own(q.cookie, q.browser)' /\ (q.set # None => Own(q.set, q.browser)')
  BY OwnStays DEF LocalOK
<1>2. q.pc \in Holding => RecordOK(q.rec)' /\ (consents[q.rec.binder].browser = q.browser)'
  BY RecordStays DEF LocalOK, Grows, RecordOK, Pending
<1>3. q.gives # None => q.gives \in drawn'
  BY DEF LocalOK, Grows
<1>4. q.pc = "redeem" => q.handle \in drawn'
  BY DEF LocalOK, Grows
<1>5. q.pc \in Checked => (SafeURI(q.ask.uri) /\ checkRedirectHostPolicy(q.ask.uri))'
  BY DEF LocalOK, SafeURI, checkRedirectHostPolicy
<1> QED BY <1>1, <1>2, <1>3, <1>4, <1>5 DEF LocalOK, SafeClient, SafeURI

(* A request's new locals, and everyone else's old ones.                   *)
LEMMA BecomeOK ==
    ASSUME req \in [Reqs -> Local], LocalsOK, Grows, allowed' = allowed,
           NEW r \in Reqs, NEW q \in Local, Become(r, q), LocalOK(q)'
    PROVE  req' \in [Reqs -> Local] /\ LocalsOK'
<1>1. req' = [req EXCEPT ![r] = q]
  BY DEF Become
<1>2. req' \in [Reqs -> Local] /\ req'[r] = q /\ \A o \in Reqs : o # r => req'[o] = req[o]
  BY <1>1
<1>3. ASSUME NEW o \in Reqs PROVE LocalOK(req[o])'
  <2>1. PICK l : l = req[o]
    OBVIOUS
  <2>2. LocalOK(l)'
    BY <2>1, LocalStays DEF LocalsOK
  <2>3. CASE o = r
    BY <1>2, <2>3 DEF LocalOK
  <2>4. CASE o # r
    <3>1. req'[o] = l
      BY <1>2, <2>1, <2>4
    <3> QED BY <2>2, <3>1 DEF LocalOK
  <2> QED BY <2>3, <2>4
<1> QED BY <1>2, <1>3 DEF LocalsOK

LEMMA LocalsStay ==
    ASSUME LocalsOK, Grows, allowed' = allowed, req' = req PROVE LocalsOK'
<1> SUFFICES ASSUME NEW r \in Reqs PROVE LocalOK(req[r])'
  BY DEF LocalsOK
<1>1. PICK q : q = req[r] /\ q = req'[r]
  OBVIOUS
<1>2. LocalOK(q)'
  BY <1>1, LocalStays DEF LocalsOK
<1> QED BY <1>1, <1>2 DEF LocalOK

LEMMA IdleOK == Idle \in Local /\ LocalOK(Idle)
<1>1. Idle \in Local
  BY EmptySeq DEF Idle, Local, Steps
<1>2. Own(Idle.cookie, Idle.browser)
  BY EmptyOwn DEF Idle
<1> QED BY <1>1, <1>2 DEF Idle, LocalOK, Asking, Checked, Holding

(* A table that only lost entries.                                         *)
Shrinks(new, old) ==
    /\ new = [k \in DOMAIN old |-> new[k]]
    /\ \A k \in DOMAIN old : new[k] = old[k] \/ new[k] = None

LEMMA ShrunkTable ==
    ASSUME NEW S, NEW T, NEW old \in [S -> T \cup {None}], NEW new, Shrinks(new, old)
    PROVE  new \in [S -> T \cup {None}] /\ \A k \in S : new[k] = old[k] \/ new[k] = None
BY DEF Shrinks

LEMMA SameShrinks ==
    ASSUME NEW S, NEW T, NEW old \in [S -> T] PROVE Shrinks(old, old)
BY DEF Shrinks

LEMMA UnexpiredShrinks ==
    ASSUME NEW S, NEW T, NEW old \in [S -> T], NEW now PROVE Shrinks(Unexpired(old, now), old)
BY DEF Shrinks, Unexpired

LEMMA ConsumeShrinks ==
    ASSUME NEW S, NEW T, NEW old \in [S -> T], NEW h PROVE Shrinks([old EXCEPT ![h] = None], old)
BY DEF Shrinks

LEMMA CookiesStay ==
    ASSUME CookiesOK, Grows, cookie' = cookie PROVE CookiesOK'
<1> SUFFICES ASSUME NEW b \in Browsers PROVE Own(cookie[b].values, b)'
  BY DEF CookiesOK
<1>1. PICK v : v = cookie[b].values
  OBVIOUS
<1>2. Own(v, b)'
  BY <1>1, OwnStays DEF CookiesOK
<1> QED BY <1>1, <1>2 DEF Own

LEMMA RecordsStay ==
    ASSUME RecordsOK, Grows, NEW h \in Handles, pending'[h] = pending[h] \/ pending'[h] = None
    PROVE  (pending[h] # None => h \in drawn /\ RecordOK(pending[h]))'
<1>1. PICK p : p = pending[h]
  OBVIOUS
<1>2. p # None => h \in drawn' /\ RecordOK(p)'
  BY <1>1, RecordStays DEF RecordsOK, Grows
<1>3. pending'[h] # None => pending'[h] = p
  BY <1>1
<1> QED BY <1>2, <1>3 DEF RecordOK

LEMMA PagesStay ==
    ASSUME PagesOK, UNCHANGED <<consents, approvedBy>>, drawn' \cap Binders = drawn \cap Binders
    PROVE  PagesOK'
<1> SUFFICES ASSUME NEW x \in Binders
             PROVE  /\ x \in drawn' => consents'[x] \in Page /\ SafePage(consents[x])'
                    /\ x \notin drawn' => consents'[x] = None /\ approvedBy'[x] = None
  BY DEF PagesOK
<1>1. consents'[x] = consents[x] /\ approvedBy'[x] = approvedBy[x] /\ (x \in drawn' <=> x \in drawn)
  OBVIOUS
<1> QED BY <1>1 DEF PagesOK, SafePage, SafeURI

LEMMA CodeStays ==
    ASSUME NEW k \in Codes, CodeOK(k), Grows, k \in drawn' <=> k \in drawn,
           mintedFor'[k] = mintedFor[k], granted'[k] = granted[k],
           codes'[k] = codes[k] \/ codes'[k] = None
    PROVE  CodeOK(k)'
<1>1. CASE k \notin drawn
  BY <1>1 DEF CodeOK
<1>2. CASE k \in drawn
  <2> DEFINE m == mintedFor[k]
  <2>1. m \in Mint /\ m.binder \in Binders \cap drawn /\ approvedBy[m.binder] = consents[m.binder].browser
    BY <1>2 DEF CodeOK, Mint
  <2>2. /\ consents'[m.binder] = consents[m.binder] /\ approvedBy'[m.binder] = approvedBy[m.binder]
        /\ m.binder \in drawn'
    BY <2>1 DEF Grows
  <2> QED BY <1>2, <2>1, <2>2 DEF CodeOK
<1> QED BY <1>1, <1>2

(* A step that draws no secret, writes no history and only deletes from    *)
(* the tables.                                                             *)
Quiet ==
    /\ UNCHANGED <<allowed, cookie, drawn, known, history>>
    /\ clock' \in Nat /\ lastPurge' \in Nat /\ out' \subseteq drawn
    /\ Shrinks(clients', clients) /\ Shrinks(pending', pending) /\ Shrinks(codes', codes)

LEMMA QuietStep ==
    ASSUME LoginInv, Quiet, req' \in [Reqs -> Local], LocalsOK'
    PROVE  LoginInv'
<1> USE DEF LoginInv
<1>1. Grows
  BY DEF Quiet, Grows, history
<1>2. /\ clients' \in [Clients -> Client \cup {None}]
      /\ \A c \in Clients : clients'[c] = clients[c] \/ clients'[c] = None
  <2>1. clients \in [Clients -> Client \cup {None}] /\ Shrinks(clients', clients)
    BY DEF Quiet, TablesOK
  <2> QED BY <2>1, ShrunkTable
<1>3. /\ pending' \in [Handles -> Pending \cup {None}]
      /\ \A h \in Handles : pending'[h] = pending[h] \/ pending'[h] = None
  <2>1. pending \in [Handles -> Pending \cup {None}] /\ Shrinks(pending', pending)
    BY DEF Quiet, TablesOK
  <2> QED BY <2>1, ShrunkTable
<1>4. /\ codes' \in [Codes -> AuthCode \cup {None}]
      /\ \A k \in Codes : codes'[k] = codes[k] \/ codes'[k] = None
  <2>1. codes \in [Codes -> AuthCode \cup {None}] /\ Shrinks(codes', codes)
    BY DEF Quiet, TablesOK
  <2> QED BY <2>1, ShrunkTable
<1>5. TablesOK'
  BY <1>2, <1>3, <1>4 DEF Quiet, TablesOK, history
<1>6. ClientsOK'
  <2> SUFFICES ASSUME NEW c \in Clients, clients'[c] # None PROVE SafeClient(clients[c])'
    BY DEF ClientsOK
  <2>1. clients'[c] = clients[c]
    BY <1>2
  <2> QED BY <2>1 DEF ClientsOK, SafeClient, SafeURI
<1>7. RecordsOK'
  BY <1>1, <1>3, RecordsStay DEF RecordsOK
<1>8. CookiesOK'
  BY <1>1, CookiesStay DEF Quiet
<1>9. PagesOK'
  BY PagesStay DEF Quiet, history
<1>10. CodesOK'
  BY <1>1, <1>4, CodeStays DEF CodesOK, Quiet, history
<1> QED BY <1>5, <1>6, <1>7, <1>8, <1>9, <1>10

(* A quiet step of a request that leaves it with good locals.              *)
LEMMA QuietRequest ==
    ASSUME LoginInv, Quiet, NEW r \in Reqs, NEW q \in Local, Become(r, q), LocalOK(q)
    PROVE  LoginInv'
<1>1. Grows /\ allowed' = allowed
  BY DEF Quiet, Grows, history
<1>2. LocalOK(q)'
  BY <1>1, LocalStays
<1>3. req' \in [Reqs -> Local] /\ LocalsOK'
  BY <1>1, <1>2, BecomeOK DEF LoginInv, TablesOK
<1> QED BY <1>3, QuietStep

LEMMA StillQuiet ==
    ASSUME LoginInv, UNCHANGED <<clock, allowed, lastPurge, tables, cookie, drawn, known, out, history>>
    PROVE  Quiet
BY SameShrinks DEF LoginInv, TablesOK, Quiet, tables

LEMMA InitLogin == Init => LoginInv
<1> SUFFICES ASSUME Init PROVE LoginInv
  OBVIOUS
<1>1. req = [r \in Reqs |-> Idle] /\ Idle \in Local /\ LocalOK(Idle)
  BY IdleOK DEF Init
<1>2. \A b \in Browsers : cookie[b] = NoCookie /\ cookie[b].values = <<>>
  BY DEF Init, NoCookie
<1>3. TablesOK
  <2>1. cookie \in [Browsers -> [values : Seq(Binders), until : Nat]]
    BY EmptySeq DEF Init, NoCookie
  <2>2. granted \in [Codes -> Seq(Ask)]
    BY EmptySeq DEF Init
  <2>3. req \in [Reqs -> Local]
    BY <1>1
  <2> QED BY <2>1, <2>2, <2>3 DEF Init, TablesOK
<1>4. LocalsOK
  BY <1>1 DEF LocalsOK
<1>5. ClientsOK /\ RecordsOK
  BY DEF Init, ClientsOK, RecordsOK
<1>6. CookiesOK
  BY <1>2, EmptyOwn DEF CookiesOK
<1>7. PagesOK /\ CodesOK
  BY DEF Init, PagesOK, CodesOK, CodeOK
<1> QED BY <1>3, <1>4, <1>5, <1>6, <1>7 DEF LoginInv

-----------------------------------------------------------------------------
(* The requests' quiet steps.                                              *)

LEMMA ReadOwn ==
    ASSUME LoginInv, NEW b \in Browsers PROVE Own(readBinders(b), b)
<1>1. Own(cookie[b].values, b)
  BY DEF LoginInv, CookiesOK
<1> QED BY <1>1, EmptyOwn DEF readBinders

(* A request just sent.                                                    *)
LEMMA SendOK ==
    ASSUME LoginInv, NEW r \in Reqs, NEW b \in Browsers, NEW q,
           \/ \E a \in Ask : q = [Send(r, b, "load") EXCEPT !.ask = a]
           \/ \E pc \in {"approve", "callback"}, h \in Handles :
                q = [Send(r, b, pc) EXCEPT !.handle = h]
    PROVE  q \in Local /\ LocalOK(q)
<1>1. PICK v : v = readBinders(b)
  OBVIOUS
<1>2. Own(v, b) /\ v \in Seq(Binders)
  BY <1>1, ReadOwn DEF Own
<1>3. /\ q \in Local /\ q.browser = b /\ q.cookie = v /\ q.set = None /\ q.gives = None
      /\ \/ q.pc = "load" /\ q.ask \in Ask
         \/ q.pc \in {"approve", "callback"} /\ q.handle \in Handles
  <2>1. CASE \E a \in Ask : q = [Send(r, b, "load") EXCEPT !.ask = a]
    <3>1. PICK a \in Ask : q = [Send(r, b, "load") EXCEPT !.ask = a]
      BY <2>1
    <3> QED BY <1>1, <1>2, <3>1 DEF Send, Idle, Local, Steps
  <2>2. CASE \E pc \in {"approve", "callback"}, h \in Handles :
               q = [Send(r, b, pc) EXCEPT !.handle = h]
    <3>1. PICK pc \in {"approve", "callback"}, h \in Handles :
                 q = [Send(r, b, pc) EXCEPT !.handle = h]
      BY <2>2
    <3> QED BY <1>1, <1>2, <3>1 DEF Send, Idle, Local, Steps
  <2> QED BY <2>1, <2>2
<1> QED BY <1>2, <1>3 DEF LocalOK, Asking, Checked, Holding

Answer(b, set, gives) ==
    [Idle EXCEPT !.pc = "reply", !.browser = b, !.set = set, !.gives = gives]

(* An answer that is the browser's own cookie and a secret that was drawn. *)
LEMMA ReplyOK ==
    ASSUME LoginInv, Grows, allowed' = allowed,
           NEW r \in Reqs, NEW b \in Browsers, b = req[r].browser,
           NEW set, set = None \/ Own(set, b)',
           NEW gives \in Handles \cup Codes \cup {None}, gives # None => gives \in drawn',
           Reply(r, set, gives)
    PROVE  req' \in [Reqs -> Local] /\ LocalsOK'
<1>1. PICK q : q = Answer(b, set, gives)
  OBVIOUS
<1>2. set \in Seq(Binders) \cup {None}
  BY DEF Own
<1>3. /\ q \in Local /\ q.pc = "reply" /\ q.browser = b /\ q.cookie = <<>>
      /\ q.set = set /\ q.gives = gives
  <2>1. <<>> \in Seq(Binders)
    BY EmptySeq
  <2>2. q.pc = "reply" /\ q.browser = b /\ q.cookie = <<>> /\ q.set = set /\ q.gives = gives
    BY <1>1 DEF Idle, Answer
  <2>3. q \in Local
    BY <1>1, <1>2, <2>1 DEF Idle, Answer, Local, Steps
  <2> QED BY <2>2, <2>3
<1>4. Become(r, q)
  BY <1>1 DEF Reply, Answer
<1>5. Own(q.cookie, q.browser)'
  BY <1>3, EmptyOwn, OwnStays
<1>6. LocalOK(q)'
  BY <1>3, <1>5 DEF LocalOK, Asking, Checked, Holding
<1> QED BY <1>3, <1>4, <1>6, BecomeOK DEF LoginInv, TablesOK

LEMMA QuietReply ==
    ASSUME LoginInv, Quiet, NEW r \in Reqs, req[r].browser \in Browsers,
           NEW set, set = None \/ Own(set, req[r].browser),
           NEW gives \in Handles \cup Codes \cup {None}, gives # None => gives \in drawn,
           Reply(r, set, gives)
    PROVE  LoginInv'
<1>1. PICK b \in Browsers : b = req[r].browser
  OBVIOUS
<1>2. Grows /\ allowed' = allowed
  BY DEF Quiet, Grows, history
<1>3. set = None \/ Own(set, b)'
  BY <1>1, <1>2, OwnStays
<1>4. gives # None => gives \in drawn'
  BY DEF Quiet
<1> QED BY <1>1, <1>2, <1>3, <1>4, ReplyOK, QuietStep

LEMMA QuietRefuse ==
    ASSUME LoginInv, Quiet, NEW r \in Reqs, Refuse(r) PROVE LoginInv'
BY IdleOK, QuietRequest DEF Refuse

(* A request that moves on with the locals it has.                         *)
LEMMA QuietGoto ==
    ASSUME LoginInv, Quiet, NEW r \in Reqs, NEW pc, Goto(r, pc),
           \/ /\ req[r].pc = "load" /\ pc = "claim"
              /\ SafeURI(req[r].ask.uri) /\ checkRedirectHostPolicy(req[r].ask.uri)
           \/ req[r].pc \in {"claim", "sweep"} /\ pc \in {"sweep", "pend"}
    PROVE  LoginInv'
<1>1. PICK l \in Local : l = req[r] /\ LocalOK(l)
  BY DEF LoginInv, TablesOK, LocalsOK
<1>2. PICK q : q = [l EXCEPT !.pc = pc]
  OBVIOUS
<1>3. q \in Local
  BY <1>1, <1>2 DEF Local, Steps
<1>4. /\ q.pc = pc /\ q.browser = l.browser /\ q.cookie = l.cookie /\ q.set = l.set
      /\ q.gives = l.gives /\ q.ask = l.ask
  BY <1>1, <1>2 DEF Local
<1>5. LocalOK(q)
  BY <1>1, <1>4 DEF LocalOK, Asking, Checked, Holding
<1>6. Become(r, q)
  BY <1>1, <1>2 DEF Goto
<1> QED BY <1>3, <1>5, <1>6, QuietRequest

LEMMA VisitStep ==
    ASSUME LoginInv, NEW r \in Reqs, NEW b \in Browsers, NEW a \in Ask, Visit(r, b, a)
    PROVE  LoginInv'
<1>1. PICK q : q = [Send(r, b, "load") EXCEPT !.ask = a]
  OBVIOUS
<1>2. q \in Local /\ LocalOK(q)
  BY <1>1, SendOK
<1>3. Become(r, q) /\ Quiet
  BY <1>1, StillQuiet DEF Visit
<1> QED BY <1>2, <1>3, QuietRequest

LEMMA PostStep ==
    ASSUME LoginInv, NEW r \in Reqs, NEW b \in Browsers, NEW h \in Handles,
           Post(r, b, h) \/ Return(r, b, h)
    PROVE  LoginInv'
<1>1. PICK pc \in {"approve", "callback"} : Become(r, [Send(r, b, pc) EXCEPT !.handle = h])
  BY DEF Post, Return
<1>2. PICK q : q = [Send(r, b, pc) EXCEPT !.handle = h]
  OBVIOUS
<1>3. q \in Local /\ LocalOK(q)
  BY <1>2, SendOK
<1>4. Become(r, q) /\ Quiet
  BY <1>1, <1>2, StillQuiet DEF Post, Return
<1> QED BY <1>3, <1>4, QuietRequest

LEMMA ExchangeStep ==
    ASSUME LoginInv, NEW r \in Reqs, NEW k \in Codes, k \in out, NEW a \in Ask, Exchange(r, k, a)
    PROVE  LoginInv'
<1>1. PICK q : q = [Idle EXCEPT !.pc = "redeem", !.handle = k, !.ask = a]
  OBVIOUS
<1>2. /\ q.pc = "redeem" /\ q.browser = None /\ q.cookie = <<>> /\ q.set = None
      /\ q.gives = None /\ q.ask = a /\ q.handle = k
  BY <1>1 DEF Idle
<1>3. q \in Local
  BY <1>1, EmptySeq DEF Idle, Local, Steps
<1>4. Own(q.cookie, q.browser) /\ k \in drawn
  BY <1>2, EmptyOwn DEF LoginInv, TablesOK
<1>5. LocalOK(q)
  BY <1>2, <1>4 DEF LocalOK, Asking, Checked, Holding
<1>6. Become(r, q)
  BY <1>1 DEF Exchange
<1>7. Quiet
  BY StillQuiet DEF Exchange
<1> QED BY <1>3, <1>5, <1>6, <1>7, QuietRequest

(* A registered URI is a safe one.                                         *)
LEMMA LoadClientStep ==
    ASSUME LoginInv, NEW r \in Reqs, LoadClient(r) PROVE LoginInv'
<1> DEFINE a == req[r].ask
<1>1. Quiet
  BY StillQuiet DEF LoadClient
<1>2. req[r].pc = "load" /\ a \in Ask /\ a.client \in Clients
  BY DEF LoadClient, LoginInv, LocalsOK, LocalOK, Asking, Ask
<1>3. CASE Refuse(r)
  BY <1>1, <1>3, QuietRefuse
<1>4. CASE /\ clients[a.client] # None /\ a.uri \in clients[a.client].uris
           /\ checkRedirectHostPolicy(a.uri) /\ Goto(r, "claim")
  <2>1. SafeURI(a.uri)
    BY <1>2, <1>4 DEF LoginInv, ClientsOK, SafeClient
  <2> QED BY <1>1, <1>2, <1>4, <2>1, QuietGoto
<1> QED BY <1>3, <1>4 DEF LoadClient

LEMMA maybePurgeStep ==
    ASSUME LoginInv, NEW r \in Reqs, maybePurge(r) PROVE LoginInv'
<1>1. Quiet
  BY SameShrinks DEF LoginInv, TablesOK, Quiet, tables, maybePurge
<1>2. PICK pc \in {"sweep", "pend"} : Goto(r, pc)
  BY DEF maybePurge
<1> QED BY <1>1, <1>2, QuietGoto DEF maybePurge

LEMMA PurgeIsQuiet ==
    ASSUME LoginInv, PurgeExpired, UNCHANGED <<clock, allowed, cookie, drawn, known, out, history>>
    PROVE  Quiet
BY UnexpiredShrinks DEF PurgeExpired, LoginInv, TablesOK, Quiet

LEMMA SweepStep ==
    ASSUME LoginInv, NEW r \in Reqs, Sweep(r) PROVE LoginInv'
<1>1. Quiet
  BY PurgeIsQuiet DEF Sweep
<1> QED BY <1>1, QuietGoto DEF Sweep

LEMMA TickerStep ==
    ASSUME LoginInv, Ticker PROVE LoginInv'
<1>1. Quiet
  BY PurgeIsQuiet DEF Ticker
<1>2. req' \in [Reqs -> Local]
  BY DEF Ticker, LoginInv, TablesOK
<1>3. LocalsOK'
  BY LocalsStay DEF Ticker, LoginInv, Grows, history
<1> QED BY <1>1, <1>2, <1>3, QuietStep

LEMMA TickStep ==
    ASSUME LoginInv, Tick PROVE LoginInv'
<1>1. Quiet
  <2>1. clock' \in Nat /\ lastPurge' \in Nat /\ out' \subseteq drawn
    BY TimesAssumption DEF LoginInv, TablesOK, Tick
  <2>2. Shrinks(clients, clients) /\ Shrinks(pending, pending) /\ Shrinks(codes, codes)
    BY SameShrinks DEF LoginInv, TablesOK
  <2>3. UNCHANGED tables /\ UNCHANGED <<allowed, cookie, drawn, known, history>>
    BY DEF Tick
  <2> QED BY <2>1, <2>2, <2>3 DEF Quiet, tables
<1>2. req' \in [Reqs -> Local]
  BY DEF Tick, LoginInv, TablesOK
<1>3. LocalsOK'
  BY LocalsStay DEF Tick, LoginInv, Grows, history
<1> QED BY <1>1, <1>2, <1>3, QuietStep

(* The locals of a request, as a rigid value.                              *)
LEMMA LocalOf ==
    ASSUME LoginInv, NEW r \in Reqs
    PROVE  \E q \in Local : q = req[r] /\ LocalOK(q)
BY DEF LoginInv, TablesOK, LocalsOK

LEMMA ConsumeIsQuiet ==
    ASSUME LoginInv, NEW h, ConsumePendingAuth(h),
           UNCHANGED <<clock, allowed, lastPurge, clients, codes, cookie, drawn, known, out, history>>
    PROVE  Quiet
<1>1. Shrinks(clients, clients) /\ Shrinks(codes, codes)
  BY SameShrinks DEF LoginInv, TablesOK
<1>2. Shrinks(pending', pending)
  BY ConsumeShrinks DEF LoginInv, TablesOK, ConsumePendingAuth
<1> QED BY <1>1, <1>2 DEF LoginInv, TablesOK, Quiet

(* A record found under a handle becomes a local of the request, whose     *)
(* browser holds the record's binder.                                      *)
LEMMA TakesRecord ==
    ASSUME LoginInv, NEW l \in Local, LocalOK(l), l.browser \in Browsers,
           NEW p, RecordOK(p), binderMatches(l.cookie, p.binder),
           NEW s \in Seq(Binders) \cup {None}, s # None => Own(s, l.browser),
           NEW pc, pc = "restate" \/ (pc = "code" /\ p.approved),
           NEW q, q = [l EXCEPT !.pc = pc, !.rec = p, !.set = s]
    PROVE  q \in Local /\ LocalOK(q)
<1>1. q \in Local
  BY DEF Local, Steps, RecordOK
<1>2. /\ q.pc = pc /\ q.browser = l.browser /\ q.cookie = l.cookie /\ q.set = s
      /\ q.gives = l.gives /\ q.rec = p
  BY DEF Local
<1>3. consents[p.binder].browser = l.browser
  BY DEF binderMatches, LocalOK, Own
<1> QED BY <1>1, <1>2, <1>3 DEF LocalOK, Asking, Checked, Holding

LEMMA ConsumeConsentStep ==
    ASSUME LoginInv, NEW r \in Reqs, ConsumeConsent(r) PROVE LoginInv'
<1>1. PICK q \in Local : q = req[r] /\ LocalOK(q)
  BY LocalOf
<1>2. q.pc = "approve" /\ q.browser \in Browsers /\ q.handle \in Handles
  BY <1>1 DEF ConsumeConsent, LocalOK
<1>3. PICK p : p = pending[q.handle]
  OBVIOUS
<1>4. Quiet
  BY ConsumeIsQuiet DEF ConsumeConsent
<1>5. \/ Refuse(r)
      \/ Reply(r, dropBinder(q.cookie, p.binder), None)
      \/ /\ p # None /\ binderMatches(q.cookie, p.binder)
         /\ Become(r, [q EXCEPT !.pc = "restate", !.rec = p])
  BY <1>1, <1>3 DEF ConsumeConsent
<1>6. CASE Refuse(r)
  BY <1>4, <1>6, QuietRefuse
<1>7. CASE Reply(r, dropBinder(q.cookie, p.binder), None)
  <2>1. PICK s : s = dropBinder(q.cookie, p.binder)
    OBVIOUS
  <2>2. Own(s, q.browser)
    BY <1>1, <2>1, DropOwn DEF LocalOK
  <2> QED BY <1>1, <1>2, <1>4, <1>7, <2>1, <2>2, QuietReply
<1>8. CASE /\ p # None /\ binderMatches(q.cookie, p.binder)
           /\ Become(r, [q EXCEPT !.pc = "restate", !.rec = p])
  <2>1. RecordOK(p)
    BY <1>2, <1>3, <1>8 DEF LoginInv, RecordsOK
  <2>2. PICK s \in Seq(Binders) \cup {None} : s = q.set
    BY DEF Local
  <2>3. PICK n : n = [q EXCEPT !.pc = "restate", !.rec = p, !.set = s]
    OBVIOUS
  <2>4. n = [q EXCEPT !.pc = "restate", !.rec = p]
    BY <2>2, <2>3 DEF Local
  <2>5. n \in Local /\ LocalOK(n)
    <3>1. s # None => Own(s, q.browser)
      BY <1>1, <2>2 DEF LocalOK
    <3> QED BY <1>1, <1>2, <1>8, <2>1, <2>3, <3>1, TakesRecord
  <2> QED BY <1>4, <1>8, <2>4, <2>5, QuietRequest
<1> QED BY <1>5, <1>6, <1>7, <1>8

LEMMA ConsumeStateStep ==
    ASSUME LoginInv, NEW r \in Reqs, ConsumeState(r) PROVE LoginInv'
<1>1. PICK q \in Local : q = req[r] /\ LocalOK(q)
  BY LocalOf
<1>2. q.pc = "callback" /\ q.browser \in Browsers /\ q.handle \in Handles
  BY <1>1 DEF ConsumeState, LocalOK
<1>3. PICK p : p = pending[q.handle]
  OBVIOUS
<1>4. Quiet
  BY ConsumeIsQuiet DEF ConsumeState
<1>5. PICK s : s = dropBinder(q.cookie, p.binder)
  OBVIOUS
<1>6. Own(s, q.browser) /\ s \in Seq(Binders)
  <2>1. Own(q.cookie, q.browser)
    BY <1>1 DEF LocalOK
  <2>2. Own(s, q.browser)
    BY <1>5, <2>1, DropOwn
  <2> QED BY <2>2 DEF Own
<1>7. \/ Refuse(r)
      \/ Reply(r, s, None)
      \/ /\ p # None /\ p.approved /\ binderMatches(q.cookie, p.binder)
         /\ Become(r, [q EXCEPT !.pc = "code", !.rec = p, !.set = s])
  BY <1>1, <1>3, <1>5 DEF ConsumeState
<1>8. CASE Refuse(r)
  BY <1>4, <1>8, QuietRefuse
<1>9. CASE Reply(r, s, None)
  BY <1>1, <1>2, <1>4, <1>6, <1>9, QuietReply
<1>10. CASE /\ p # None /\ p.approved /\ binderMatches(q.cookie, p.binder)
            /\ Become(r, [q EXCEPT !.pc = "code", !.rec = p, !.set = s])
  <2>1. RecordOK(p)
    BY <1>2, <1>3, <1>10 DEF LoginInv, RecordsOK
  <2>2. PICK n : n = [q EXCEPT !.pc = "code", !.rec = p, !.set = s]
    OBVIOUS
  <2>3. n \in Local /\ LocalOK(n)
    BY <1>1, <1>2, <1>6, <1>10, <2>1, <2>2, TakesRecord
  <2> QED BY <1>4, <1>10, <2>2, <2>3, QuietRequest
<1> QED BY <1>7, <1>8, <1>9, <1>10

(* The callback's answers: its own cookie, and perhaps the code.           *)
LEMMA CallbackReply ==
    ASSUME LoginInv, Quiet, NEW r \in Reqs, req[r].pc \in {"code", "extend", "renew"},
           NEW g, g = None \/ g = req[r].gives, Reply(r, req[r].set, g)
    PROVE  LoginInv'
<1>1. PICK q \in Local : q = req[r] /\ LocalOK(q)
  BY LocalOf
<1>2. q.browser \in Browsers /\ (q.set = None \/ Own(q.set, q.browser))
  BY <1>1 DEF LocalOK
<1>3. g \in Handles \cup Codes \cup {None} /\ (g # None => g \in drawn)
  BY <1>1 DEF Local, LocalOK
<1> QED BY <1>1, <1>2, <1>3, QuietReply

LEMMA ExtendReadStep ==
    ASSUME LoginInv, NEW r \in Reqs, ExtendRead(r) PROVE LoginInv'
<1>1. PICK q \in Local : q = req[r] /\ LocalOK(q)
  BY LocalOf
<1>2. q.pc = "extend" /\ Quiet
  BY <1>1, StillQuiet DEF ExtendRead
<1>3. PICK c : c = q.rec.ask.client
  OBVIOUS
<1>4. c \in Clients
  BY <1>1, <1>2, <1>3 DEF LocalOK, Holding, RecordOK, Pending, Ask
<1>5. PICK x : x = clients[c]
  OBVIOUS
<1>6. \/ Reply(r, q.set, q.gives)
      \/ x # None /\ Become(r, [q EXCEPT !.pc = "renew", !.lease = x])
  BY <1>1, <1>3, <1>5 DEF ExtendRead
<1>7. CASE Reply(r, q.set, q.gives)
  BY <1>1, <1>2, <1>7, CallbackReply
<1>8. CASE x # None /\ Become(r, [q EXCEPT !.pc = "renew", !.lease = x])
  <2>1. SafeClient(x)
    BY <1>4, <1>5, <1>8 DEF LoginInv, ClientsOK
  <2>2. PICK n : n = [q EXCEPT !.pc = "renew", !.lease = x]
    OBVIOUS
  <2>3. n \in Local
    BY <2>1, <2>2 DEF Local, Steps, SafeClient
  <2>4. /\ n.pc = "renew" /\ n.browser = q.browser /\ n.cookie = q.cookie /\ n.set = q.set
        /\ n.gives = q.gives /\ n.rec = q.rec /\ n.lease = x
    BY <2>2 DEF Local
  <2>5. LocalOK(n)
    BY <1>1, <1>2, <2>1, <2>4 DEF LocalOK, Asking, Checked, Holding
  <2> QED BY <1>2, <1>8, <2>2, <2>3, <2>5, QuietRequest
<1> QED BY <1>6, <1>7, <1>8

LEMMA StoreFaultStep ==
    ASSUME LoginInv, NEW r \in Reqs, StoreFault(r) PROVE LoginInv'
<1>1. Quiet
  BY StillQuiet DEF StoreFault
<1>2. \/ Refuse(r)
      \/ req[r].pc = "sweep" /\ Goto(r, "pend")
      \/ req[r].pc = "code" /\ Reply(r, req[r].set, None)
      \/ req[r].pc \in {"extend", "renew"} /\ Reply(r, req[r].set, req[r].gives)
  BY DEF StoreFault
<1>3. CASE Refuse(r)
  BY <1>1, <1>3, QuietRefuse
<1>4. CASE req[r].pc = "sweep" /\ Goto(r, "pend")
  BY <1>1, <1>4, QuietGoto
<1>5. CASE req[r].pc = "code" /\ Reply(r, req[r].set, None)
  BY <1>1, <1>5, CallbackReply
<1>6. CASE req[r].pc \in {"extend", "renew"} /\ Reply(r, req[r].set, req[r].gives)
  <2>1. PICK g : g = req[r].gives
    OBVIOUS
  <2> QED BY <1>1, <1>6, <2>1, CallbackReply
<1> QED BY <1>2, <1>3, <1>4, <1>5, <1>6

LEMMA LoseStep ==
    ASSUME LoginInv, NEW r \in Reqs, Lose(r) PROVE LoginInv'
<1>1. Quiet
  BY StillQuiet DEF Lose
<1> QED BY <1>1, QuietRefuse DEF Lose

-----------------------------------------------------------------------------
(* The steps that write.                                                   *)

(* A registration is written: by Register, or again by extendClient.       *)
LEMMA ClientWrite ==
    ASSUME LoginInv, NEW c \in Clients, NEW x, SafeClient(x), clients' = [clients EXCEPT ![c] = x],
           UNCHANGED <<clock, allowed, lastPurge, pending, codes, cookie, drawn, out, history>>,
           known' \subseteq Clients, req' \in [Reqs -> Local], LocalsOK'
    PROVE  LoginInv'
<1> USE DEF LoginInv
<1>1. Grows
  BY DEF Grows, history
<1>2. clients' \in [Clients -> Client \cup {None}]
  BY DEF TablesOK, SafeClient
<1>3. TablesOK'
  BY <1>2 DEF TablesOK, history
<1>4. ClientsOK'
  <2> SUFFICES ASSUME NEW d \in Clients, clients'[d] # None PROVE SafeClient(clients[d])'
    BY DEF ClientsOK
  <2>1. clients'[d] = x \/ clients'[d] = clients[d]
    BY DEF TablesOK
  <2> QED BY <2>1 DEF ClientsOK, SafeClient, SafeURI
<1>5. RecordsOK'
  BY <1>1, RecordsStay DEF RecordsOK
<1>6. CookiesOK'
  BY <1>1, CookiesStay
<1>7. PagesOK'
  BY PagesStay DEF history
<1>8. CodesOK'
  BY <1>1, CodeStays DEF CodesOK, history
<1> QED BY <1>3, <1>4, <1>5, <1>6, <1>7, <1>8

LEMMA RegisterStep ==
    ASSUME LoginInv, NEW c \in Clients, NEW uris \in SUBSET Uris, Register(c, uris)
    PROVE  LoginInv'
<1>1. PICK x : x = [uris |-> uris, expires |-> clock + UnusedClientTTL]
  OBVIOUS
<1>2. \A u \in uris : SafeURI(u)
  BY DEF Register, ValidateRedirectURI, isLoopbackHost, SafeURI
<1>3. clock + UnusedClientTTL \in Nat
  BY TimesAssumption DEF LoginInv, TablesOK
<1>4. SafeClient(x)
  BY <1>1, <1>2, <1>3 DEF SafeClient, Client
<1>5. req' \in [Reqs -> Local]
  BY DEF Register, LoginInv, TablesOK
<1>6. LocalsOK'
  BY LocalsStay DEF Register, LoginInv, Grows, history
<1>7. known' \subseteq Clients
  BY DEF Register, LoginInv, TablesOK
<1> QED BY <1>1, <1>4, <1>5, <1>6, <1>7, ClientWrite DEF Register

LEMMA ExtendSaveStep ==
    ASSUME LoginInv, NEW r \in Reqs, ExtendSave(r) PROVE LoginInv'
<1>1. PICK q \in Local : q = req[r] /\ LocalOK(q)
  BY LocalOf
<1>2. /\ q.pc = "renew" /\ q.browser \in Browsers /\ (q.set = None \/ Own(q.set, q.browser))
      /\ SafeClient(q.lease) /\ q.rec.ask.client \in Clients
  BY <1>1 DEF ExtendSave, LocalOK, Holding, RecordOK, Pending, Ask
<1>3. PICK x : x = [q.lease EXCEPT !.expires = q.at + ClientTTL]
  OBVIOUS
<1>4. SafeClient(x)
  <2>1. q.at + ClientTTL \in Nat
    BY TimesAssumption DEF Local
  <2> QED BY <1>2, <1>3, <2>1 DEF SafeClient, Client
<1>5. Grows
  BY DEF ExtendSave, Grows, history
<1>6. req' \in [Reqs -> Local] /\ LocalsOK'
  <2>1. q.set = None \/ Own(q.set, q.browser)'
    BY <1>2, <1>5, OwnStays
  <2>2. q.gives \in Handles \cup Codes \cup {None} /\ (q.gives # None => q.gives \in drawn')
    BY <1>1 DEF Local, LocalOK, ExtendSave
  <2>3. Reply(r, q.set, q.gives) /\ allowed' = allowed
    BY <1>1 DEF ExtendSave
  <2> QED BY <1>1, <1>2, <1>5, <2>1, <2>2, <2>3, ReplyOK
<1>7. clients' = [clients EXCEPT ![q.rec.ask.client] = x]
  BY <1>1, <1>3 DEF ExtendSave
<1>8. known' \subseteq Clients
  BY DEF ExtendSave, LoginInv, TablesOK
<1> QED BY <1>2, <1>4, <1>6, <1>7, <1>8, ClientWrite DEF ExtendSave

(* A request that ends.                                                    *)
LEMMA RefuseOK ==
    ASSUME LoginInv, Grows, allowed' = allowed, NEW r \in Reqs, Refuse(r)
    PROVE  req' \in [Reqs -> Local] /\ LocalsOK'
<1>1. LocalOK(Idle)'
  BY IdleOK, LocalStays
<1> QED BY <1>1, IdleOK, BecomeOK DEF Refuse, LoginInv, TablesOK

LEMMA RestartStep ==
    ASSUME LoginInv, NEW hosts \in AllowLists, Restart(hosts) PROVE LoginInv'
<1> USE DEF LoginInv
<1>1. Grows
  BY DEF Restart, Grows, history
<1>2. req' = [r \in Reqs |-> Idle]
  BY DEF Restart
<1>3. LocalOK(Idle)'
  <2>1. Own(Idle.cookie, Idle.browser)'
    BY <1>1, EmptyOwn, OwnStays DEF Idle
  <2> QED BY <2>1 DEF Idle, LocalOK, Asking, Checked, Holding
<1>4. LocalsOK'
  BY <1>2, <1>3 DEF LocalsOK
<1>5. TablesOK'
  BY <1>2, IdleOK DEF TablesOK, Restart, tables, history
<1>6. ClientsOK'
  BY DEF ClientsOK, SafeClient, SafeURI, Restart, tables
<1>7. RecordsOK'
  BY <1>1, RecordsStay DEF RecordsOK, Restart, tables
<1>8. CookiesOK'
  BY <1>1, CookiesStay DEF Restart
<1>9. PagesOK'
  BY PagesStay DEF Restart, history
<1>10. CodesOK'
  BY <1>1, CodeStays DEF CodesOK, Restart, history, tables
<1> QED BY <1>4, <1>5, <1>6, <1>7, <1>8, <1>9, <1>10

LEMMA ReceiveStep ==
    ASSUME LoginInv, NEW r \in Reqs, Receive(r) PROVE LoginInv'
<1> USE DEF LoginInv
<1>1. PICK q \in Local : q = req[r] /\ LocalOK(q)
  BY LocalOf
<1>2. q.browser \in Browsers /\ (q.set # None => Own(q.set, q.browser))
  BY <1>1 DEF Receive, LocalOK
<1>3. Grows /\ allowed' = allowed
  BY DEF Receive, Grows, history
<1>4. req' \in [Reqs -> Local] /\ LocalsOK'
  BY <1>3, RefuseOK DEF Receive
<1>5. \/ cookie' = cookie
      \/ \E v, t : /\ cookie' = [cookie EXCEPT ![q.browser] = [values |-> v, until |-> t]]
                   /\ Own(v, q.browser) /\ v \in Seq(Binders) /\ t \in Nat
  <2>1. <<>> \in Seq(Binders) /\ Own(<<>>, q.browser)
    BY EmptySeq, EmptyOwn
  <2>2. clock + PendingAuthTTL \in Nat
    BY TimesAssumption DEF TablesOK
  <2>3. q.set # None => q.set \in Seq(Binders)
    BY <1>2 DEF Own
  <2>4. CASE q.set = None
    BY <1>1, <2>4 DEF Receive
  <2>5. CASE q.set # None /\ q.set = <<>>
    <3>1. cookie' = [cookie EXCEPT ![q.browser] = [values |-> <<>>, until |-> 0]]
      BY <1>1, <2>5 DEF Receive, NoCookie
    <3> QED BY <2>1, <3>1
  <2>6. CASE q.set # None /\ q.set # <<>>
    <3>1. cookie' = [cookie EXCEPT ![q.browser] =
                       [values |-> q.set, until |-> clock + PendingAuthTTL]]
      BY <1>1, <2>6 DEF Receive
    <3> QED BY <1>2, <2>2, <2>3, <2>6, <3>1
  <2> QED BY <2>4, <2>5, <2>6
<1>6. cookie' \in [Browsers -> [values : Seq(Binders), until : Nat]] /\ CookiesOK'
  <2>1. CASE cookie' = cookie
    BY <1>3, <2>1, CookiesStay DEF TablesOK
  <2>2. CASE \E v, t : /\ cookie' = [cookie EXCEPT ![q.browser] = [values |-> v, until |-> t]]
                       /\ Own(v, q.browser) /\ v \in Seq(Binders) /\ t \in Nat
    <3>1. PICK v, t : /\ cookie' = [cookie EXCEPT ![q.browser] = [values |-> v, until |-> t]]
                      /\ Own(v, q.browser) /\ v \in Seq(Binders) /\ t \in Nat
      BY <2>2
    <3>2. cookie' \in [Browsers -> [values : Seq(Binders), until : Nat]]
      BY <3>1 DEF TablesOK
    <3>3. ASSUME NEW b \in Browsers PROVE Own(cookie[b].values, b)'
      <4>1. PICK w : w = cookie'[b].values
        OBVIOUS
      <4>2. Own(w, b)
        BY <1>2, <3>1, <4>1 DEF CookiesOK, TablesOK
      <4>3. Own(w, b)'
        BY <1>3, <4>2, OwnStays
      <4> QED BY <4>1, <4>3 DEF Own
    <3> QED BY <3>2, <3>3 DEF CookiesOK
  <2> QED BY <1>5, <2>1, <2>2
<1>7. out' \subseteq drawn'
  BY <1>1 DEF Receive, LocalOK, TablesOK
<1>8. TablesOK'
  BY <1>4, <1>6, <1>7 DEF TablesOK, Receive, tables, history
<1>9. ClientsOK'
  BY DEF ClientsOK, SafeClient, SafeURI, Receive, tables
<1>10. RecordsOK'
  BY <1>3, RecordsStay DEF RecordsOK, Receive, tables
<1>11. PagesOK'
  BY PagesStay DEF Receive, history
<1>12. CodesOK'
  BY <1>3, CodeStays DEF CodesOK, Receive, history, tables
<1> QED BY <1>4, <1>6, <1>8, <1>9, <1>10, <1>11, <1>12

(* A code that passes was never redeemed before, and is redeemed on the    *)
(* terms it was minted on.                                                 *)
LEMMA RedeemStep ==
    ASSUME LoginInv, NEW r \in Reqs, Redeem(r) PROVE LoginInv'
<1> USE DEF LoginInv
<1>1. PICK q \in Local : q = req[r] /\ LocalOK(q)
  BY LocalOf
<1>2. q.pc = "redeem" /\ q.ask \in Ask /\ q.handle \in Codes /\ q.handle \in drawn
  BY <1>1 DEF Redeem, LocalOK, Asking
<1>3. PICK k \in Codes, a \in Ask : k = q.handle /\ a = q.ask
  BY <1>2
<1>4. Grows /\ allowed' = allowed
  BY DEF Redeem, Grows
<1>5. req' \in [Reqs -> Local] /\ LocalsOK'
  BY <1>4, RefuseOK DEF Redeem
<1>6. codes' = [codes EXCEPT ![k] = None]
  BY <1>1, <1>3 DEF Redeem
<1>7. granted' = granted \/ (Redeemable(codes[k], a) /\ granted' = [granted EXCEPT ![k] = Append(@, a)])
  BY <1>1, <1>3 DEF Redeem
<1>8. granted' \in [Codes -> Seq(Ask)]
  <2>1. granted[k] \in Seq(Ask)
    BY DEF TablesOK
  <2>2. Append(granted[k], a) \in Seq(Ask)
    BY <2>1, AppendProperties
  <2> QED BY <1>7, <2>2 DEF TablesOK
<1>9. TablesOK'
  BY <1>5, <1>6, <1>8 DEF TablesOK, Redeem
<1>10. ClientsOK'
  BY DEF ClientsOK, SafeClient, SafeURI, Redeem
<1>11. RecordsOK'
  BY <1>4, RecordsStay DEF RecordsOK, Redeem
<1>12. CookiesOK'
  BY <1>4, CookiesStay DEF Redeem
<1>13. PagesOK'
  BY PagesStay DEF Redeem
<1>14. ASSUME NEW j \in Codes PROVE CodeOK(j)'
  <2>0. drawn' = drawn /\ mintedFor' = mintedFor /\ consents' = consents /\ approvedBy' = approvedBy
    BY DEF Redeem
  <2>1. codes'[j] = codes[j] \/ codes'[j] = None
    BY <1>6 DEF TablesOK
  <2>2. CASE granted'[j] = granted[j]
    BY <1>4, <2>0, <2>1, <2>2, CodeStays DEF CodesOK
  <2>3. CASE granted'[j] # granted[j]
    <3>1. j = k /\ Redeemable(codes[k], a) /\ granted'[k] = Append(granted[k], a)
      BY <1>7, <2>3 DEF TablesOK
    <3>2. k \in drawn /\ codes[k] # None /\ codes[k] \in AuthCode
      BY <1>2, <1>3, <3>1 DEF Redeemable, TablesOK
    <3>3. /\ codes[k].ask = consents[mintedFor[k].binder].ask /\ granted[k] = <<>>
          /\ mintedFor[k] \in Mint /\ mintedFor[k].binder \in drawn
          /\ consents[mintedFor[k].binder].browser = mintedFor[k].browser
          /\ approvedBy[mintedFor[k].binder] = mintedFor[k].browser
      BY <3>2 DEF CodesOK, CodeOK
    <3>4. codes[k].ask = a
      BY <3>1, <3>2 DEF Redeemable, verifyPKCE, AuthCode, Ask
    <3>5. granted'[k] = <<a>> /\ Len(granted'[k]) = 1 /\ \A i \in 1..Len(granted'[k]) : granted'[k][i] = a
      BY <3>1, <3>3
    <3>6. codes'[k] = None
      BY <1>6 DEF TablesOK
    <3> QED BY <2>0, <3>1, <3>2, <3>3, <3>4, <3>5, <3>6 DEF CodeOK
  <2> QED BY <2>2, <2>3
<1> QED BY <1>5, <1>9, <1>10, <1>11, <1>12, <1>13, <1>14 DEF CodesOK

(* The consent page: a new nonce, a new binder, and a record of both.      *)
LEMMA SaveConsentStep ==
    ASSUME LoginInv, NEW r \in Reqs, SaveConsent(r) PROVE LoginInv'
<1> USE DEF LoginInv
<1>1. PICK q \in Local : q = req[r] /\ LocalOK(q)
  BY LocalOf
<1>2. /\ q.pc = "pend" /\ q.browser \in Browsers /\ Own(q.cookie, q.browser) /\ q.ask \in Ask
      /\ SafeURI(q.ask.uri) /\ checkRedirectHostPolicy(q.ask.uri)
  BY <1>1 DEF SaveConsent, LocalOK, Asking, Checked
<1>3. CASE Refuse(r) /\ UNCHANGED <<drawn, pending, consents>>
  <2>1. UNCHANGED <<clock, allowed, lastPurge, tables, cookie, drawn, known, out, history>>
    BY <1>3 DEF SaveConsent, tables, history
  <2> QED BY <1>3, <2>1, StillQuiet, QuietRefuse
<1>4. ASSUME NEW h \in Handles \ drawn, NEW x \in Binders \ drawn,
             drawn' = drawn \cup {h, x},
             pending' = [pending EXCEPT ![h] =
               [ask |-> q.ask, binder |-> x, approved |-> FALSE, expires |-> clock + PendingAuthTTL]],
             Reply(r, addBinder(q.cookie, x), h),
             consents' = [consents EXCEPT ![x] =
               [browser |-> q.browser, ask |-> q.ask, at |-> clock, allowed |-> allowed,
                nth |-> Cardinality({y \in Binders : consents[y] # None}) + 1]]
      PROVE  LoginInv'
  <2>0. UNCHANGED <<clock, allowed, lastPurge, clients, codes, cookie, known, out,
                    approvedBy, mintedFor, granted>>
    BY DEF SaveConsent
  <2>1. PICK n \in Nat : n = Cardinality({y \in Binders : consents[y] # None}) + 1
    <3>1. IsFiniteSet({y \in Binders : consents[y] # None})
      BY SecretsAssumption, FS_Subset
    <3>2. Cardinality({y \in Binders : consents[y] # None}) \in Nat
      BY <3>1, FS_CardinalityType
    <3> QED BY <3>2
  <2>2. PICK page : page = [browser |-> q.browser, ask |-> q.ask, at |-> clock,
                            allowed |-> allowed, nth |-> n]
    OBVIOUS
  <2>3. page \in Page
    BY <1>2, <2>2 DEF Page, TablesOK
  <2>4. page.browser = q.browser /\ page.ask = q.ask /\ page.allowed = allowed
    BY <2>2
  <2>5. consents' = [consents EXCEPT ![x] = page]
    BY <1>4, <2>1, <2>2
  <2>6. SafePage(page)
    BY <1>2, <2>4 DEF SafePage, SafeURI, checkRedirectHostPolicy, isLoopbackHost
  <2>7. consents'[x] = page /\ \A y \in Binders : y # x => consents'[y] = consents[y]
    BY <2>5 DEF TablesOK
  <2>8. Grows
    BY <1>4, <2>0, <2>7 DEF Grows
  <2>9. PICK p : p = [ask |-> q.ask, binder |-> x, approved |-> FALSE,
                      expires |-> clock + PendingAuthTTL]
    OBVIOUS
  <2>10. p \in Pending /\ p.ask = q.ask /\ p.binder = x /\ ~p.approved
    <3>1. clock + PendingAuthTTL \in Nat
      BY TimesAssumption DEF TablesOK
    <3> QED BY <1>2, <2>9, <3>1 DEF Pending
  <2>11. RecordOK(p)'
    BY <1>4, <2>4, <2>7, <2>10 DEF RecordOK
  <2>12. PICK w : w = addBinder(q.cookie, x)
    OBVIOUS
  <2>13. Own(w, q.browser)'
    <3>1. /\ q.cookie \in Seq(Binders) /\ Len(q.cookie) \in Nat /\ Len(q.cookie) <= maxBinders
          /\ \A i \in 1..Len(q.cookie) : /\ q.cookie[i] \in drawn \cap Binders
                                         /\ consents[q.cookie[i]].browser = q.browser
          /\ \A i, j \in 1..Len(q.cookie) : q.cookie[i] = q.cookie[j] => i = j
      <4>1. q.cookie \in Seq(Binders)
        BY <1>2 DEF Own
      <4>2. \A i \in 1..Len(q.cookie) : q.cookie[i] \in Binders
        BY <4>1, ElementOfSeq
      <4> QED BY <1>2, <4>1, <4>2, LenProperties DEF Own
    <3>2. /\ w \in Seq(Binders) /\ Len(w) <= maxBinders
          /\ \A i \in 1..Len(w) : IF i = 1 THEN w[i] = x
               ELSE i - 1 \in 1..Len(q.cookie) /\ w[i] = q.cookie[i - 1]
      <4>1. PICK v : v = q.cookie
        OBVIOUS
      <4>2. v \in Seq(Binders) /\ Len(v) <= maxBinders /\ x \in Binders /\ w = addBinder(v, x)
        BY <2>12, <3>1, <4>1
      <4>3. Prepended(w, v, x)
        BY <4>2, AddShape
      <4> QED BY <4>1, <4>3 DEF Prepended
    <3>3. ASSUME NEW i \in 1..Len(w) PROVE w[i] \in drawn' /\ consents'[w[i]].browser = q.browser
      <4>1. CASE i = 1
        BY <1>4, <2>4, <2>7, <3>2, <4>1
      <4>2. CASE i # 1
        BY <1>4, <2>7, <3>1, <3>2, <4>2
      <4> QED BY <4>1, <4>2
    <3>4. ASSUME NEW i \in 1..Len(w), NEW j \in 1..Len(w), w[i] = w[j] PROVE i = j
      <4>1. i \in Nat /\ j \in Nat
        OBVIOUS
      <4>2. CASE i = 1 \/ j = 1
        BY <3>1, <3>2, <3>4, <4>1, <4>2
      <4>3. CASE i # 1 /\ j # 1
        <5>1. i - 1 = j - 1
          <6>1. /\ i - 1 \in 1..Len(q.cookie) /\ w[i] = q.cookie[i - 1]
                /\ j - 1 \in 1..Len(q.cookie) /\ w[j] = q.cookie[j - 1]
            BY <3>2, <4>3
          <6> QED BY <3>1, <3>4, <6>1
        <5> QED BY <4>1, <5>1
      <4> QED BY <4>2, <4>3
    <3> QED BY <3>2, <3>3, <3>4 DEF Own
  <2>14. req' \in [Reqs -> Local] /\ LocalsOK'
    <3>1. Reply(r, w, h) /\ allowed' = allowed
      BY <1>4, <2>0, <2>12
    <3>2. h \in Handles \cup Codes \cup {None} /\ h \in drawn'
      BY <1>4
    <3> QED BY <1>1, <1>2, <2>8, <2>13, <3>1, <3>2, ReplyOK
  <2>15. TablesOK'
    <3>1. pending' \in [Handles -> Pending \cup {None}]
      BY <1>4, <2>9, <2>10 DEF TablesOK
    <3>2. consents' \in [Binders -> Page \cup {None}]
      BY <2>3, <2>5 DEF TablesOK
    <3> QED BY <1>4, <2>0, <2>14, <3>1, <3>2 DEF TablesOK
  <2>16. ClientsOK'
    BY <2>0 DEF ClientsOK, SafeClient, SafeURI
  <2>17. RecordsOK'
    <3> SUFFICES ASSUME NEW g \in Handles
                 PROVE  (pending[g] # None => g \in drawn /\ RecordOK(pending[g]))'
      BY DEF RecordsOK
    <3>1. CASE g = h
      <4>1. pending'[g] = p
        BY <1>4, <2>9, <3>1 DEF TablesOK
      <4> QED BY <1>4, <2>11, <3>1, <4>1 DEF RecordOK
    <3>2. CASE g # h
      <4>1. pending'[g] = pending[g]
        BY <1>4, <3>2 DEF TablesOK
      <4> QED BY <2>8, <4>1, RecordsStay
    <3> QED BY <3>1, <3>2
  <2>18. CookiesOK'
    BY <2>0, <2>8, CookiesStay
  <2>19. PagesOK'
    <3> SUFFICES ASSUME NEW y \in Binders
                 PROVE  /\ y \in drawn' => consents'[y] \in Page /\ SafePage(consents[y])'
                        /\ y \notin drawn' => consents'[y] = None /\ approvedBy'[y] = None
      BY DEF PagesOK
    <3>1. CASE y = x
      BY <1>4, <2>3, <2>6, <2>7, <3>1 DEF SafePage, SafeURI
    <3>2. CASE y # x
      <4>1. y \in drawn' <=> y \in drawn
        BY <1>4, <3>2, SecretsAssumption
      <4> QED BY <2>0, <2>7, <3>2, <4>1 DEF PagesOK, SafePage, SafeURI
    <3> QED BY <3>1, <3>2
  <2>20. CodesOK'
    <3>1. \A k \in Codes : k \in drawn' <=> k \in drawn
      BY <1>4, SecretsAssumption
    <3> QED BY <2>0, <2>8, <3>1, CodeStays DEF CodesOK
  <2> QED BY <2>14, <2>15, <2>16, <2>17, <2>18, <2>19, <2>20
<1>5. \/ Refuse(r) /\ UNCHANGED <<drawn, pending, consents>>
      \/ \E h \in Handles \ drawn, x \in Binders \ drawn :
           /\ drawn' = drawn \cup {h, x}
           /\ pending' = [pending EXCEPT ![h] =
               [ask |-> q.ask, binder |-> x, approved |-> FALSE, expires |-> clock + PendingAuthTTL]]
           /\ Reply(r, addBinder(q.cookie, x), h)
           /\ consents' = [consents EXCEPT ![x] =
               [browser |-> q.browser, ask |-> q.ask, at |-> clock, allowed |-> allowed,
                nth |-> Cardinality({y \in Binders : consents[y] # None}) + 1]]
  BY <1>1 DEF SaveConsent
<1> QED BY <1>3, <1>4, <1>5

(* The approval: the browser that approves is the one the page was shown   *)
(* to, for its cookie holds the record's binder.                           *)
LEMMA SaveApprovedStep ==
    ASSUME LoginInv, NEW r \in Reqs, SaveApproved(r) PROVE LoginInv'
<1> USE DEF LoginInv
<1>1. PICK q \in Local : q = req[r] /\ LocalOK(q)
  BY LocalOf
<1>2. /\ q.pc = "restate" /\ q.browser \in Browsers /\ RecordOK(q.rec)
      /\ consents[q.rec.binder].browser = q.browser
  BY <1>1 DEF SaveApproved, LocalOK, Holding
<1>3. CASE Refuse(r) /\ UNCHANGED <<drawn, pending, approvedBy>>
  <2>1. UNCHANGED <<clock, allowed, lastPurge, tables, cookie, drawn, known, out, history>>
    BY <1>3 DEF SaveApproved, tables, history
  <2> QED BY <1>3, <2>1, StillQuiet, QuietRefuse
<1>4. ASSUME NEW h \in Handles \ drawn,
             drawn' = drawn \cup {h},
             pending' = [pending EXCEPT ![h] =
               [q.rec EXCEPT !.approved = TRUE, !.expires = clock + PendingAuthTTL]],
             Reply(r, None, h),
             approvedBy' = [approvedBy EXCEPT ![q.rec.binder] = q.browser]
      PROVE  LoginInv'
  <2>0. UNCHANGED <<clock, allowed, lastPurge, clients, codes, cookie, known, out,
                    consents, mintedFor, granted>>
    BY DEF SaveApproved
  <2>1. PICK x \in Binders : x = q.rec.binder /\ x \in drawn /\ consents[x].browser = q.browser
    BY <1>2 DEF RecordOK, Pending
  <2>2. /\ approvedBy' \in [Binders -> Browsers \cup {None}]
        /\ approvedBy'[x] = q.browser /\ \A y \in Binders : y # x => approvedBy'[y] = approvedBy[y]
    BY <1>2, <1>4, <2>1 DEF TablesOK
  <2>3. Grows
    BY <1>4, <2>0, <2>1, <2>2 DEF Grows
  <2>4. PICK p : p = [q.rec EXCEPT !.approved = TRUE, !.expires = clock + PendingAuthTTL]
    OBVIOUS
  <2>5. p \in Pending /\ p.binder = x /\ p.ask = q.rec.ask
    <3>1. clock + PendingAuthTTL \in Nat
      BY TimesAssumption DEF TablesOK
    <3> QED BY <1>2, <2>1, <2>4, <3>1 DEF RecordOK, Pending
  <2>6. RecordOK(p)'
    BY <1>2, <1>4, <2>0, <2>1, <2>2, <2>5 DEF RecordOK
  <2>7. req' \in [Reqs -> Local] /\ LocalsOK'
    <3>1. h \in Handles \cup Codes \cup {None} /\ h \in drawn' /\ allowed' = allowed
      BY <1>4, <2>0
    <3> QED BY <1>1, <1>2, <1>4, <2>3, <3>1, ReplyOK
  <2>8. TablesOK'
    <3>1. pending' \in [Handles -> Pending \cup {None}]
      BY <1>4, <2>4, <2>5 DEF TablesOK
    <3> QED BY <1>4, <2>0, <2>2, <2>7, <3>1 DEF TablesOK
  <2>9. ClientsOK'
    BY <2>0 DEF ClientsOK, SafeClient, SafeURI
  <2>10. RecordsOK'
    <3> SUFFICES ASSUME NEW g \in Handles
                 PROVE  (pending[g] # None => g \in drawn /\ RecordOK(pending[g]))'
      BY DEF RecordsOK
    <3>1. CASE g = h
      <4>1. pending'[g] = p
        BY <1>4, <2>4, <3>1 DEF TablesOK
      <4> QED BY <1>4, <2>6, <3>1, <4>1 DEF RecordOK
    <3>2. CASE g # h
      <4>1. pending'[g] = pending[g]
        BY <1>4, <3>2 DEF TablesOK
      <4> QED BY <2>3, <4>1, RecordsStay
    <3> QED BY <3>1, <3>2
  <2>11. CookiesOK'
    BY <2>0, <2>3, CookiesStay
  <2>12. PagesOK'
    <3> SUFFICES ASSUME NEW y \in Binders
                 PROVE  /\ y \in drawn' => consents'[y] \in Page /\ SafePage(consents[y])'
                        /\ y \notin drawn' => consents'[y] = None /\ approvedBy'[y] = None
      BY DEF PagesOK
    <3>1. y \in drawn' <=> y \in drawn
      BY <1>4, SecretsAssumption
    <3> QED BY <2>0, <2>1, <2>2, <3>1 DEF PagesOK, SafePage, SafeURI
  <2>13. CodesOK'
    <3>1. \A k \in Codes : k \in drawn' <=> k \in drawn
      BY <1>4, SecretsAssumption
    <3> QED BY <2>0, <2>3, <3>1, CodeStays DEF CodesOK
  <2> QED BY <2>7, <2>8, <2>9, <2>10, <2>11, <2>12, <2>13
<1>5. \/ Refuse(r) /\ UNCHANGED <<drawn, pending, approvedBy>>
      \/ \E h \in Handles \ drawn :
           /\ drawn' = drawn \cup {h}
           /\ pending' = [pending EXCEPT ![h] =
               [q.rec EXCEPT !.approved = TRUE, !.expires = clock + PendingAuthTTL]]
           /\ Reply(r, None, h)
           /\ approvedBy' = [approvedBy EXCEPT ![q.rec.binder] = q.browser]
  BY <1>1 DEF SaveApproved
<1> QED BY <1>3, <1>4, <1>5

(* The code: for the browser that opened and approved the page.            *)
LEMMA SaveCodeStep ==
    ASSUME LoginInv, NEW r \in Reqs, SaveCode(r) PROVE LoginInv'
<1> USE DEF LoginInv
<1>1. PICK q \in Local : q = req[r] /\ LocalOK(q)
  BY LocalOf
<1>2. /\ q.pc = "code" /\ q.browser \in Browsers /\ RecordOK(q.rec) /\ q.rec.approved
      /\ consents[q.rec.binder].browser = q.browser
  BY <1>1 DEF SaveCode, LocalOK, Holding
<1>3. CASE Reply(r, q.set, None) /\ UNCHANGED <<drawn, codes, mintedFor>>
  <2>1. UNCHANGED <<clock, allowed, lastPurge, tables, cookie, drawn, known, out, history>>
    BY <1>3 DEF SaveCode, tables, history
  <2> QED BY <1>1, <1>2, <1>3, <2>1, StillQuiet, CallbackReply
<1>4. ASSUME NEW k \in Codes \ drawn,
             drawn' = drawn \cup {k},
             codes' = [codes EXCEPT ![k] =
               [ask |-> q.rec.ask, user |-> q.browser, expires |-> clock + AuthCodeTTL]],
             mintedFor' = [mintedFor EXCEPT ![k] = [browser |-> q.browser, binder |-> q.rec.binder]],
             Become(r, [q EXCEPT !.pc = "extend", !.at = clock, !.gives = k])
      PROVE  LoginInv'
  <2>0. UNCHANGED <<clock, allowed, lastPurge, clients, pending, cookie, known, out,
                    consents, approvedBy, granted>>
    BY DEF SaveCode
  <2>1. PICK x \in Binders : /\ x = q.rec.binder /\ x \in drawn /\ consents[x].browser = q.browser
                             /\ approvedBy[x] = q.browser /\ q.rec.ask = consents[x].ask
                             /\ q.rec.ask \in Ask
    BY <1>2 DEF RecordOK, Pending
  <2>2. Grows
    BY <1>4, <2>0 DEF Grows
  <2>3. PICK n : n = [q EXCEPT !.pc = "extend", !.at = clock, !.gives = k]
    OBVIOUS
  <2>4. n \in Local
    BY <2>3 DEF Local, Steps, TablesOK
  <2>5. /\ n.pc = "extend" /\ n.browser = q.browser /\ n.cookie = q.cookie /\ n.set = q.set
        /\ n.gives = k /\ n.rec = q.rec
    BY <2>3 DEF Local
  <2>6. LocalOK(n)'
    <3>1. LocalOK(q)'
      BY <1>1, <2>0, <2>2, LocalStays
    <3> QED BY <1>2, <1>4, <2>5, <3>1 DEF LocalOK, Asking, Checked, Holding
  <2>7. req' \in [Reqs -> Local] /\ LocalsOK'
    <3>1. Become(r, n)
      BY <1>4, <2>3
    <3> QED BY <2>0, <2>2, <2>4, <2>6, <3>1, BecomeOK DEF TablesOK
  <2>8. /\ codes' \in [Codes -> AuthCode \cup {None}] /\ codes'[k].ask = q.rec.ask
        /\ \A j \in Codes : j # k => codes'[j] = codes[j]
    <3>1. clock + AuthCodeTTL \in Nat
      BY TimesAssumption DEF TablesOK
    <3> QED BY <1>2, <1>4, <2>1, <3>1 DEF TablesOK, AuthCode
  <2>9. /\ mintedFor' \in [Codes -> Mint \cup {None}]
        /\ mintedFor'[k] \in Mint /\ mintedFor'[k].browser = q.browser /\ mintedFor'[k].binder = x
        /\ \A j \in Codes : j # k => mintedFor'[j] = mintedFor[j]
    BY <1>2, <1>4, <2>1 DEF TablesOK, Mint
  <2>10. TablesOK'
    BY <1>4, <2>0, <2>7, <2>8, <2>9 DEF TablesOK
  <2>11. ClientsOK'
    BY <2>0 DEF ClientsOK, SafeClient, SafeURI
  <2>12. RecordsOK'
    BY <2>0, <2>2, RecordsStay DEF RecordsOK
  <2>13. CookiesOK'
    BY <2>0, <2>2, CookiesStay
  <2>14. PagesOK'
    BY <1>4, <2>0, SecretsAssumption, PagesStay
  <2>15. ASSUME NEW j \in Codes PROVE CodeOK(j)'
    <3>1. CASE j = k
      <4>1. granted'[k] = <<>>
        BY <1>4, <2>0 DEF CodesOK, CodeOK
      <4>2. Len(granted'[k]) = 0
        BY <4>1
      <4> QED BY <1>4, <2>0, <2>1, <2>8, <2>9, <3>1, <4>1, <4>2 DEF CodeOK
    <3>2. CASE j # k
      BY <1>4, <2>0, <2>2, <2>8, <2>9, <3>2, CodeStays DEF CodesOK
    <3> QED BY <3>1, <3>2
  <2> QED BY <2>7, <2>10, <2>11, <2>12, <2>13, <2>14, <2>15 DEF CodesOK
<1>5. \/ Reply(r, q.set, None) /\ UNCHANGED <<drawn, codes, mintedFor>>
      \/ \E k \in Codes \ drawn :
           /\ drawn' = drawn \cup {k}
           /\ codes' = [codes EXCEPT ![k] =
               [ask |-> q.rec.ask, user |-> q.browser, expires |-> clock + AuthCodeTTL]]
           /\ mintedFor' = [mintedFor EXCEPT ![k] = [browser |-> q.browser, binder |-> q.rec.binder]]
           /\ Become(r, [q EXCEPT !.pc = "extend", !.at = clock, !.gives = k])
  BY <1>1 DEF SaveCode
<1> QED BY <1>3, <1>4, <1>5

LEMMA NextLogin == LoginInv /\ [Next]_vars => LoginInv'
<1> SUFFICES ASSUME LoginInv, [Next]_vars PROVE LoginInv'
  OBVIOUS
<1>1. ASSUME NEW c \in Clients, NEW uris \in SUBSET Uris, Register(c, uris) PROVE LoginInv'
  BY <1>1, RegisterStep
<1>2. ASSUME NEW r \in Reqs, NEW b \in Browsers, NEW a \in Ask, Visit(r, b, a) PROVE LoginInv'
  BY <1>2, VisitStep
<1>3. ASSUME NEW r \in Reqs, NEW b \in Browsers, NEW h \in out \cap Handles,
             Post(r, b, h) \/ Return(r, b, h)
      PROVE  LoginInv'
  BY <1>3, PostStep
<1>4. ASSUME NEW r \in Reqs, NEW k \in out \cap Codes, NEW a \in Ask, Exchange(r, k, a)
      PROVE  LoginInv'
  BY <1>4, ExchangeStep
<1>5. ASSUME NEW r \in Reqs, Handle(r) PROVE LoginInv'
  BY <1>5, LoadClientStep, maybePurgeStep, SweepStep, SaveConsentStep, ConsumeConsentStep,
     SaveApprovedStep, ConsumeStateStep, SaveCodeStep, ExtendReadStep, ExtendSaveStep,
     RedeemStep DEF Handle
<1>6. ASSUME NEW r \in Reqs, StoreFault(r) \/ Receive(r) \/ Lose(r) PROVE LoginInv'
  BY <1>6, StoreFaultStep, ReceiveStep, LoseStep
<1>7. ASSUME NEW hosts \in AllowLists, Restart(hosts) PROVE LoginInv'
  BY <1>7, RestartStep
<1>8. CASE UNCHANGED vars
  <2>1. UNCHANGED <<clock, allowed, lastPurge, tables, cookie, drawn, known, out, history>> /\ req' = req
    BY <1>8 DEF vars
  <2>2. Quiet
    BY <2>1, StillQuiet
  <2>3. req' \in [Reqs -> Local]
    BY <2>1 DEF LoginInv, TablesOK
  <2>4. LocalsOK'
    BY <2>1, LocalsStay DEF LoginInv, Grows, history
  <2> QED BY <2>2, <2>3, <2>4, QuietStep
<1> QED BY <1>1, <1>2, <1>3, <1>4, <1>5, <1>6, <1>7, <1>8, TickerStep, TickStep DEF Next

-----------------------------------------------------------------------------
(* A binder is carried by one thing at a time.                             *)

(* Nothing new carries x.                                                  *)
Calm(x) ==
    /\ \A h \in Handles : Stored(h, x)' => Stored(h, x)
    /\ \A r \in Reqs : Flies(r, x)' => Flies(r, x)
    /\ \A k \in Codes : Minted(k, x)' => Minted(k, x)

LEMMA CalmOnce == ASSUME NEW x, CarriedOnce(x), Calm(x) PROVE CarriedOnce(x)'
BY DEF CarriedOnce, Calm

(* The only carrier of a binder hands it on.                               *)
LEMMA MoveOnce ==
    ASSUME OneCarrier, NEW x \in Binders, \A y \in Binders : y # x => Calm(y), CarriedOnce(x)'
    PROVE  OneCarrier'
<1>1. ASSUME NEW y \in Binders PROVE CarriedOnce(y)'
  <2>1. CASE y = x
    BY <2>1
  <2>2. CASE y # x
    BY <2>2, CalmOnce DEF OneCarrier
  <2> QED BY <2>1, <2>2
<1> QED BY <1>1 DEF OneCarrier

(* A request whose new locals carry nothing.                               *)
LEMMA RequestCarriesNothing ==
    ASSUME LoginInv, NEW r \in Reqs, NEW q \in Local, q.pc \notin {"restate", "code"}, Become(r, q)
    PROVE  \A o \in Reqs : \A x : Flies(o, x)' => Flies(o, x)
<1>1. \A o \in Reqs : req'[o] = IF o = r THEN q ELSE req[o]
  BY DEF Become, LoginInv, TablesOK
<1> QED BY <1>1 DEF Flies

LEMMA ReplyCarriesNothing ==
    ASSUME LoginInv, NEW r \in Reqs, (\E s, g : Reply(r, s, g)) \/ Refuse(r)
    PROVE  \A o \in Reqs : \A x : Flies(o, x)' => Flies(o, x)
<1>1. PICK n : Become(r, n) /\ n.pc \notin {"restate", "code"}
  <2>1. CASE Refuse(r)
    <3>1. Become(r, Idle) /\ Idle.pc = "idle"
      BY <2>1 DEF Refuse, Idle
    <3> QED BY <3>1
  <2>2. ASSUME NEW s, NEW g, Reply(r, s, g)
        PROVE  \E n : Become(r, n) /\ n.pc \notin {"restate", "code"}
    <3>1. Become(r, Answer(req[r].browser, s, g))
      BY <2>2 DEF Reply, Answer
    <3>2. Answer(req[r].browser, s, g).pc = "reply"
      BY DEF Answer, Idle
    <3> QED BY <3>1, <3>2
  <2> QED BY <2>1, <2>2
<1>2. \A o \in Reqs : req'[o] = IF o = r THEN n ELSE req[o]
  BY <1>1 DEF Become, LoginInv, TablesOK
<1> QED BY <1>1, <1>2 DEF Flies

LEMMA GotoCarriesNothing ==
    ASSUME LoginInv, NEW r \in Reqs, NEW pc \in {"claim", "sweep", "pend"}, Goto(r, pc)
    PROVE  \A o \in Reqs : \A x : Flies(o, x)' => Flies(o, x)
<1>1. PICK l \in Local : l = req[r]
  BY DEF LoginInv, TablesOK
<1>2. PICK n : n = [l EXCEPT !.pc = pc] /\ Become(r, n) /\ n.pc = pc
  <2>1. Become(r, [l EXCEPT !.pc = pc])
    BY <1>1 DEF Goto
  <2>2. [l EXCEPT !.pc = pc].pc = pc
    BY DEF Local
  <2> QED BY <2>1, <2>2
<1>3. \A o \in Reqs : req'[o] = IF o = r THEN n ELSE req[o]
  BY <1>2 DEF Become, LoginInv, TablesOK
<1> QED BY <1>2, <1>3 DEF Flies

(* A step that mints nothing and only deletes records.                     *)
LEMMA CalmStep ==
    ASSUME OneCarrier, \A h \in Handles : pending'[h] = pending[h] \/ pending'[h] = None,
           drawn' = drawn, mintedFor' = mintedFor,
           \A o \in Reqs : \A x : Flies(o, x)' => Flies(o, x)
    PROVE  OneCarrier'
<1>1. ASSUME NEW x \in Binders PROVE Calm(x)
  BY DEF Calm, Stored, Minted
<1> QED BY <1>1, CalmOnce DEF OneCarrier

LEMMA PurgedRecords ==
    ASSUME LoginInv, PurgeExpired
    PROVE  \A h \in Handles : pending'[h] = pending[h] \/ pending'[h] = None
BY DEF PurgeExpired, Unexpired, LoginInv, TablesOK

LEMMA ConsumedRecords ==
    ASSUME LoginInv, NEW g, ConsumePendingAuth(g)
    PROVE  \A h \in Handles : pending'[h] = pending[h] \/ pending'[h] = None
BY DEF ConsumePendingAuth, LoginInv, TablesOK

(* The steps that hand no binder on.                                       *)
LEMMA BystandersCarry ==
    ASSUME LoginInv, OneCarrier,
           \/ \E c \in Clients, uris \in SUBSET Uris : Register(c, uris)
           \/ \E r \in Reqs :
                \/ \E b \in Browsers, a \in Ask : Visit(r, b, a)
                \/ \E b \in Browsers, h \in Handles : Post(r, b, h) \/ Return(r, b, h)
                \/ \E k \in Codes, a \in Ask : Exchange(r, k, a)
                \/ LoadClient(r) \/ maybePurge(r) \/ Sweep(r) \/ ExtendRead(r) \/ ExtendSave(r)
                \/ Redeem(r) \/ StoreFault(r) \/ Receive(r) \/ Lose(r)
           \/ Ticker
           \/ \E hosts \in AllowLists : Restart(hosts)
           \/ Tick
           \/ UNCHANGED vars
    PROVE  OneCarrier'
<1>1. ASSUME UNCHANGED <<pending, drawn, mintedFor, req>> PROVE OneCarrier'
  BY <1>1, CalmStep DEF Flies
<1>2. CASE \E c \in Clients, uris \in SUBSET Uris : Register(c, uris)
  BY <1>1, <1>2 DEF Register, history
<1>3. CASE \E r \in Reqs, b \in Browsers, a \in Ask : Visit(r, b, a)
  <2>1. PICK r \in Reqs, b \in Browsers, a \in Ask : Visit(r, b, a)
    BY <1>3
  <2>2. PICK q : q = [Send(r, b, "load") EXCEPT !.ask = a]
    OBVIOUS
  <2>3. q \in Local /\ q.pc = "load"
    BY <2>2, SendOK DEF Send, Idle
  <2>4. \A o \in Reqs : \A x : Flies(o, x)' => Flies(o, x)
    BY <2>1, <2>2, <2>3, RequestCarriesNothing DEF Visit
  <2> QED BY <2>1, <2>4, CalmStep DEF Visit, tables, history
<1>4. CASE \E r \in Reqs, b \in Browsers, h \in Handles : Post(r, b, h) \/ Return(r, b, h)
  <2>1. PICK r \in Reqs, b \in Browsers, h \in Handles : Post(r, b, h) \/ Return(r, b, h)
    BY <1>4
  <2>2. PICK pc \in {"approve", "callback"} : Become(r, [Send(r, b, pc) EXCEPT !.handle = h])
    BY <2>1 DEF Post, Return
  <2>3. PICK q : q = [Send(r, b, pc) EXCEPT !.handle = h]
    OBVIOUS
  <2>4. q \in Local /\ q.pc = pc
    BY <2>3, SendOK DEF Send, Idle
  <2>5. \A o \in Reqs : \A x : Flies(o, x)' => Flies(o, x)
    BY <2>2, <2>3, <2>4, RequestCarriesNothing
  <2> QED BY <2>1, <2>5, CalmStep DEF Post, Return, tables, history
<1>5. CASE \E r \in Reqs, k \in Codes, a \in Ask : Exchange(r, k, a)
  <2>1. PICK r \in Reqs, k \in Codes, a \in Ask : Exchange(r, k, a)
    BY <1>5
  <2>2. PICK q : q = [Idle EXCEPT !.pc = "redeem", !.handle = k, !.ask = a]
    OBVIOUS
  <2>3. q \in Local /\ q.pc = "redeem"
    BY <2>2, EmptySeq DEF Idle, Local, Steps
  <2>4. \A o \in Reqs : \A x : Flies(o, x)' => Flies(o, x)
    BY <2>1, <2>2, <2>3, RequestCarriesNothing DEF Exchange
  <2> QED BY <2>1, <2>4, CalmStep DEF Exchange, tables, history
<1>6. ASSUME NEW r \in Reqs, LoadClient(r) PROVE OneCarrier'
  <2>1. Refuse(r) \/ Goto(r, "claim")
    BY <1>6 DEF LoadClient
  <2>2. \A o \in Reqs : \A x : Flies(o, x)' => Flies(o, x)
    BY <2>1, ReplyCarriesNothing, GotoCarriesNothing
  <2> QED BY <1>6, <2>2, CalmStep DEF LoadClient, tables, history
<1>7. ASSUME NEW r \in Reqs, maybePurge(r) PROVE OneCarrier'
  <2>1. PICK pc \in {"claim", "sweep", "pend"} : Goto(r, pc)
    BY <1>7 DEF maybePurge
  <2>2. \A o \in Reqs : \A x : Flies(o, x)' => Flies(o, x)
    BY <2>1, GotoCarriesNothing
  <2> QED BY <1>7, <2>2, CalmStep DEF maybePurge, tables, history
<1>8. ASSUME NEW r \in Reqs, Sweep(r) PROVE OneCarrier'
  <2>1. \A o \in Reqs : \A x : Flies(o, x)' => Flies(o, x)
    BY <1>8, GotoCarriesNothing DEF Sweep
  <2> QED BY <1>8, <2>1, PurgedRecords, CalmStep DEF Sweep, history
<1>9. ASSUME NEW r \in Reqs, ExtendRead(r) PROVE OneCarrier'
  <2>1. PICK q \in Local : q = req[r] /\ LocalOK(q)
    BY LocalOf
  <2>2. PICK x : x = clients[q.rec.ask.client]
    OBVIOUS
  <2>3. Reply(r, q.set, q.gives) \/ Become(r, [q EXCEPT !.pc = "renew", !.lease = x])
    BY <1>9, <2>1, <2>2 DEF ExtendRead
  <2>4. CASE Reply(r, q.set, q.gives)
    <3>1. \A o \in Reqs : \A y : Flies(o, y)' => Flies(o, y)
      BY <2>4, ReplyCarriesNothing
    <3> QED BY <1>9, <3>1, CalmStep DEF ExtendRead, tables, history
  <2>5. CASE Become(r, [q EXCEPT !.pc = "renew", !.lease = x])
    <3>1. req'[r].pc = "renew" /\ \A o \in Reqs : o # r => req'[o] = req[o]
      BY <2>1, <2>5 DEF Become, LoginInv, TablesOK, Local
    <3>2. \A o \in Reqs : \A y : Flies(o, y)' => Flies(o, y)
      BY <3>1 DEF Flies
    <3> QED BY <1>9, <3>2, CalmStep DEF ExtendRead, tables, history
  <2> QED BY <2>3, <2>4, <2>5
<1>10. ASSUME NEW r \in Reqs, ExtendSave(r) PROVE OneCarrier'
  <2>1. \A o \in Reqs : \A x : Flies(o, x)' => Flies(o, x)
    BY <1>10, ReplyCarriesNothing DEF ExtendSave
  <2> QED BY <1>10, <2>1, CalmStep DEF ExtendSave, history
<1>11. ASSUME NEW r \in Reqs, Redeem(r) PROVE OneCarrier'
  <2>1. \A o \in Reqs : \A x : Flies(o, x)' => Flies(o, x)
    BY <1>11, ReplyCarriesNothing DEF Redeem
  <2> QED BY <1>11, <2>1, CalmStep DEF Redeem
<1>12. ASSUME NEW r \in Reqs, StoreFault(r) PROVE OneCarrier'
  <2>1. Refuse(r) \/ Goto(r, "pend") \/ \E s, g : Reply(r, s, g)
    BY <1>12 DEF StoreFault
  <2>2. \A o \in Reqs : \A x : Flies(o, x)' => Flies(o, x)
    BY <2>1, ReplyCarriesNothing, GotoCarriesNothing
  <2> QED BY <1>12, <2>2, CalmStep DEF StoreFault, tables, history
<1>13. ASSUME NEW r \in Reqs, Receive(r) PROVE OneCarrier'
  <2>1. \A o \in Reqs : \A x : Flies(o, x)' => Flies(o, x)
    BY <1>13, ReplyCarriesNothing DEF Receive
  <2> QED BY <1>13, <2>1, CalmStep DEF Receive, tables, history
<1>14. ASSUME NEW r \in Reqs, Lose(r) PROVE OneCarrier'
  <2>1. \A o \in Reqs : \A x : Flies(o, x)' => Flies(o, x)
    BY <1>14, ReplyCarriesNothing DEF Lose
  <2> QED BY <1>14, <2>1, CalmStep DEF Lose, tables, history
<1>15. CASE Ticker
  <2>1. \A o \in Reqs : \A x : Flies(o, x)' => Flies(o, x)
    BY <1>15 DEF Ticker, Flies
  <2> QED BY <1>15, <2>1, PurgedRecords, CalmStep DEF Ticker, history
<1>16. CASE \E hosts \in AllowLists : Restart(hosts)
  <2>1. \A o \in Reqs : req'[o].pc = "idle"
    BY <1>16 DEF Restart, Idle
  <2>2. \A o \in Reqs : \A x : Flies(o, x)' => Flies(o, x)
    BY <2>1 DEF Flies
  <2> QED BY <1>16, <2>2, CalmStep DEF Restart, tables, history
<1>17. CASE Tick
  BY <1>1, <1>17 DEF Tick, tables, history
<1>18. CASE UNCHANGED vars
  BY <1>1, <1>18 DEF vars, tables, history
<1> QED BY <1>2, <1>3, <1>4, <1>5, <1>6, <1>7, <1>8, <1>9, <1>10, <1>11, <1>12, <1>13,
           <1>14, <1>15, <1>16, <1>17, <1>18

(* A new binder is carried by nothing yet.                                 *)
LEMMA SaveConsentCarries ==
    ASSUME LoginInv, OneCarrier, NEW r \in Reqs, SaveConsent(r) PROVE OneCarrier'
<1>1. \A o \in Reqs : \A y : Flies(o, y)' => Flies(o, y)
  BY ReplyCarriesNothing DEF SaveConsent
<1>2. mintedFor' = mintedFor
  BY DEF SaveConsent
<1>3. CASE UNCHANGED <<drawn, pending>>
  BY <1>1, <1>2, <1>3, CalmStep
<1>4. CASE ~UNCHANGED <<drawn, pending>>
  <2>1. PICK h \in Handles \ drawn, x \in Binders \ drawn :
          /\ drawn' = drawn \cup {h, x}
          /\ pending' = [pending EXCEPT ![h] =
               [ask |-> req[r].ask, binder |-> x, approved |-> FALSE,
                expires |-> clock + PendingAuthTTL]]
    BY <1>4 DEF SaveConsent
  <2>2. pending'[h].binder = x /\ \A g \in Handles : g # h => pending'[g] = pending[g]
    BY <2>1 DEF LoginInv, TablesOK
  <2>3. \A k \in Codes : k \in drawn' <=> k \in drawn
    BY <2>1, SecretsAssumption
  <2>4. ASSUME NEW y \in Binders, y # x PROVE Calm(y)
    BY <1>1, <1>2, <2>2, <2>3, <2>4 DEF Calm, Stored, Minted
  <2>5. /\ \A g \in Handles : ~Stored(g, x)
        /\ \A o \in Reqs : ~Flies(o, x)
        /\ \A k \in Codes : ~Minted(k, x)
    BY <2>1 DEF Stored, Flies, Minted, LoginInv, RecordsOK, RecordOK, LocalsOK, LocalOK, Holding,
               CodesOK, CodeOK
  <2>6. /\ \A g \in Handles : Stored(g, x)' => g = h
        /\ \A o \in Reqs : ~Flies(o, x)'
        /\ \A k \in Codes : ~Minted(k, x)'
    BY <1>1, <1>2, <2>2, <2>3, <2>5 DEF Stored, Minted
  <2>7. CarriedOnce(x)'
    BY <2>6 DEF CarriedOnce
  <2> QED BY <2>4, <2>7, MoveOnce
<1> QED BY <1>3, <1>4

(* A record becomes a local of the request that consumed it.               *)
LEMMA TakeCarries ==
    ASSUME LoginInv, OneCarrier, NEW r \in Reqs, NEW h \in Handles, NEW p, p = pending[h],
           p # None, ConsumePendingAuth(h), drawn' = drawn, mintedFor' = mintedFor,
           NEW n, n.rec = p, Become(r, n)
    PROVE  OneCarrier'
<1>1. PICK x \in Binders : x = p.binder
  BY DEF LoginInv, RecordsOK, RecordOK, Pending
<1>2. /\ pending'[h] = None
      /\ \A g \in Handles : pending'[g] = pending[g] \/ pending'[g] = None
  BY DEF ConsumePendingAuth, LoginInv, TablesOK
<1>3. req'[r] = n /\ \A o \in Reqs : o # r => req'[o] = req[o]
  BY DEF Become, LoginInv, TablesOK
<1>4. ASSUME NEW y \in Binders, y # x PROVE Calm(y)
  BY <1>1, <1>2, <1>3, <1>4 DEF Calm, Stored, Flies, Minted
<1>5. /\ \A g \in Handles : Stored(g, x) => g = h
      /\ \A o \in Reqs : ~Flies(o, x)
      /\ \A k \in Codes : ~Minted(k, x)
  BY <1>1 DEF OneCarrier, CarriedOnce, Stored
<1>6. /\ \A g \in Handles : ~Stored(g, x)'
      /\ \A o \in Reqs : Flies(o, x)' => o = r
      /\ \A k \in Codes : ~Minted(k, x)'
  BY <1>2, <1>3, <1>5 DEF Stored, Flies, Minted
<1>7. CarriedOnce(x)'
  BY <1>6 DEF CarriedOnce
<1> QED BY <1>4, <1>7, MoveOnce

LEMMA ConsumeConsentCarries ==
    ASSUME LoginInv, OneCarrier, NEW r \in Reqs, ConsumeConsent(r) PROVE OneCarrier'
<1>1. PICK q \in Local : q = req[r] /\ LocalOK(q)
  BY LocalOf
<1>2. q.handle \in Handles
  BY <1>1 DEF ConsumeConsent, LocalOK
<1>3. PICK p : p = pending[q.handle]
  OBVIOUS
<1>4. ConsumePendingAuth(q.handle) /\ drawn' = drawn /\ mintedFor' = mintedFor
  BY <1>1 DEF ConsumeConsent, history
<1>5. \/ Refuse(r)
      \/ Reply(r, dropBinder(q.cookie, p.binder), None)
      \/ p # None /\ Become(r, [q EXCEPT !.pc = "restate", !.rec = p])
  BY <1>1, <1>3 DEF ConsumeConsent
<1>6. CASE Refuse(r) \/ Reply(r, dropBinder(q.cookie, p.binder), None)
  <2>1. \A o \in Reqs : \A y : Flies(o, y)' => Flies(o, y)
    BY <1>6, ReplyCarriesNothing
  <2> QED BY <1>4, <2>1, ConsumedRecords, CalmStep
<1>7. CASE p # None /\ Become(r, [q EXCEPT !.pc = "restate", !.rec = p])
  <2>1. [q EXCEPT !.pc = "restate", !.rec = p].rec = p
    BY DEF Local
  <2> QED BY <1>2, <1>3, <1>4, <1>7, <2>1, TakeCarries
<1> QED BY <1>5, <1>6, <1>7

LEMMA ConsumeStateCarries ==
    ASSUME LoginInv, OneCarrier, NEW r \in Reqs, ConsumeState(r) PROVE OneCarrier'
<1>1. PICK q \in Local : q = req[r] /\ LocalOK(q)
  BY LocalOf
<1>2. q.handle \in Handles
  BY <1>1 DEF ConsumeState, LocalOK
<1>3. PICK p, s : p = pending[q.handle] /\ s = dropBinder(q.cookie, p.binder)
  OBVIOUS
<1>4. ConsumePendingAuth(q.handle) /\ drawn' = drawn /\ mintedFor' = mintedFor
  BY <1>1 DEF ConsumeState, history
<1>5. \/ Refuse(r) \/ Reply(r, s, None)
      \/ p # None /\ Become(r, [q EXCEPT !.pc = "code", !.rec = p, !.set = s])
  BY <1>1, <1>3 DEF ConsumeState
<1>6. CASE Refuse(r) \/ Reply(r, s, None)
  <2>1. \A o \in Reqs : \A y : Flies(o, y)' => Flies(o, y)
    BY <1>6, ReplyCarriesNothing
  <2> QED BY <1>4, <2>1, ConsumedRecords, CalmStep
<1>7. CASE p # None /\ Become(r, [q EXCEPT !.pc = "code", !.rec = p, !.set = s])
  <2>1. [q EXCEPT !.pc = "code", !.rec = p, !.set = s].rec = p
    BY DEF Local
  <2> QED BY <1>2, <1>3, <1>4, <1>7, <2>1, TakeCarries
<1> QED BY <1>5, <1>6, <1>7

(* The request stores the record again, under the state.                   *)
LEMMA SaveApprovedCarries ==
    ASSUME LoginInv, OneCarrier, NEW r \in Reqs, SaveApproved(r) PROVE OneCarrier'
<1>1. PICK q \in Local : q = req[r] /\ LocalOK(q)
  BY LocalOf
<1>2. q.pc = "restate" /\ q.rec \in Pending
  BY <1>1 DEF SaveApproved, LocalOK, Holding, RecordOK
<1>3. mintedFor' = mintedFor
  BY DEF SaveApproved
<1>4. \A o \in Reqs : \A y : Flies(o, y)' => Flies(o, y)
  BY ReplyCarriesNothing DEF SaveApproved
<1>5. CASE UNCHANGED <<drawn, pending>>
  BY <1>3, <1>4, <1>5, CalmStep
<1>6. CASE ~UNCHANGED <<drawn, pending>>
  <2>1. PICK h \in Handles \ drawn :
          /\ drawn' = drawn \cup {h}
          /\ pending' = [pending EXCEPT ![h] =
               [q.rec EXCEPT !.approved = TRUE, !.expires = clock + PendingAuthTTL]]
          /\ Reply(r, None, h)
    BY <1>1, <1>6 DEF SaveApproved
  <2>2. PICK x \in Binders : x = q.rec.binder
    BY <1>2 DEF Pending
  <2>3. pending'[h].binder = x /\ \A g \in Handles : g # h => pending'[g] = pending[g]
    BY <1>2, <2>1, <2>2 DEF LoginInv, TablesOK, Pending
  <2>4. \A k \in Codes : k \in drawn' <=> k \in drawn
    BY <2>1, SecretsAssumption
  <2>5. ASSUME NEW y \in Binders, y # x PROVE Calm(y)
    BY <1>3, <1>4, <2>3, <2>4, <2>5 DEF Calm, Stored, Minted
  <2>6. Flies(r, x)
    BY <1>1, <1>2, <2>2 DEF Flies
  <2>7. /\ \A g \in Handles : ~Stored(g, x)
        /\ \A o \in Reqs : Flies(o, x) => o = r
        /\ \A k \in Codes : ~Minted(k, x)
    BY <2>6 DEF OneCarrier, CarriedOnce
  <2>8. ~Flies(r, x)'
    <3>1. req'[r].pc = "reply"
      BY <2>1 DEF Reply, Become, Idle, LoginInv, TablesOK
    <3> QED BY <3>1 DEF Flies
  <2>9. /\ \A g \in Handles : Stored(g, x)' => g = h
        /\ \A o \in Reqs : ~Flies(o, x)'
        /\ \A k \in Codes : ~Minted(k, x)'
    BY <1>3, <1>4, <2>3, <2>4, <2>7, <2>8 DEF Stored, Minted
  <2>10. CarriedOnce(x)'
    BY <2>9 DEF CarriedOnce
  <2> QED BY <2>5, <2>10, MoveOnce
<1> QED BY <1>5, <1>6

(* The request mints the code.                                             *)
LEMMA SaveCodeCarries ==
    ASSUME LoginInv, OneCarrier, NEW r \in Reqs, SaveCode(r) PROVE OneCarrier'
<1>1. PICK q \in Local : q = req[r] /\ LocalOK(q)
  BY LocalOf
<1>2. q.pc = "code" /\ q.rec \in Pending
  BY <1>1 DEF SaveCode, LocalOK, Holding, RecordOK
<1>3. pending' = pending
  BY DEF SaveCode
<1>4. CASE Reply(r, q.set, None) /\ UNCHANGED <<drawn, mintedFor>>
  <2>1. \A o \in Reqs : \A y : Flies(o, y)' => Flies(o, y)
    BY <1>4, ReplyCarriesNothing
  <2> QED BY <1>3, <1>4, <2>1, CalmStep
<1>5. ASSUME NEW k \in Codes \ drawn, drawn' = drawn \cup {k},
             mintedFor' = [mintedFor EXCEPT ![k] = [browser |-> q.browser, binder |-> q.rec.binder]],
             Become(r, [q EXCEPT !.pc = "extend", !.at = clock, !.gives = k])
      PROVE  OneCarrier'
  <2>1. PICK x \in Binders : x = q.rec.binder
    BY <1>2 DEF Pending
  <2>2. mintedFor'[k].binder = x /\ \A j \in Codes : j # k => mintedFor'[j] = mintedFor[j]
    BY <1>5, <2>1 DEF LoginInv, TablesOK
  <2>3. req'[r].pc = "extend" /\ \A o \in Reqs : o # r => req'[o] = req[o]
    BY <1>5 DEF Become, Local, LoginInv, TablesOK
  <2>4. ASSUME NEW y \in Binders, y # x PROVE Calm(y)
    BY <1>3, <1>5, <2>2, <2>3, <2>4 DEF Calm, Stored, Flies, Minted
  <2>5. Flies(r, x)
    BY <1>1, <1>2, <2>1 DEF Flies
  <2>6. /\ \A g \in Handles : ~Stored(g, x)
        /\ \A o \in Reqs : Flies(o, x) => o = r
        /\ \A j \in Codes : ~Minted(j, x)
    BY <2>5 DEF OneCarrier, CarriedOnce
  <2>7. /\ \A g \in Handles : ~Stored(g, x)'
        /\ \A o \in Reqs : ~Flies(o, x)'
        /\ \A j \in Codes : Minted(j, x)' => j = k
    BY <1>3, <1>5, <2>2, <2>3, <2>6 DEF Stored, Flies, Minted
  <2>8. CarriedOnce(x)'
    BY <2>7 DEF CarriedOnce
  <2> QED BY <2>4, <2>8, MoveOnce
<1>6. \/ Reply(r, q.set, None) /\ UNCHANGED <<drawn, mintedFor>>
      \/ \E k \in Codes \ drawn :
           /\ drawn' = drawn \cup {k}
           /\ mintedFor' = [mintedFor EXCEPT ![k] = [browser |-> q.browser, binder |-> q.rec.binder]]
           /\ Become(r, [q EXCEPT !.pc = "extend", !.at = clock, !.gives = k])
  BY <1>1 DEF SaveCode
<1> QED BY <1>4, <1>5, <1>6

LEMMA NextCarrier == LoginInv /\ OneCarrier /\ [Next]_vars => OneCarrier'
<1> SUFFICES ASSUME LoginInv, OneCarrier, [Next]_vars PROVE OneCarrier'
  OBVIOUS
<1> QED BY BystandersCarry, SaveConsentCarries, ConsumeConsentCarries, SaveApprovedCarries,
           ConsumeStateCarries, SaveCodeCarries DEF Next, Handle

LEMMA InitCarrier == Init => OneCarrier
BY DEF Init, OneCarrier, CarriedOnce, Stored, Flies, Minted, Idle

-----------------------------------------------------------------------------
(* The theorems.                                                           *)

(* Every behaviour of the login flow keeps the inductive invariant.        *)
THEOREM LoginInvariant == Spec => [](LoginInv /\ OneCarrier)
BY InitLogin, NextLogin, InitCarrier, NextCarrier, PTL DEF Spec

(* The variables keep their types, and the cookie its bound.               *)
THEOREM LoginTypes == Spec => []TypeOK
<1>1. LoginInv => TypeOK
  BY DEF LoginInv, TablesOK, LocalsOK, LocalOK, CookiesOK, Own, TypeOK, Client, Pending, AuthCode, Local
<1> QED BY <1>1, LoginInvariant, PTL

(* A code for a person's account comes only out of a flow that this        *)
(* person's browser opened and approved: binderMatches ties the record to  *)
(* the cookie at the approval and again at the callback, and a cookie      *)
(* holds only binders of pages its own browser was shown.                  *)
THEOREM CodesStayHome == Spec => []CodeStaysWithItsBrowser
<1>1. LoginInv => CodeStaysWithItsBrowser
  <2> SUFFICES ASSUME LoginInv, NEW k \in Codes, mintedFor[k] # None
               PROVE  LET x == mintedFor[k].binder IN
                      /\ consents[x] # None /\ consents[x].browser = mintedFor[k].browser
                      /\ approvedBy[x] = mintedFor[k].browser
    BY DEF CodeStaysWithItsBrowser
  <2>1. CodeOK(k) /\ k \in drawn
    BY DEF LoginInv, CodesOK, CodeOK
  <2>2. mintedFor[k].binder \in Binders /\ mintedFor[k].binder \in drawn
    BY <2>1 DEF CodeOK, Mint
  <2>3. consents[mintedFor[k].binder] # None
    BY <2>2, PageAssumption DEF LoginInv, PagesOK
  <2> QED BY <2>1, <2>3 DEF CodeOK
<1> QED BY <1>1, LoginInvariant, PTL

(* One consent page gives at most one code and the code at most one grant: *)
(* a binder is carried by one record, one request or one code at a time.   *)
THEOREM OneLogin == Spec => []OneLoginPerConsent
<1>1. LoginInv /\ OneCarrier => OneLoginPerConsent
  <2> SUFFICES ASSUME LoginInv, OneCarrier PROVE OneLoginPerConsent
    OBVIOUS
  <2>1. \A k \in Codes : mintedFor[k] # None => k \in drawn /\ mintedFor[k].binder \in Binders
    BY DEF LoginInv, CodesOK, CodeOK, Mint
  <2>2. ASSUME NEW j \in Codes, NEW k \in Codes, mintedFor[j] # None, mintedFor[k] # None,
               mintedFor[j].binder = mintedFor[k].binder
        PROVE  j = k
    BY <2>1, <2>2 DEF OneCarrier, CarriedOnce, Minted
  <2>3. ASSUME NEW k \in Codes PROVE Len(granted[k]) <= 1
    <3>1. CASE k \in drawn
      BY <3>1 DEF LoginInv, CodesOK, CodeOK
    <3>2. CASE k \notin drawn
      <4>1. granted[k] = <<>>
        BY <3>2 DEF LoginInv, CodesOK, CodeOK
      <4> QED BY <4>1
    <3> QED BY <3>1, <3>2
  <2> QED BY <2>2, <2>3 DEF OneLoginPerConsent
<1> QED BY <1>1, LoginInvariant, PTL

(* What is granted is what the user saw: the record, the code and the      *)
(* redeemed request name the client, the URI and the challenge of the      *)
(* consent page.                                                           *)
THEOREM GrantsMatch == Spec => []GrantMatchesConsent
<1>1. LoginInv => GrantMatchesConsent
  <2> SUFFICES ASSUME LoginInv, NEW k \in Codes, NEW i \in 1..Len(granted[k])
               PROVE  granted[k][i] = consents[mintedFor[k].binder].ask
    BY DEF GrantMatchesConsent
  <2>1. CASE k \in drawn
    BY <2>1 DEF LoginInv, CodesOK, CodeOK
  <2>2. CASE k \notin drawn
    <3>1. granted[k] = <<>>
      BY <2>2 DEF LoginInv, CodesOK, CodeOK
    <3> QED BY <3>1
  <2> QED BY <2>1, <2>2
<1> QED BY <1>1, LoginInvariant, PTL

(* A code leaves only for a safe URI at a host that was allowed when the   *)
(* user was asked, through purges, re-registrations and restarts with      *)
(* other lists.                                                            *)
THEOREM CodesLeaveSafely == Spec => []CodeLeavesForSafeURI
<1>1. LoginInv => CodeLeavesForSafeURI
  <2> SUFFICES ASSUME LoginInv, NEW k \in Codes, mintedFor[k] # None
               PROVE  SafePage(consents[mintedFor[k].binder])
    BY DEF CodeLeavesForSafeURI, SafePage, SafeURI
  <2>1. mintedFor[k].binder \in Binders /\ mintedFor[k].binder \in drawn
    BY DEF LoginInv, CodesOK, CodeOK, Mint
  <2> QED BY <2>1 DEF LoginInv, PagesOK
<1> QED BY <1>1, LoginInvariant, PTL

-----------------------------------------------------------------------------
(* A browser keeps the binders of the flows it has under way.              *)

(* The pages its browser was shown after the one of x.                     *)
Newer(x) ==
    {y \in Binders : consents[y] # None /\ consents[y].browser = consents[x].browser
                       /\ consents[y].nth > consents[x].nth}

(* The browser owes x nothing any more: its time is over, or newer flows   *)
(* fill the cookie.                                                        *)
Past(x) ==
    \/ clock >= consents[x].at + PendingAuthTTL
    \/ Cardinality(Newer(x)) >= maxBinders

Restates(r, x) == req[r].pc = "restate" /\ req[r].rec.binder = x

(* The flow of x is under way, and its page has reached the browser.       *)
Live(x) == (\E h \in Handles : Stored(h, x)) \/ (\E r \in Reqs : Restates(r, x))
Shown(x) ==
    \/ \E h \in Handles : Stored(h, x) /\ (h \in out \/ pending[h].approved)
    \/ \E r \in Reqs : Restates(r, x)

(* The newest binder comes first.                                          *)
Sorted(values) ==
    \A i, j \in 1..Len(values) : i < j => consents[values[j]].nth < consents[values[i]].nth

(* A copy of the cookie of b, or what will replace it, has every binder    *)
(* that b must keep.                                                       *)
Keeps(values, b) ==
    \A x \in Binders : Live(x) /\ binderMatches(cookie[b].values, x)
                         => Past(x) \/ binderMatches(values, x)

Reading == {"load", "claim", "sweep", "pend", "approve", "callback"}

(* What a reply that shows a page carries with it.                         *)
Delivers(q) ==
    \A h \in Handles : q.gives = h /\ pending[h] # None /\ ~pending[h].approved =>
      /\ q.set # None /\ binderMatches(q.set, pending[h].binder)
      /\ consents[pending[h].binder].browser = q.browser

FlowOK(q) ==
    /\ Sorted(q.cookie)
    /\ q.pc \in Reading => Keeps(q.cookie, q.browser) /\ q.gives \notin Handles
    /\ q.set # None => q.browser \in Browsers /\ Sorted(q.set) /\ Keeps(q.set, q.browser)
    /\ q.pc = "approve" => q.handle \in out
    /\ Delivers(q)

FlowsOK == \A r \in Reqs : FlowOK(req[r])

(* A browser's cookie lasts as long as the pages it is for.                *)
LastsOK(b) ==
    /\ Sorted(cookie[b].values)
    /\ \A x \in Binders : binderMatches(cookie[b].values, x) =>
                            consents[x].at + PendingAuthTTL <= cookie[b].until

JarsOK == \A b \in Browsers : LastsOK(b)

ShownOK ==
    \A x \in Binders : Shown(x) =>
      Past(x) \/ binderMatches(cookie[consents[x].browser].values, x)

(* A browser waits for each reply.                                         *)
OneAtATime ==
    \A r, o \in Reqs : req[r].browser = req[o].browser /\ req[r].browser # None => r = o

Opened == {y \in Binders : consents[y] # None}

(* Pages are numbered in their order.                                      *)
NumbersOK ==
    \A x \in Binders : x \in drawn => consents[x].at <= clock /\ consents[x].nth <= Cardinality(Opened)

BinderInv == FlowsOK /\ JarsOK /\ ShownOK /\ OneAtATime /\ NumbersOK

(* What holds of the secrets in the locals q of a request.                 *)
Grounded(q) ==
    /\ Own(q.cookie, q.browser)
    /\ q.set # None => Own(q.set, q.browser)
    /\ q.gives \in Handles => q.gives \in drawn
    /\ q.pc \in Reading => q.browser \in Browsers

(* What a step may do to the flows under way: pages stay, and no flow that *)
(* was over comes back.                                                    *)
Mild ==
    /\ clock' \in Nat /\ clock <= clock'
    /\ drawn \subseteq drawn' /\ out \subseteq out'
    /\ \A x \in Binders \cap drawn : consents'[x] = consents[x] /\ (Live(x)' => Live(x))
    /\ \A h \in Handles \cap drawn : pending'[h] = pending[h] \/ pending'[h] = None

LEMMA PageOf ==
    ASSUME LoginInv, NEW x \in Binders, x \in drawn
    PROVE  /\ consents[x] \in Page /\ consents[x] # None
           /\ consents[x].browser \in Browsers /\ consents[x].at \in Nat /\ consents[x].nth \in Nat
<1>1. consents[x] \in Page
  BY DEF LoginInv, PagesOK
<1> QED BY <1>1, PageAssumption DEF Page

(* A browser owes ever less to a flow.                                     *)
LEMMA PastStays ==
    ASSUME LoginInv, Mild, NEW x \in Binders, x \in drawn, Past(x)
    PROVE  Past(x)'
<1>1. consents'[x] = consents[x] /\ consents[x].at \in Nat
  BY PageOf DEF Mild
<1>2. CASE clock >= consents[x].at + PendingAuthTTL
  <2>1. clock \in Nat /\ PendingAuthTTL \in Nat
    BY TimesAssumption DEF LoginInv, TablesOK
  <2> QED BY <1>1, <1>2, <2>1 DEF Mild, Past
<1>3. CASE Cardinality(Newer(x)) >= maxBinders
  <2>1. \A y \in Binders : consents[y] # None => y \in drawn
    BY DEF LoginInv, PagesOK
  <2>2. \A y \in Newer(x) : y \in Newer(x)'
    BY <1>1, <2>1 DEF Mild, Newer
  <2>3. IsFiniteSet(Newer(x)') /\ Newer(x) \subseteq Newer(x)'
    <3>1. Newer(x)' \subseteq Binders
      BY DEF Newer
    <3> QED BY <2>2, <3>1, FS_Subset, SecretsAssumption
  <2>4. Cardinality(Newer(x)) <= Cardinality(Newer(x)') /\ IsFiniteSet(Newer(x))
    BY <2>3, FS_Subset
  <2>5. Cardinality(Newer(x)) \in Nat /\ Cardinality(Newer(x)') \in Nat /\ maxBinders \in Nat
    BY <2>3, <2>4, FS_CardinalityType, TimesAssumption
  <2>6. Cardinality(Newer(x)') >= maxBinders
    BY <1>3, <2>4, <2>5
  <2> QED BY <2>6 DEF Past
<1> QED BY <1>2, <1>3 DEF Past

LEMMA SortedStays ==
    ASSUME LoginInv, Mild, NEW values, NEW b, Own(values, b), Sorted(values)
    PROVE  Sorted(values)'
<1>1. \A i \in 1..Len(values) : values[i] \in Binders \cap drawn
  BY ElementOfSeq DEF Own
<1> QED BY <1>1 DEF Sorted, Mild

LEMMA MatchesOwn ==
    ASSUME NEW values, NEW b, Own(values, b), NEW x, binderMatches(values, x)
    PROVE  x \in Binders /\ x \in drawn /\ consents[x].browser = b
<1>1. PICK i \in 1..Len(values) : values[i] = x
  BY DEF binderMatches
<1> QED BY <1>1, ElementOfSeq DEF Own

LEMMA KeepsStays ==
    ASSUME LoginInv, Mild, NEW values, NEW b \in Browsers, cookie'[b] = cookie[b], Keeps(values, b)
    PROVE  Keeps(values, b)'
<1> SUFFICES ASSUME NEW x \in Binders, Live(x)', binderMatches(cookie[b].values, x)'
             PROVE  Past(x)' \/ binderMatches(values, x)'
  BY DEF Keeps
<1>1. binderMatches(cookie[b].values, x)
  BY DEF binderMatches
<1>2. x \in drawn
  <2>1. Own(cookie[b].values, b)
    BY DEF LoginInv, CookiesOK
  <2> QED BY <1>1, <2>1, MatchesOwn
<1>3. Live(x)
  BY <1>2 DEF Mild
<1>4. Past(x) \/ binderMatches(values, x)
  BY <1>1, <1>3 DEF Keeps
<1> QED BY <1>2, <1>4, PastStays DEF binderMatches

LEMMA DeliversStays ==
    ASSUME LoginInv, Mild, NEW q, q.gives \in Handles => q.gives \in drawn, Delivers(q)
    PROVE  Delivers(q)'
<1> SUFFICES ASSUME NEW h \in Handles, q.gives = h, pending'[h] # None, ~pending'[h].approved
             PROVE  /\ q.set # None /\ binderMatches(q.set, pending'[h].binder)
                    /\ consents'[pending'[h].binder].browser = q.browser
  BY DEF Delivers, binderMatches
<1>1. h \in drawn /\ pending'[h] = pending[h]
  BY DEF Mild
<1>2. pending[h].binder \in Binders /\ pending[h].binder \in drawn
  BY <1>1 DEF LoginInv, RecordsOK, RecordOK, Pending
<1> QED BY <1>1, <1>2 DEF Delivers, Mild

(* Locals that were good stay good.                                        *)
LEMMA FlowStays ==
    ASSUME LoginInv, Mild, NEW q, Grounded(q), FlowOK(q),
           q.browser \in Browsers => cookie'[q.browser] = cookie[q.browser]
    PROVE  FlowOK(q)'
<1>1. Sorted(q.cookie)' /\ (q.set # None => Sorted(q.set)')
  BY SortedStays DEF Grounded, FlowOK
<1>2. q.pc \in Reading => Keeps(q.cookie, q.browser)' /\ q.gives \notin Handles
  BY KeepsStays DEF Grounded, FlowOK
<1>3. q.set # None => q.browser \in Browsers /\ Keeps(q.set, q.browser)'
  BY KeepsStays DEF FlowOK
<1>4. q.pc = "approve" => q.handle \in out'
  BY DEF FlowOK, Mild
<1>5. Delivers(q)'
  BY DeliversStays DEF Grounded, FlowOK
<1> QED BY <1>1, <1>2, <1>3, <1>4, <1>5 DEF FlowOK

LEMMA RequestGrounded ==
    ASSUME LoginInv, NEW r \in Reqs PROVE req[r] \in Local /\ Grounded(req[r])
<1>1. req[r] \in Local /\ LocalOK(req[r])
  BY DEF LoginInv, TablesOK, LocalsOK
<1> QED BY <1>1, SecretsAssumption DEF LocalOK, Grounded, Reading

LEMMA LiveDrawn ==
    ASSUME LoginInv, NEW x, Live(x) PROVE x \in Binders /\ x \in drawn
<1>1. ASSUME NEW h \in Handles, Stored(h, x) PROVE x \in Binders /\ x \in drawn
  BY <1>1 DEF Stored, LoginInv, RecordsOK, RecordOK, Pending
<1>2. ASSUME NEW r \in Reqs, Restates(r, x) PROVE x \in Binders /\ x \in drawn
  BY <1>2 DEF Restates, LoginInv, LocalsOK, LocalOK, Holding, RecordOK, Pending
<1> QED BY <1>1, <1>2 DEF Live

LEMMA ShownLive == ASSUME NEW x, Shown(x) PROVE Live(x)
BY DEF Shown, Live

(* The cookies stay as they are.                                           *)
LEMMA CookiesLast ==
    ASSUME LoginInv, Mild, NEW b \in Browsers, cookie'[b] = cookie[b], LastsOK(b)
    PROVE  LastsOK(b)'
<1>1. PICK c : c = cookie[b] /\ c = cookie'[b]
  OBVIOUS
<1>2. Own(c.values, b) /\ Sorted(c.values)
  BY <1>1 DEF LoginInv, CookiesOK, LastsOK
<1>3. Sorted(c.values)'
  BY <1>2, SortedStays
<1>4. ASSUME NEW x \in Binders, binderMatches(c.values, x)
      PROVE  consents'[x].at + PendingAuthTTL <= c.until
  <2>1. x \in drawn
    BY <1>2, <1>4, MatchesOwn
  <2>2. consents'[x] = consents[x]
    BY <2>1 DEF Mild
  <2> QED BY <1>1, <1>4, <2>2 DEF LastsOK
<1> QED BY <1>1, <1>3, <1>4 DEF LastsOK, Sorted, binderMatches

(* A step that sets no cookie and shows no page.                           *)
LEMMA BinderStep ==
    ASSUME LoginInv, BinderInv, Mild, cookie' = cookie, FlowsOK', OneAtATime', NumbersOK',
           \A x \in Binders : Shown(x)' => Shown(x)
    PROVE  BinderInv'
<1>1. JarsOK'
  BY CookiesLast DEF BinderInv, JarsOK
<1>2. ShownOK'
  <2> SUFFICES ASSUME NEW x \in Binders, Shown(x)'
               PROVE  Past(x)' \/ binderMatches(cookie[consents[x].browser].values, x)'
    BY DEF ShownOK
  <2>1. Shown(x) /\ x \in drawn
    BY ShownLive, LiveDrawn
  <2>2. consents'[x] = consents[x]
    BY <2>1 DEF Mild
  <2>3. Past(x) \/ binderMatches(cookie[consents[x].browser].values, x)
    BY <2>1 DEF BinderInv, ShownOK
  <2> QED BY <2>1, <2>2, <2>3, PastStays DEF binderMatches
<1> QED BY <1>1, <1>2 DEF BinderInv

(* A step that moreover opens no page and stores no record.                *)
Still ==
    /\ UNCHANGED <<cookie, consents, out>>
    /\ clock' \in Nat /\ clock <= clock'
    /\ drawn \subseteq drawn' /\ drawn' \cap Binders = drawn \cap Binders
    /\ \A h \in Handles : pending'[h] = pending[h] \/ pending'[h] = None

LEMMA StillMild ==
    ASSUME LoginInv, NumbersOK, Still, \A o \in Reqs : \A x : Restates(o, x)' => Shown(x)
    PROVE  Mild /\ NumbersOK' /\ \A x \in Binders : Shown(x)' => Shown(x)
<1>1. \A h \in Handles : \A x : Stored(h, x)' => Stored(h, x) /\ pending'[h] = pending[h]
  BY DEF Still, Stored
<1>2. \A x : Shown(x)' => Shown(x)
  BY <1>1 DEF Shown, Still
<1>3. \A x : Live(x)' => Live(x)
  BY <1>1, ShownLive DEF Live
<1>4. Mild
  BY <1>3 DEF Mild, Still
<1>5. NumbersOK'
  <2> SUFFICES ASSUME NEW x \in Binders, x \in drawn'
               PROVE  consents'[x].at <= clock' /\ consents'[x].nth <= Cardinality(Opened)'
    BY DEF NumbersOK
  <2>1. x \in drawn /\ consents' = consents /\ Opened' = Opened
    BY DEF Still, Opened
  <2>2. consents[x].at \in Nat /\ clock \in Nat /\ clock' \in Nat /\ clock <= clock'
    BY <2>1, PageOf DEF Still, LoginInv, TablesOK
  <2> QED BY <2>1, <2>2 DEF NumbersOK
<1> QED BY <1>2, <1>4, <1>5

(* A request goes on with locals n; nobody else has its browser.           *)
Alone(r, b) == b # None => \A o \in Reqs : o # r => req[o].browser # b

LEMMA OthersFlow ==
    ASSUME LoginInv, BinderInv, Mild, NEW r \in Reqs, NEW n, Become(r, n), FlowOK(n)',
           Alone(r, n.browser), \A o \in Reqs : o # r => cookie'[req[o].browser] = cookie[req[o].browser]
    PROVE  FlowsOK' /\ OneAtATime'
<1>1. req'[r] = n /\ \A o \in Reqs : o # r => req'[o] = req[o]
  BY DEF Become, LoginInv, TablesOK
<1>2. ASSUME NEW o \in Reqs PROVE FlowOK(req[o])'
  <2>1. CASE o = r
    BY <1>1, <2>1 DEF FlowOK, Keeps, Sorted, Delivers
  <2>2. CASE o # r
    <3>0. cookie'[req[o].browser] = cookie[req[o].browser]
      BY <2>2
    <3>1. PICK l : l = req[o] /\ l = req'[o]
      BY <1>1, <2>2
    <3>2. Grounded(l) /\ FlowOK(l)
      BY <3>1, RequestGrounded DEF BinderInv, FlowsOK
    <3>3. cookie'[l.browser] = cookie[l.browser]
      BY <3>0, <3>1
    <3>4. FlowOK(l)'
      BY <3>2, <3>3, FlowStays
    <3> QED BY <3>1, <3>4 DEF FlowOK, Keeps, Sorted, Delivers
  <2> QED BY <2>1, <2>2
<1>3. OneAtATime'
  BY <1>1 DEF BinderInv, OneAtATime, Alone
<1> QED BY <1>2, <1>3 DEF FlowsOK

LEMMA StillRequest ==
    ASSUME LoginInv, BinderInv, Still, NEW r \in Reqs, NEW n, Become(r, n), Alone(r, n.browser),
           Grounded(n), FlowOK(n), n.pc # "restate" \/ Shown(n.rec.binder)
    PROVE  BinderInv'
<1>1. req'[r] = n /\ \A o \in Reqs : o # r => req'[o] = req[o]
  BY DEF Become, LoginInv, TablesOK
<1>2. \A o \in Reqs : \A x : Restates(o, x)' => Shown(x)
  BY <1>1 DEF Restates, Shown
<1>3. Mild /\ NumbersOK' /\ \A x \in Binders : Shown(x)' => Shown(x)
  BY <1>2, StillMild DEF BinderInv
<1>4. cookie' = cookie
  BY DEF Still
<1>5. FlowOK(n)'
  BY <1>3, <1>4, FlowStays
<1>6. FlowsOK' /\ OneAtATime'
  BY <1>3, <1>4, <1>5, OthersFlow
<1> QED BY <1>3, <1>4, <1>6, BinderStep

(* Nobody moves.                                                           *)
LEMMA StillEnvironment ==
    ASSUME LoginInv, BinderInv, Still, \A o \in Reqs : req'[o] = req[o] \/ req'[o] = Idle
    PROVE  BinderInv'
<1>1. Idle.pc = "idle" /\ Idle.browser = None /\ Idle.set = None /\ Idle.gives = None /\ Idle.cookie = <<>>
  BY DEF Idle
<1>2. \A o \in Reqs : \A x : Restates(o, x)' => Shown(x)
  BY <1>1 DEF Restates, Shown
<1>3. Mild /\ NumbersOK' /\ \A x \in Binders : Shown(x)' => Shown(x)
  BY <1>2, StillMild DEF BinderInv
<1>4. cookie' = cookie
  BY DEF Still
<1>5. Grounded(Idle) /\ FlowOK(Idle)
  <2>1. Own(<<>>, None)
    BY EmptyOwn
  <2> QED BY <1>1, <2>1, SecretsAssumption DEF Grounded, FlowOK, Reading, Sorted, Delivers
<1>6. ASSUME NEW o \in Reqs PROVE FlowOK(req[o])'
  <2>1. PICK l : l = req'[o]
    OBVIOUS
  <2>2. Grounded(l) /\ FlowOK(l)
    BY <1>5, <2>1, RequestGrounded DEF BinderInv, FlowsOK
  <2>3. FlowOK(l)'
    BY <1>3, <1>4, <2>2, FlowStays
  <2> QED BY <2>1, <2>3 DEF FlowOK, Keeps, Sorted, Delivers
<1>7. OneAtATime'
  BY <1>1 DEF BinderInv, OneAtATime
<1> QED BY <1>3, <1>4, <1>6, <1>7, BinderStep DEF FlowsOK

-----------------------------------------------------------------------------
(* The steps that leave the flows as they are.                             *)

LEMMA StaysAlone ==
    ASSUME BinderInv, NEW r \in Reqs PROVE Alone(r, req[r].browser)
BY DEF BinderInv, OneAtATime, Alone

LEMMA RefuseFlow ==
    ASSUME LoginInv, BinderInv, Still, NEW r \in Reqs, Refuse(r) PROVE BinderInv'
<1>1. \A o \in Reqs : req'[o] = req[o] \/ req'[o] = Idle
  BY DEF Refuse, Become, LoginInv, TablesOK
<1> QED BY <1>1, StillEnvironment

(* The locals n that q turns into keep its browser and its Set-Cookie.     *)
Descends(n, q) ==
    /\ n.browser = q.browser /\ n.set = q.set
    /\ n.cookie = q.cookie \/ (n.cookie = <<>> /\ n.pc \notin Reading)
    /\ n.pc \in Reading => q.pc \in Reading
    /\ n.pc \notin {"approve", "restate"}
    /\ n.gives = q.gives \/ n.gives \notin Handles

LEMMA DescendOK ==
    ASSUME NEW n, NEW q, Descends(n, q), Grounded(q), FlowOK(q)
    PROVE  Grounded(n) /\ FlowOK(n)
<1>1. Own(n.cookie, n.browser) /\ Sorted(n.cookie)
  <2>1. CASE n.cookie = q.cookie
    BY <2>1 DEF Descends, Grounded, FlowOK
  <2>2. CASE n.cookie = <<>>
    BY <2>2, EmptyOwn DEF Sorted
  <2> QED BY <2>1, <2>2 DEF Descends
<1>2. Grounded(n)
  BY <1>1 DEF Descends, Grounded
<1>3. Delivers(n)
  BY DEF Descends, FlowOK, Delivers
<1>4. n.pc \in Reading => Keeps(n.cookie, n.browser) /\ n.gives \notin Handles
  BY DEF Descends, FlowOK
<1> QED BY <1>1, <1>2, <1>3, <1>4 DEF Descends, FlowOK

LEMMA DescendFlow ==
    ASSUME LoginInv, BinderInv, Still, NEW r \in Reqs, NEW n, Become(r, n), Descends(n, req[r])
    PROVE  BinderInv'
<1>1. PICK q : q = req[r]
  OBVIOUS
<1>2. Grounded(q) /\ FlowOK(q) /\ Alone(r, q.browser) /\ Descends(n, q)
  BY <1>1, RequestGrounded, StaysAlone DEF BinderInv, FlowsOK
<1>3. Grounded(n) /\ FlowOK(n)
  BY <1>2, DescendOK
<1>4. Alone(r, n.browser) /\ n.pc # "restate"
  BY <1>2 DEF Descends
<1> QED BY <1>3, <1>4, StillRequest

LEMMA GotoFlow ==
    ASSUME LoginInv, BinderInv, Still, NEW r \in Reqs, req[r].pc \in Reading,
           NEW pc \in {"claim", "sweep", "pend"}, Goto(r, pc)
    PROVE  BinderInv'
<1>1. PICK l \in Local : l = req[r]
  BY DEF LoginInv, TablesOK
<1>2. PICK n : n = [l EXCEPT !.pc = pc]
  OBVIOUS
<1>3. Descends(n, l)
  BY <1>1, <1>2 DEF Local, Descends, Reading
<1> QED BY <1>1, <1>2, <1>3, DescendFlow DEF Goto

(* An answer with the Set-Cookie the request has prepared.                 *)
LEMMA AnswerFlow ==
    ASSUME LoginInv, BinderInv, Still, NEW r \in Reqs, NEW g, g = None \/ g = req[r].gives,
           Reply(r, req[r].set, g)
    PROVE  BinderInv'
<1>1. PICK q : q = req[r]
  OBVIOUS
<1>2. PICK n : n = Answer(q.browser, q.set, g)
  OBVIOUS
<1>3. n.pc = "reply" /\ n.browser = q.browser /\ n.set = q.set /\ n.cookie = <<>> /\ n.gives = g
  BY <1>2 DEF Answer, Idle
<1>4. Descends(n, q)
  BY <1>1, <1>3, SecretsAssumption DEF Descends, Reading
<1> QED BY <1>1, <1>2, <1>4, DescendFlow DEF Reply, Answer

LEMMA UnchangedStill ==
    ASSUME LoginInv, UNCHANGED <<clock, cookie, consents, out, drawn, pending>> PROVE Still
BY DEF LoginInv, TablesOK, Still

LEMMA PurgeStill ==
    ASSUME LoginInv, PurgeExpired, UNCHANGED <<clock, cookie, consents, out, drawn>> PROVE Still
<1>1. \A h \in Handles : pending'[h] = pending[h] \/ pending'[h] = None
  BY PurgedRecords
<1> QED BY <1>1 DEF LoginInv, TablesOK, Still

LEMMA ConsumeStill ==
    ASSUME LoginInv, NEW g, ConsumePendingAuth(g), UNCHANGED <<clock, cookie, consents, out, drawn>>
    PROVE  Still
<1>1. \A h \in Handles : pending'[h] = pending[h] \/ pending'[h] = None
  BY ConsumedRecords
<1> QED BY <1>1 DEF LoginInv, TablesOK, Still

(* A request takes the cookie of its browser along.  A cookie that is over *)
(* held no flow with time left.                                            *)
LEMMA SendFlow ==
    ASSUME LoginInv, BinderInv, Still, ~Tabs, NEW r \in Reqs, NEW b \in Browsers, Free(b), NEW n,
           Become(r, n), n.pc \in Reading, n.browser = b, n.cookie = readBinders(b),
           n.set = None, n.gives = None, n.pc = "approve" => n.handle \in out
    PROVE  BinderInv'
<1>1. Own(n.cookie, b)
  BY ReadOwn
<1>2. LastsOK(b)
  BY DEF BinderInv, JarsOK
<1>3. Sorted(n.cookie)
  BY <1>2 DEF LastsOK, readBinders, Sorted
<1>4. Keeps(n.cookie, b)
  <2> SUFFICES ASSUME NEW x \in Binders, binderMatches(cookie[b].values, x)
               PROVE  Past(x) \/ binderMatches(n.cookie, x)
    BY DEF Keeps
  <2>1. CASE clock < cookie[b].until
    BY <2>1 DEF readBinders
  <2>2. CASE ~(clock < cookie[b].until)
    <3>1. x \in drawn
      BY MatchesOwn DEF LoginInv, CookiesOK
    <3>2. /\ consents[x].at + PendingAuthTTL <= cookie[b].until
          /\ consents[x].at \in Nat /\ PendingAuthTTL \in Nat /\ clock \in Nat /\ cookie[b].until \in Nat
      BY <1>2, <3>1, PageOf, TimesAssumption DEF LastsOK, LoginInv, TablesOK
    <3> QED BY <2>2, <3>2 DEF Past
  <2> QED BY <2>1, <2>2
<1>5. FlowOK(n)
  BY <1>3, <1>4, SecretsAssumption DEF FlowOK, Delivers
<1>6. Grounded(n)
  BY <1>1, SecretsAssumption DEF Grounded
<1>7. Alone(r, n.browser) /\ n.pc # "restate"
  BY DEF Free, Alone, Reading
<1> QED BY <1>5, <1>6, <1>7, StillRequest

LEMMA VisitFlow ==
    ASSUME LoginInv, BinderInv, ~Tabs, NEW r \in Reqs, NEW b \in Browsers, NEW a \in Ask, Visit(r, b, a)
    PROVE  BinderInv'
<1>1. PICK n : n = [Send(r, b, "load") EXCEPT !.ask = a]
  OBVIOUS
<1>2. /\ n.pc = "load" /\ n.browser = b /\ n.cookie = readBinders(b) /\ n.set = None /\ n.gives = None
  BY <1>1 DEF Send, Idle
<1>3. Still /\ Free(b) /\ Become(r, n)
  BY <1>1, UnchangedStill DEF Visit, tables, history
<1> QED BY <1>2, <1>3, SendFlow DEF Reading

LEMMA PostFlow ==
    ASSUME LoginInv, BinderInv, ~Tabs, NEW r \in Reqs, NEW b \in Browsers, NEW h \in out \cap Handles,
           Post(r, b, h) \/ Return(r, b, h)
    PROVE  BinderInv'
<1>1. PICK pc \in {"approve", "callback"} : Become(r, [Send(r, b, pc) EXCEPT !.handle = h])
  BY DEF Post, Return
<1>2. PICK n : n = [Send(r, b, pc) EXCEPT !.handle = h]
  OBVIOUS
<1>3. /\ n.pc = pc /\ n.browser = b /\ n.cookie = readBinders(b) /\ n.set = None /\ n.gives = None
      /\ n.handle = h
  BY <1>2 DEF Send, Idle
<1>4. Still /\ Free(b)
  BY UnchangedStill DEF Post, Return, tables, history
<1> QED BY <1>1, <1>2, <1>3, <1>4, SendFlow DEF Reading

LEMMA ExchangeFlow ==
    ASSUME LoginInv, BinderInv, NEW r \in Reqs, NEW k \in Codes, NEW a \in Ask, Exchange(r, k, a)
    PROVE  BinderInv'
<1>1. PICK n : n = [Idle EXCEPT !.pc = "redeem", !.handle = k, !.ask = a]
  OBVIOUS
<1>2. n.pc = "redeem" /\ n.browser = None /\ n.cookie = <<>> /\ n.set = None /\ n.gives = None
  BY <1>1 DEF Idle
<1>3. Still /\ Become(r, n)
  BY <1>1, UnchangedStill DEF Exchange, tables, history
<1>4. Grounded(n) /\ FlowOK(n)
  BY <1>2, EmptyOwn, SecretsAssumption DEF Grounded, FlowOK, Reading, Sorted, Delivers
<1> QED BY <1>2, <1>3, <1>4, StillRequest DEF Alone

(* The code is no handle.                                                  *)
LEMMA SaveCodeFlow ==
    ASSUME LoginInv, BinderInv, NEW r \in Reqs, SaveCode(r) PROVE BinderInv'
<1>1. PICK q \in Local : q = req[r] /\ LocalOK(q)
  BY LocalOf
<1>2. CASE Reply(r, q.set, None) /\ drawn' = drawn
  <2>1. Still
    BY <1>2, UnchangedStill DEF SaveCode
  <2> QED BY <1>1, <1>2, <2>1, AnswerFlow
<1>3. ASSUME NEW k \in Codes \ drawn, drawn' = drawn \cup {k},
             Become(r, [q EXCEPT !.pc = "extend", !.at = clock, !.gives = k])
      PROVE  BinderInv'
  <2>1. Still
    <3>1. drawn' \cap Binders = drawn \cap Binders /\ drawn \subseteq drawn'
      BY <1>3, SecretsAssumption
    <3>2. UNCHANGED <<clock, cookie, consents, out, pending>> /\ clock \in Nat
      BY DEF SaveCode, LoginInv, TablesOK
    <3> QED BY <3>1, <3>2 DEF Still
  <2>2. PICK n : n = [q EXCEPT !.pc = "extend", !.at = clock, !.gives = k]
    OBVIOUS
  <2>3. Descends(n, q)
    BY <1>1, <2>2, SecretsAssumption DEF Local, Descends, Reading
  <2> QED BY <1>1, <1>3, <2>1, <2>2, <2>3, DescendFlow
<1> QED BY <1>1, <1>2, <1>3 DEF SaveCode

LEMMA ExtendReadFlow ==
    ASSUME LoginInv, BinderInv, NEW r \in Reqs, ExtendRead(r) PROVE BinderInv'
<1>1. PICK q \in Local : q = req[r] /\ LocalOK(q)
  BY LocalOf
<1>2. PICK c : c = clients[q.rec.ask.client]
  OBVIOUS
<1>3. Still
  BY UnchangedStill DEF ExtendRead, tables, history
<1>4. Reply(r, q.set, q.gives) \/ Become(r, [q EXCEPT !.pc = "renew", !.lease = c])
  BY <1>1, <1>2 DEF ExtendRead
<1>5. CASE Reply(r, q.set, q.gives)
  BY <1>1, <1>3, <1>5, AnswerFlow
<1>6. CASE Become(r, [q EXCEPT !.pc = "renew", !.lease = c])
  <2>1. PICK n : n = [q EXCEPT !.pc = "renew", !.lease = c]
    OBVIOUS
  <2>2. Descends(n, q)
    BY <1>1, <2>1 DEF Local, Descends, Reading
  <2> QED BY <1>1, <1>3, <1>6, <2>1, <2>2, DescendFlow
<1> QED BY <1>4, <1>5, <1>6

LEMMA StoreFaultFlow ==
    ASSUME LoginInv, BinderInv, NEW r \in Reqs, StoreFault(r) PROVE BinderInv'
<1>1. Still
  BY UnchangedStill DEF StoreFault, tables, history
<1>2. \/ Refuse(r)
      \/ req[r].pc = "sweep" /\ Goto(r, "pend")
      \/ Reply(r, req[r].set, None)
      \/ Reply(r, req[r].set, req[r].gives)
  BY DEF StoreFault
<1>3. CASE req[r].pc = "sweep" /\ Goto(r, "pend")
  BY <1>1, <1>3, GotoFlow DEF Reading
<1>4. CASE Reply(r, req[r].set, None)
  BY <1>1, <1>4, AnswerFlow
<1>5. CASE Reply(r, req[r].set, req[r].gives)
  <2>1. PICK g : g = req[r].gives
    OBVIOUS
  <2> QED BY <1>1, <1>5, <2>1, AnswerFlow
<1> QED BY <1>1, <1>2, <1>3, <1>4, <1>5, RefuseFlow

(* The steps that set no cookie, open no page and hand no record on.       *)
LEMMA BystandersKeep ==
    ASSUME LoginInv, BinderInv,
           \/ \E c \in Clients, uris \in SUBSET Uris : Register(c, uris)
           \/ \E r \in Reqs : LoadClient(r) \/ maybePurge(r) \/ Sweep(r) \/ ExtendSave(r)
                                \/ Redeem(r) \/ Lose(r)
           \/ Ticker
           \/ \E hosts \in AllowLists : Restart(hosts)
           \/ Tick
           \/ UNCHANGED vars
    PROVE  BinderInv'
<1>1. CASE \E c \in Clients, uris \in SUBSET Uris : Register(c, uris)
  BY <1>1, UnchangedStill, StillEnvironment DEF Register, history
<1>2. ASSUME NEW r \in Reqs, LoadClient(r) PROVE BinderInv'
  <2>1. Still /\ req[r].pc \in Reading
    BY <1>2, UnchangedStill DEF LoadClient, tables, history, Reading
  <2> QED BY <1>2, <2>1, RefuseFlow, GotoFlow DEF LoadClient
<1>3. ASSUME NEW r \in Reqs, maybePurge(r) PROVE BinderInv'
  <2>1. Still /\ req[r].pc \in Reading
    BY <1>3, UnchangedStill DEF maybePurge, tables, history, Reading
  <2> QED BY <1>3, <2>1, GotoFlow DEF maybePurge
<1>4. ASSUME NEW r \in Reqs, Sweep(r) PROVE BinderInv'
  <2>1. Still /\ req[r].pc \in Reading
    BY <1>4, PurgeStill DEF Sweep, history, Reading
  <2> QED BY <1>4, <2>1, GotoFlow DEF Sweep
<1>5. ASSUME NEW r \in Reqs, ExtendSave(r) PROVE BinderInv'
  <2>1. Still
    BY <1>5, UnchangedStill DEF ExtendSave, history
  <2>2. PICK g : g = req[r].gives
    OBVIOUS
  <2> QED BY <1>5, <2>1, <2>2, AnswerFlow DEF ExtendSave
<1>6. ASSUME NEW r \in Reqs, Redeem(r) PROVE BinderInv'
  BY <1>6, UnchangedStill, RefuseFlow DEF Redeem
<1>7. ASSUME NEW r \in Reqs, Lose(r) PROVE BinderInv'
  BY <1>7, UnchangedStill, RefuseFlow DEF Lose, tables, history
<1>8. CASE Ticker
  BY <1>8, PurgeStill, StillEnvironment DEF Ticker, history
<1>9. CASE \E hosts \in AllowLists : Restart(hosts)
  BY <1>9, UnchangedStill, StillEnvironment DEF Restart, tables, history
<1>10. CASE Tick
  <2>1. Still
    BY <1>10 DEF Tick, tables, history, Still, LoginInv, TablesOK
  <2> QED BY <1>10, <2>1, StillEnvironment DEF Tick
<1>11. CASE UNCHANGED vars
  BY <1>11, UnchangedStill, StillEnvironment DEF vars, tables, history
<1> QED BY <1>1, <1>2, <1>3, <1>4, <1>5, <1>6, <1>7, <1>8, <1>9, <1>10, <1>11

-----------------------------------------------------------------------------
(* The steps that hand a record on or change a cookie.                     *)

(* A binder that is not in the cookie leaves it as it is.                  *)
LEMMA DropNothing ==
    ASSUME NEW values \in Seq(Binders), NEW x, ~binderMatches(values, x)
    PROVE  dropBinder(values, x) = values
BY DEF dropBinder, binderMatches

(* The approval: a page that was shown is restated, or the cookie kept.    *)
LEMMA ConsumeConsentFlow ==
    ASSUME LoginInv, BinderInv, NEW r \in Reqs, ConsumeConsent(r) PROVE BinderInv'
<1>1. PICK q \in Local : q = req[r] /\ LocalOK(q)
  BY LocalOf
<1>2. q.pc = "approve" /\ q.browser \in Browsers /\ q.handle \in Handles
  BY <1>1 DEF ConsumeConsent, LocalOK
<1>3. PICK p : p = pending[q.handle]
  OBVIOUS
<1>4. Still
  BY ConsumeStill DEF ConsumeConsent, history
<1>5. /\ Grounded(q) /\ FlowOK(q) /\ Alone(r, q.browser) /\ Keeps(q.cookie, q.browser)
      /\ q.handle \in out /\ q.cookie \in Seq(Binders)
  BY <1>1, <1>2, RequestGrounded, StaysAlone DEF BinderInv, FlowsOK, FlowOK, Reading, Local
<1>6. \/ Refuse(r)
      \/ ~binderMatches(q.cookie, p.binder) /\ Reply(r, dropBinder(q.cookie, p.binder), None)
      \/ p # None /\ Become(r, [q EXCEPT !.pc = "restate", !.rec = p])
  BY <1>1, <1>3 DEF ConsumeConsent
<1>7. CASE Refuse(r)
  BY <1>4, <1>7, RefuseFlow
<1>8. CASE ~binderMatches(q.cookie, p.binder) /\ Reply(r, dropBinder(q.cookie, p.binder), None)
  <2>1. Reply(r, q.cookie, None)
    BY <1>5, <1>8, DropNothing
  <2>2. PICK n : n = Answer(q.browser, q.cookie, None)
    OBVIOUS
  <2>3. /\ n.pc = "reply" /\ n.browser = q.browser /\ n.set = q.cookie /\ n.cookie = <<>>
        /\ n.gives = None
    BY <2>2 DEF Answer, Idle
  <2>4. Become(r, n)
    BY <1>1, <2>1, <2>2 DEF Reply, Answer
  <2>5. Grounded(n)
    BY <1>5, <2>3, EmptyOwn, SecretsAssumption DEF Grounded, Reading
  <2>6. FlowOK(n)
    BY <1>2, <1>5, <2>3, SecretsAssumption DEF FlowOK, Reading, Sorted, Delivers
  <2> QED BY <1>4, <1>5, <2>3, <2>4, <2>5, <2>6, StillRequest
<1>9. CASE p # None /\ Become(r, [q EXCEPT !.pc = "restate", !.rec = p])
  <2>1. PICK n : n = [q EXCEPT !.pc = "restate", !.rec = p]
    OBVIOUS
  <2>2. /\ n.pc = "restate" /\ n.browser = q.browser /\ n.set = q.set /\ n.cookie = q.cookie
        /\ n.gives = q.gives /\ n.rec = p
    BY <2>1 DEF Local
  <2>3. Shown(p.binder)
    BY <1>2, <1>3, <1>5, <1>9 DEF Shown, Stored
  <2>4. Grounded(n) /\ FlowOK(n)
    BY <1>5, <2>2 DEF Grounded, FlowOK, Reading, Delivers
  <2> QED BY <1>4, <1>5, <1>9, <2>1, <2>2, <2>3, <2>4, StillRequest
<1> QED BY <1>6, <1>7, <1>8, <1>9

(* dropBinder keeps the order and every other binder.                      *)
LEMMA DropKeeps ==
    ASSUME NEW values, NEW b, Own(values, b), Sorted(values), NEW x
    PROVE  /\ Sorted(dropBinder(values, x))
           /\ \A y : y # x /\ binderMatches(values, y) => binderMatches(dropBinder(values, x), y)
<1>1. PICK w : w = dropBinder(values, x)
  OBVIOUS
<1>2. values \in Seq(Binders) /\ Len(values) \in Nat
  BY LenProperties DEF Own
<1>3. CASE w = values
  BY <1>1, <1>3
<1>4. ASSUME NEW k \in 1..Len(values), values[k] = x,
             w \in Seq(Binders), Len(w) = Len(values) - 1,
             \A i \in 1..Len(w) : w[i] = values[IF i < k THEN i ELSE i + 1]
      PROVE  Sorted(w) /\ \A y : y # x /\ binderMatches(values, y) => binderMatches(w, y)
  <2>1. Sorted(w)
    <3> SUFFICES ASSUME NEW i \in 1..Len(w), NEW j \in 1..Len(w), i < j
                 PROVE  consents[w[j]].nth < consents[w[i]].nth
      BY DEF Sorted
    <3>1. PICK m \in 1..Len(values), n \in 1..Len(values) : w[i] = values[m] /\ w[j] = values[n] /\ m < n
      <4>1. /\ w[i] = values[IF i < k THEN i ELSE i + 1]
            /\ w[j] = values[IF j < k THEN j ELSE j + 1]
        BY <1>4
      <4>2. /\ (IF i < k THEN i ELSE i + 1) \in 1..Len(values)
            /\ (IF j < k THEN j ELSE j + 1) \in 1..Len(values)
            /\ (IF i < k THEN i ELSE i + 1) < (IF j < k THEN j ELSE j + 1)
        BY <1>2, <1>4
      <4> QED BY <4>1, <4>2
    <3> QED BY <3>1 DEF Sorted
  <2>2. ASSUME NEW y, y # x, binderMatches(values, y) PROVE binderMatches(w, y)
    <3>1. PICK j \in 1..Len(values) : values[j] = y
      BY <2>2 DEF binderMatches
    <3>2. j # k
      BY <1>4, <2>2, <3>1
    <3>3. PICK i \in 1..Len(w) : j = IF i < k THEN i ELSE i + 1
      <4>1. CASE j < k
        <5>1. j \in 1..Len(w)
          BY <1>2, <1>4, <4>1
        <5> QED BY <4>1, <5>1
      <4>2. CASE ~(j < k)
        <5>1. j - 1 \in 1..Len(w) /\ ~(j - 1 < k) /\ j = (j - 1) + 1
          BY <1>2, <1>4, <3>2, <4>2
        <5> QED BY <5>1
      <4> QED BY <4>1, <4>2
    <3>4. w[i] = y
      BY <1>4, <3>1, <3>3
    <3> QED BY <3>4 DEF binderMatches
  <2> QED BY <2>1, <2>2
<1>5. \/ w = values
      \/ \E k \in 1..Len(values) :
           /\ values[k] = x
           /\ w \in Seq(Binders) /\ Len(w) = Len(values) - 1
           /\ \A i \in 1..Len(w) : w[i] = values[IF i < k THEN i ELSE i + 1]
  BY <1>1, <1>2, DropShape
<1> QED BY <1>1, <1>3, <1>4, <1>5

(* The callback burns the record: nothing carries its binder any more but  *)
(* the request itself.                                                     *)
LEMMA BurnedIsOver ==
    ASSUME LoginInv, OneCarrier, NEW r \in Reqs, NEW n, Become(r, n), n.pc # "restate",
           NEW g \in Handles, pending[g] # None, ConsumePendingAuth(g), NEW x, x = pending[g].binder
    PROVE  ~Live(x)'
<1>2. x \in Binders /\ Stored(g, x)
  BY DEF LoginInv, RecordsOK, RecordOK, Pending, Stored
<1>3. pending'[g] = None /\ \A h \in Handles : h # g => pending'[h] = pending[h]
  BY DEF ConsumePendingAuth, LoginInv, TablesOK
<1>4. req'[r] = n /\ \A o \in Reqs : o # r => req'[o] = req[o]
  BY DEF Become, LoginInv, TablesOK
<1>5. CarriedOnce(x)
  BY <1>2 DEF OneCarrier
<1>6. \A h \in Handles : ~Stored(h, x)'
  BY <1>2, <1>3, <1>5 DEF CarriedOnce, Stored
<1>7. \A o \in Reqs : ~Restates(o, x)'
  <2>1. \A o \in Reqs : ~Flies(o, x)
    BY <1>2, <1>5 DEF CarriedOnce
  <2> QED BY <1>4, <2>1 DEF Restates, Flies
<1> QED BY <1>6, <1>7 DEF Live

LEMMA ConsumeStateFlow ==
    ASSUME LoginInv, OneCarrier, BinderInv, NEW r \in Reqs, ConsumeState(r) PROVE BinderInv'
<1>1. PICK q \in Local : q = req[r] /\ LocalOK(q)
  BY LocalOf
<1>2. q.pc = "callback" /\ q.browser \in Browsers /\ q.handle \in Handles
  BY <1>1 DEF ConsumeState, LocalOK
<1>3. PICK p : p = pending[q.handle]
  OBVIOUS
<1>4. PICK s : s = dropBinder(q.cookie, p.binder)
  OBVIOUS
<1>5. Still /\ cookie' = cookie
  BY ConsumeStill DEF ConsumeState, history
<1>6. /\ Grounded(q) /\ FlowOK(q) /\ Alone(r, q.browser) /\ Keeps(q.cookie, q.browser)
      /\ q.gives \notin Handles /\ Sorted(q.cookie) /\ Own(q.cookie, q.browser)
  BY <1>1, <1>2, RequestGrounded, StaysAlone DEF BinderInv, FlowsOK, FlowOK, Reading, Grounded
<1>7. \/ Refuse(r)
      \/ p # None /\ Reply(r, s, None)
      \/ p # None /\ Become(r, [q EXCEPT !.pc = "code", !.rec = p, !.set = s])
  BY <1>1, <1>3, <1>4 DEF ConsumeState
<1>8. CASE Refuse(r)
  BY <1>5, <1>8, RefuseFlow
<1>9. ASSUME p # None, NEW n, Become(r, n), n.pc \in {"reply", "code"}, n.browser = q.browser,
             n.set = s, n.cookie \in {q.cookie, <<>>}, n.gives \in {q.gives, None}
      PROVE  BinderInv'
  <2>1. req'[r] = n /\ \A o \in Reqs : o # r => req'[o] = req[o]
    BY <1>9 DEF Become, LoginInv, TablesOK
  <2>2. \A o \in Reqs : \A x : Restates(o, x)' => Shown(x)
    BY <1>9, <2>1 DEF Restates, Shown
  <2>3. Mild /\ NumbersOK' /\ \A x \in Binders : Shown(x)' => Shown(x)
    BY <1>5, <2>2, StillMild DEF BinderInv
  <2>4. Own(s, q.browser) /\ Sorted(s)
    BY <1>4, <1>6, DropOwn, DropKeeps
  <2>5. Keeps(s, q.browser)'
    <3> SUFFICES ASSUME NEW x \in Binders, Live(x)', binderMatches(cookie[q.browser].values, x)'
                 PROVE  Past(x)' \/ binderMatches(s, x)'
      BY DEF Keeps
    <3>1. binderMatches(cookie[q.browser].values, x)
      BY <1>5 DEF binderMatches
    <3>2. x \in drawn
      BY <1>2, <3>1, MatchesOwn DEF LoginInv, CookiesOK
    <3>3. Live(x)
      BY <2>3, <3>2 DEF Mild
    <3>4. x # p.binder
      <4>1. ~Live(p.binder)'
        <5>1. ConsumePendingAuth(q.handle) /\ n.pc # "restate"
          BY <1>1, <1>9 DEF ConsumeState
        <5>2. PICK y : y = p.binder
          OBVIOUS
        <5>3. ~Live(y)'
          BY <1>2, <1>3, <1>9, <5>1, <5>2, BurnedIsOver
        <5> QED BY <5>2, <5>3
      <4> QED BY <4>1
    <3>5. Past(x) \/ binderMatches(q.cookie, x)
      BY <1>6, <3>1, <3>3 DEF Keeps
    <3>6. CASE Past(x)
      BY <2>3, <3>2, <3>6, PastStays
    <3>7. CASE binderMatches(q.cookie, x)
      <4>1. binderMatches(s, x)
        BY <1>4, <1>6, <3>4, <3>7, DropKeeps
      <4> QED BY <4>1 DEF binderMatches
    <3> QED BY <3>5, <3>6, <3>7
  <2>6. Sorted(s)' /\ Sorted(n.cookie)'
    <3>1. Sorted(s)' /\ Sorted(q.cookie)'
      BY <1>6, <2>3, <2>4, SortedStays
    <3>2. Sorted(<<>>)'
      BY DEF Sorted
    <3> QED BY <1>9, <3>1, <3>2
  <2>7. FlowOK(n)'
    BY <1>2, <1>6, <1>9, <2>5, <2>6, SecretsAssumption DEF FlowOK, Delivers, Reading
  <2>8. FlowsOK' /\ OneAtATime'
    BY <1>5, <1>6, <1>9, <2>3, <2>7, OthersFlow
  <2> QED BY <1>5, <2>3, <2>8, BinderStep
<1>10. CASE p # None /\ Reply(r, s, None)
  <2>1. PICK n : n = Answer(q.browser, s, None)
    OBVIOUS
  <2>2. n.pc = "reply" /\ n.browser = q.browser /\ n.set = s /\ n.cookie = <<>> /\ n.gives = None
    BY <2>1 DEF Answer, Idle
  <2>3. Become(r, n)
    BY <1>1, <1>10, <2>1 DEF Reply, Answer
  <2> QED BY <1>9, <1>10, <2>2, <2>3
<1>11. CASE p # None /\ Become(r, [q EXCEPT !.pc = "code", !.rec = p, !.set = s])
  <2>1. PICK n : n = [q EXCEPT !.pc = "code", !.rec = p, !.set = s]
    OBVIOUS
  <2>2. /\ n.pc = "code" /\ n.browser = q.browser /\ n.set = s /\ n.cookie = q.cookie
        /\ n.gives = q.gives
    BY <2>1 DEF Local
  <2> QED BY <1>9, <1>11, <2>1, <2>2
<1> QED BY <1>7, <1>8, <1>10, <1>11

(* The approved record has the binder the request held.                    *)
LEMMA SaveApprovedFlow ==
    ASSUME LoginInv, BinderInv, NEW r \in Reqs, SaveApproved(r) PROVE BinderInv'
<1>1. PICK q \in Local : q = req[r] /\ LocalOK(q)
  BY LocalOf
<1>2. q.pc = "restate" /\ q.browser \in Browsers /\ Alone(r, q.browser) /\ q.rec \in Pending
  BY <1>1, StaysAlone DEF SaveApproved, LocalOK, Holding, RecordOK
<1>3. UNCHANGED <<clock, cookie, consents, out>> /\ clock \in Nat
  BY DEF SaveApproved, LoginInv, TablesOK
<1>4. CASE Refuse(r) /\ UNCHANGED <<drawn, pending>>
  BY <1>3, <1>4, UnchangedStill, RefuseFlow
<1>5. ASSUME NEW h \in Handles \ drawn, drawn' = drawn \cup {h},
             pending' = [pending EXCEPT ![h] =
               [q.rec EXCEPT !.approved = TRUE, !.expires = clock + PendingAuthTTL]],
             Reply(r, None, h)
      PROVE  BinderInv'
  <2>1. PICK x : x = q.rec.binder
    OBVIOUS
  <2>2. PICK n : n = Answer(q.browser, None, h)
    OBVIOUS
  <2>3. n.pc = "reply" /\ n.browser = q.browser /\ n.set = None /\ n.cookie = <<>> /\ n.gives = h
    BY <2>2 DEF Answer, Idle
  <2>4. Become(r, n) /\ req'[r] = n /\ \A o \in Reqs : o # r => req'[o] = req[o]
    BY <1>1, <1>5, <2>2 DEF Reply, Answer, Become, LoginInv, TablesOK
  <2>5. /\ pending'[h].binder = x /\ pending'[h].approved
        /\ \A g \in Handles : g # h => pending'[g] = pending[g]
    BY <1>2, <1>5, <2>1 DEF LoginInv, TablesOK, Pending
  <2>6. Restates(r, x)
    BY <1>1, <1>2, <2>1 DEF Restates
  <2>7. \A o \in Reqs : \A y : Restates(o, y)' => Restates(o, y)
    BY <2>3, <2>4 DEF Restates
  <2>8. \A g \in Handles : \A y : Stored(g, y)' => (g = h /\ y = x) \/ (g # h /\ Stored(g, y))
    BY <2>5 DEF Stored
  <2>9. \A y : Live(y)' => Live(y)
    BY <2>6, <2>7, <2>8 DEF Live
  <2>10. \A y : Shown(y)' => Shown(y)
    BY <1>3, <2>5, <2>6, <2>7, <2>8 DEF Shown
  <2>11. Mild
    BY <1>3, <1>5, <2>5, <2>9 DEF Mild
  <2>12. NumbersOK'
    BY <1>3, <1>5, SecretsAssumption DEF BinderInv, NumbersOK, Opened
  <2>13. FlowOK(n)'
    BY <2>3, <2>5 DEF FlowOK, Reading, Sorted, Delivers
  <2>14. FlowsOK' /\ OneAtATime'
    BY <1>2, <1>3, <2>3, <2>4, <2>11, <2>13, OthersFlow
  <2> QED BY <1>3, <2>10, <2>11, <2>12, <2>14, BinderStep
<1> QED BY <1>1, <1>4, <1>5 DEF SaveApproved

(* A set with n different members is not smaller than n.                   *)
LEMMA ManyMembers ==
    ASSUME NEW S, IsFiniteSet(S), NEW n \in Nat, NEW f \in [1..n -> S],
           \A i, j \in 1..n : i < j => f[i] # f[j]
    PROVE  Cardinality(S) >= n
<1>1. IsFiniteSet(1..n) /\ Cardinality(1..n) = n
  BY FS_Interval
<1>2. Cardinality(S) \in Nat
  BY FS_CardinalityType
<1>3. ASSUME Cardinality(S) < n PROVE FALSE
  <2>1. PICK i \in 1..n, j \in 1..n : i # j /\ f[i] = f[j]
    BY <1>1, <1>3, FS_PigeonHole
  <2>2. i < j \/ j < i
    BY <2>1
  <2> QED BY <2>1, <2>2
<1> QED BY <1>2, <1>3

(* What a new page does to the numbers: it is the last one.                *)
LEMMA OpenedGrows ==
    ASSUME LoginInv, NumbersOK, NEW x \in Binders \ drawn, NEW page, page # None,
           consents' = [consents EXCEPT ![x] = page], drawn \subseteq drawn',
           drawn' \cap Binders = (drawn \cap Binders) \cup {x},
           page.at = clock, clock' = clock, page.nth = Cardinality(Opened) + 1
    PROVE  /\ NumbersOK' /\ Cardinality(Opened) \in Nat /\ consents'[x] = page
           /\ \A y \in Binders : y # x => consents'[y] = consents[y]
<1>1. consents'[x] = page /\ \A y \in Binders : y # x => consents'[y] = consents[y]
  BY DEF LoginInv, TablesOK
<1>2. consents[x] = None
  BY DEF LoginInv, PagesOK
<1>3. Opened' = Opened \cup {x} /\ x \notin Opened
  BY <1>1, <1>2 DEF Opened
<1>4. IsFiniteSet(Opened)
  BY FS_Subset, SecretsAssumption DEF Opened
<1>5. Cardinality(Opened) \in Nat /\ Cardinality(Opened \cup {x}) = Cardinality(Opened) + 1
  BY <1>3, <1>4, FS_CardinalityType, FS_AddElement
<1>6. Cardinality(Opened)' = Cardinality(Opened) + 1
  BY <1>3, <1>5
<1>7. clock \in Nat
  BY DEF LoginInv, TablesOK
<1>8. ASSUME NEW y \in Binders, y \in drawn'
      PROVE  consents'[y].at <= clock' /\ consents'[y].nth <= Cardinality(Opened)'
  <2>1. CASE y = x
    BY <1>1, <1>5, <1>6, <1>7, <2>1
  <2>2. CASE y # x
    <3>1. y \in drawn /\ consents'[y] = consents[y]
      BY <1>1, <1>8, <2>2
    <3>2. consents[y].at <= clock /\ consents[y].nth <= Cardinality(Opened) /\ consents[y].nth \in Nat
      BY <3>1, PageOf DEF NumbersOK
    <3> QED BY <1>5, <1>6, <3>1, <3>2
  <2> QED BY <2>1, <2>2
<1> QED BY <1>1, <1>5, <1>8 DEF NumbersOK

(* A new binder, newer than all others, goes in front of the cookie v of   *)
(* its browser b, which gives w.                                           *)
AddsNewest(v, w, b, x) ==
    /\ Own(v, b) /\ Sorted(v) /\ Prepended(w, v, x)
    /\ x \in Binders \ drawn /\ consents'[x].browser = b /\ consents'[x] # None
    /\ consents'[x].nth \in Nat
    /\ \A y \in Binders \cap drawn : /\ consents'[y] = consents[y]
                                     /\ consents[y].nth < consents'[x].nth

(* The order is kept.                                                      *)
LEMMA AddSorted ==
    ASSUME LoginInv, NEW v, NEW w, NEW b, NEW x, AddsNewest(v, w, b, x)
    PROVE  Sorted(w)'
<1> SUFFICES ASSUME NEW i \in 1..Len(w), NEW j \in 1..Len(w), i < j
             PROVE  consents'[w[j]].nth < consents'[w[i]].nth
  BY DEF Sorted
<1>1. v \in Seq(Binders) /\ Len(v) \in Nat /\ w \in Seq(Binders) /\ Len(w) \in Nat
  BY LenProperties DEF AddsNewest, Own, Prepended
<1>2. \A l \in 1..Len(v) : v[l] \in Binders \cap drawn
  BY <1>1, ElementOfSeq DEF AddsNewest, Own
<1>3. j - 1 \in 1..Len(v) /\ w[j] = v[j - 1]
  BY <1>1 DEF AddsNewest, Prepended
<1>4. CASE i = 1
  <2>1. w[i] = x
    BY <1>4 DEF AddsNewest, Prepended
  <2> QED BY <1>2, <1>3, <2>1 DEF AddsNewest
<1>5. CASE i # 1
  <2>1. i - 1 \in 1..Len(v) /\ w[i] = v[i - 1] /\ i - 1 < j - 1
    BY <1>1, <1>5 DEF AddsNewest, Prepended
  <2>2. consents[v[j - 1]].nth < consents[v[i - 1]].nth
    BY <1>3, <2>1 DEF AddsNewest, Sorted
  <2> QED BY <1>2, <1>3, <2>1, <2>2 DEF AddsNewest
<1> QED BY <1>4, <1>5

(* The binder that is cut off is older than the maxBinders that stay.      *)
LEMMA AddKeeps ==
    ASSUME LoginInv, NEW v, NEW w, NEW b, NEW x, AddsNewest(v, w, b, x),
           NEW y, binderMatches(v, y)
    PROVE  binderMatches(w, y) \/ Past(y)'
<1>1. /\ v \in Seq(Binders) /\ Len(v) \in Nat /\ w \in Seq(Binders) /\ Len(w) \in Nat
      /\ Len(v) <= maxBinders /\ maxBinders \in Nat
  BY LenProperties, TimesAssumption DEF AddsNewest, Own, Prepended
<1>2. PICK i \in 1..Len(v) : v[i] = y
  BY DEF binderMatches
<1>3. CASE i < maxBinders
  <2>1. i + 1 \in 1..Len(w)
    BY <1>1, <1>3 DEF AddsNewest, Prepended
  <2>2. w[i + 1] = y
    <3>1. i + 1 # 1 /\ (i + 1) - 1 = i
      BY <1>1
    <3> QED BY <1>2, <2>1, <3>1 DEF AddsNewest, Prepended
  <2> QED BY <2>1, <2>2 DEF binderMatches
<1>4. CASE ~(i < maxBinders)
  <2>1. i = maxBinders /\ Len(v) = maxBinders /\ Len(w) = maxBinders
    BY <1>1, <1>4 DEF AddsNewest, Prepended
  <2>2. \A l \in 1..Len(v) : v[l] \in Binders \cap drawn /\ consents[v[l]].browser = b
    BY <1>1, ElementOfSeq DEF AddsNewest, Own
  <2>3. y \in Binders \cap drawn /\ consents'[y] = consents[y] /\ consents[y].browser = b
    BY <1>2, <2>2 DEF AddsNewest
  <2>4. ASSUME NEW j \in 1..maxBinders
        PROVE  /\ w[j] \in Binders /\ consents'[w[j]] # None /\ consents'[w[j]].browser = b
               /\ consents'[y].nth < consents'[w[j]].nth
    <3>1. CASE j = 1
      <4>1. w[j] = x
        BY <2>1, <3>1 DEF AddsNewest, Prepended
      <4> QED BY <2>3, <4>1 DEF AddsNewest
    <3>2. CASE j # 1
      <4>1. j - 1 \in 1..Len(v) /\ w[j] = v[j - 1] /\ j - 1 < i
        BY <1>1, <2>1, <3>2 DEF AddsNewest, Prepended
      <4>2. consents[v[i]].nth < consents[v[j - 1]].nth
        BY <4>1 DEF AddsNewest, Sorted
      <4>3. v[j - 1] \in Binders \cap drawn /\ consents'[v[j - 1]] = consents[v[j - 1]]
        BY <2>2, <4>1 DEF AddsNewest
      <4>4. consents[v[j - 1]] # None
        BY <4>3, PageOf
      <4> QED BY <1>2, <2>2, <2>3, <4>1, <4>2, <4>3, <4>4
    <3> QED BY <3>1, <3>2
  <2>5. \A j, l \in 1..maxBinders : j < l => w[j] # w[l]
    <3>1. Sorted(w)'
      BY AddSorted
    <3>2. \A j, l \in 1..maxBinders : j < l => consents'[w[l]].nth < consents'[w[j]].nth
      BY <2>1, <3>1 DEF Sorted
    <3>3. \A j \in 1..maxBinders : consents'[w[j]].nth \in Nat
      <4> SUFFICES ASSUME NEW j \in 1..maxBinders PROVE consents'[w[j]].nth \in Nat
        OBVIOUS
      <4>1. CASE j = 1
        BY <2>1, <4>1 DEF AddsNewest, Prepended
      <4>2. CASE j # 1
        <5>1. j - 1 \in 1..Len(v) /\ w[j] = v[j - 1]
          BY <1>1, <2>1, <4>2 DEF AddsNewest, Prepended
        <5>2. v[j - 1] \in Binders \cap drawn
          BY <2>2, <5>1
        <5> QED BY <5>1, <5>2, PageOf DEF AddsNewest
      <4> QED BY <4>1, <4>2
    <3> QED BY <3>2, <3>3
  <2>6. PICK S : S = Newer(y)'
    OBVIOUS
  <2>7. IsFiniteSet(S) /\ \A j \in 1..maxBinders : w[j] \in S
    <3>1. S \subseteq Binders
      BY <2>6 DEF Newer
    <3>2. \A j \in 1..maxBinders : w[j] \in S
      BY <2>3, <2>4, <2>6 DEF Newer
    <3> QED BY <3>1, <3>2, FS_Subset, SecretsAssumption
  <2>8. [j \in 1..maxBinders |-> w[j]] \in [1..maxBinders -> S]
    BY <2>7
  <2>9. Cardinality(S) >= maxBinders
    BY <1>1, <2>5, <2>7, <2>8, ManyMembers
  <2> QED BY <2>6, <2>9 DEF Past
<1> QED BY <1>1, <1>3, <1>4

(* A page is opened: its reply carries its binder along with those the     *)
(* browser must keep.                                                      *)
LEMMA SaveConsentFlow ==
    ASSUME LoginInv, BinderInv, NEW r \in Reqs, SaveConsent(r) PROVE BinderInv'
<1>1. PICK q \in Local : q = req[r] /\ LocalOK(q)
  BY LocalOf
<1>2. q.pc = "pend" /\ q.browser \in Browsers /\ Own(q.cookie, q.browser) /\ Alone(r, q.browser)
  BY <1>1, StaysAlone DEF SaveConsent, LocalOK
<1>3. UNCHANGED <<clock, cookie, out>> /\ clock \in Nat
  BY DEF SaveConsent, LoginInv, TablesOK
<1>4. FlowOK(q) /\ Keeps(q.cookie, q.browser) /\ Sorted(q.cookie)
  BY <1>1, <1>2 DEF BinderInv, FlowsOK, FlowOK, Reading
<1>5. CASE Refuse(r) /\ UNCHANGED <<drawn, pending, consents>>
  BY <1>3, <1>5, UnchangedStill, RefuseFlow
<1>6. ASSUME NEW h \in Handles \ drawn, NEW x \in Binders \ drawn,
             drawn' = drawn \cup {h, x},
             pending' = [pending EXCEPT ![h] =
               [ask |-> q.ask, binder |-> x, approved |-> FALSE, expires |-> clock + PendingAuthTTL]],
             Reply(r, addBinder(q.cookie, x), h),
             consents' = [consents EXCEPT ![x] =
               [browser |-> q.browser, ask |-> q.ask, at |-> clock, allowed |-> allowed,
                nth |-> Cardinality({y \in Binders : consents[y] # None}) + 1]]
      PROVE  BinderInv'
  <2>1. PICK w : w = addBinder(q.cookie, x)
    OBVIOUS
  <2>2. PICK n : n = Answer(q.browser, w, h)
    OBVIOUS
  <2>3. n.pc = "reply" /\ n.browser = q.browser /\ n.set = w /\ n.cookie = <<>> /\ n.gives = h
    BY <2>2 DEF Answer, Idle
  <2>4. Become(r, n) /\ req'[r] = n /\ \A o \in Reqs : o # r => req'[o] = req[o]
    BY <1>1, <1>6, <2>1, <2>2 DEF Reply, Answer, Become, LoginInv, TablesOK
  <2>5. /\ pending'[h].binder = x /\ ~pending'[h].approved
        /\ \A g \in Handles : g # h => pending'[g] = pending[g]
    BY <1>6 DEF LoginInv, TablesOK
  <2>6. /\ NumbersOK' /\ Cardinality(Opened) \in Nat
        /\ consents'[x] # None /\ consents'[x].browser = q.browser
        /\ consents'[x].nth = Cardinality(Opened) + 1
        /\ \A y \in Binders : y # x => consents'[y] = consents[y]
    <3>1. PICK page : page = [browser |-> q.browser, ask |-> q.ask, at |-> clock, allowed |-> allowed,
                              nth |-> Cardinality(Opened) + 1]
      OBVIOUS
    <3>2. IsFiniteSet(Opened)
      BY FS_Subset, SecretsAssumption DEF Opened
    <3>3. Cardinality(Opened) \in Nat
      BY <3>2, FS_CardinalityType
    <3>4. page \in Page
      <4>1. q.ask \in Ask
        BY <1>1, <1>2 DEF LocalOK, Asking
      <4> QED BY <1>2, <1>3, <3>1, <3>3, <4>1 DEF Page, LoginInv, TablesOK
    <3>5. page # None /\ page.browser = q.browser /\ page.at = clock /\ page.nth = Cardinality(Opened) + 1
      BY <3>1, <3>4, PageAssumption
    <3>6. consents' = [consents EXCEPT ![x] = page]
      BY <1>6, <3>1 DEF Opened
    <3>7. drawn \subseteq drawn' /\ drawn' \cap Binders = (drawn \cap Binders) \cup {x}
      BY <1>6, SecretsAssumption
    <3>8. NumbersOK /\ clock' = clock
      BY <1>3 DEF BinderInv
    <3>9. /\ NumbersOK' /\ consents'[x] = page
          /\ \A y \in Binders : y # x => consents'[y] = consents[y]
      BY <3>5, <3>6, <3>7, <3>8, OpenedGrows
    <3> QED BY <3>3, <3>5, <3>9
  <2>7. \A o \in Reqs : \A y : Restates(o, y)' => Restates(o, y)
    BY <2>3, <2>4 DEF Restates
  <2>8. \A g \in Handles : \A y : Stored(g, y)' => (g = h /\ y = x) \/ (g # h /\ Stored(g, y))
    BY <2>5 DEF Stored
  <2>9. \A y \in drawn : Live(y)' => Live(y)
    BY <2>7, <2>8 DEF Live
  <2>10. \A y : Shown(y)' => Shown(y)
    <3>1. h \notin out'
      BY <1>3 DEF LoginInv, TablesOK
    <3> QED BY <1>3, <2>5, <2>7, <2>8, <3>1 DEF Shown
  <2>11. Mild
    BY <1>3, <1>6, <2>5, <2>6, <2>9 DEF Mild
  <2>12. Prepended(w, q.cookie, x)
    BY <1>2, <2>1, AddShape DEF Own
  <2>13. AddsNewest(q.cookie, w, q.browser, x)
    <3>1. ASSUME NEW y \in Binders \cap drawn
          PROVE  consents'[y] = consents[y] /\ consents[y].nth < consents'[x].nth
      <4>1. consents[y].nth \in Nat /\ consents[y].nth <= Cardinality(Opened)
        BY PageOf DEF BinderInv, NumbersOK
      <4> QED BY <2>6, <4>1
    <3> QED BY <1>2, <1>4, <2>6, <2>12, <3>1 DEF AddsNewest
  <2>14. Sorted(w)'
    BY <2>13, AddSorted
  <2>15. Keeps(w, q.browser)'
    <3> SUFFICES ASSUME NEW y \in Binders, Live(y)', binderMatches(cookie[q.browser].values, y)'
                 PROVE  Past(y)' \/ binderMatches(w, y)'
      BY DEF Keeps
    <3>1. binderMatches(cookie[q.browser].values, y)
      BY <1>3 DEF binderMatches
    <3>2. y \in drawn
      BY <1>2, <3>1, MatchesOwn DEF LoginInv, CookiesOK
    <3>3. Past(y) \/ binderMatches(q.cookie, y)
      BY <1>4, <2>9, <3>1, <3>2 DEF Keeps
    <3>4. CASE Past(y)
      BY <2>11, <3>2, <3>4, PastStays
    <3>5. CASE binderMatches(q.cookie, y)
      <4>1. binderMatches(w, y) \/ Past(y)'
        BY <2>13, <3>5, AddKeeps
      <4> QED BY <4>1 DEF binderMatches
    <3> QED BY <3>3, <3>4, <3>5
  <2>16. binderMatches(w, x) /\ w # None
    <3>1. w \in Seq(Binders) /\ Len(w) \in Nat /\ 1 \in 1..Len(w) /\ w[1] = x
      <4>1. w \in Seq(Binders) /\ Len(w) \in Nat /\ Len(q.cookie) \in Nat /\ maxBinders \in Nat \ {0}
        BY <2>12, LenProperties, TimesAssumption DEF Prepended, Local
      <4>2. 1 \in 1..Len(w)
        BY <2>12, <4>1 DEF Prepended
      <4> QED BY <2>12, <4>1, <4>2 DEF Prepended
    <3>2. binderMatches(w, x)
      BY <3>1 DEF binderMatches
    <3>3. w \in [1..Len(w) -> Binders] /\ Len(w) \in 0..maxBinders
      BY <2>12, <3>1, LenProperties, TimesAssumption DEF Prepended
    <3> QED BY <3>2, <3>3, CookieAssumption
  <2>17. Delivers(n)'
    BY <2>3, <2>5, <2>6, <2>16 DEF Delivers, binderMatches
  <2>18. FlowOK(n)'
    BY <1>2, <2>3, <2>14, <2>15, <2>17 DEF FlowOK, Reading, Sorted
  <2>19. FlowsOK' /\ OneAtATime'
    BY <1>2, <1>3, <2>3, <2>4, <2>11, <2>18, OthersFlow
  <2> QED BY <1>3, <2>6, <2>10, <2>11, <2>19, BinderStep
<1> QED BY <1>1, <1>5, <1>6 DEF SaveConsent

(* A reply arrives: the cookie it sets has every binder the browser must   *)
(* keep and the one of the page it shows.                                  *)
LEMMA ReceiveFlow ==
    ASSUME LoginInv, BinderInv, NEW r \in Reqs, Receive(r) PROVE BinderInv'
<1>1. PICK q \in Local : q = req[r] /\ LocalOK(q)
  BY LocalOf
<1>2. q.pc = "reply" /\ q.browser \in Browsers /\ FlowOK(q) /\ Alone(r, q.browser)
  BY <1>1, StaysAlone DEF Receive, LocalOK, BinderInv, FlowsOK
<1>3. /\ UNCHANGED <<clock, drawn, consents, pending>> /\ clock \in Nat
      /\ out' = out \cup ({q.gives} \ {None}) /\ Become(r, Idle)
  BY <1>1 DEF Receive, tables, history, Refuse, LoginInv, TablesOK
<1>4. /\ \A b \in Browsers : b # q.browser => cookie'[b] = cookie[b]
      /\ q.set = None => cookie' = cookie
      /\ q.set # None => cookie'[q.browser].values = q.set
      /\ q.set # None /\ q.set # <<>> => cookie'[q.browser].until = clock + PendingAuthTTL
  <2>1. CASE q.set = None
    BY <1>1, <2>1 DEF Receive
  <2>2. CASE q.set # None /\ q.set = <<>>
    <3>1. cookie' = [cookie EXCEPT ![q.browser] = NoCookie]
      BY <1>1, <2>2 DEF Receive
    <3> QED BY <1>2, <2>2, <3>1 DEF NoCookie, LoginInv, TablesOK
  <2>3. CASE q.set # None /\ q.set # <<>>
    <3>1. cookie' = [cookie EXCEPT ![q.browser] = [values |-> q.set, until |-> clock + PendingAuthTTL]]
      BY <1>1, <2>3 DEF Receive
    <3> QED BY <1>2, <2>3, <3>1 DEF LoginInv, TablesOK
  <2> QED BY <2>1, <2>2, <2>3
<1>5. /\ Idle.pc = "idle" /\ Idle.browser = None /\ Idle.set = None /\ Idle.gives = None
      /\ Idle.cookie = <<>>
  BY DEF Idle
<1>6. req'[r] = Idle /\ \A o \in Reqs : o # r => req'[o] = req[o]
  BY <1>3 DEF Become, LoginInv, TablesOK
<1>7. \A o \in Reqs : \A y : Restates(o, y)' => Restates(o, y)
  BY <1>5, <1>6 DEF Restates
<1>8. \A y : Live(y)' => Live(y)
  BY <1>3, <1>7 DEF Live, Stored
<1>9. Mild
  BY <1>3, <1>8 DEF Mild
<1>10. NumbersOK'
  BY <1>3 DEF BinderInv, NumbersOK, Opened
<1>11. FlowOK(Idle)'
  BY <1>5, SecretsAssumption DEF FlowOK, Reading, Sorted, Delivers
<1>12. FlowsOK' /\ OneAtATime'
  <2>1. ASSUME NEW o \in Reqs PROVE FlowOK(req[o])'
    <3>1. CASE o = r
      BY <1>6, <1>11, <3>1 DEF FlowOK, Keeps, Sorted, Delivers
    <3>2. CASE o # r
      <4>1. PICK l : l = req[o] /\ l = req'[o]
        BY <1>6, <3>2
      <4>2. Grounded(l) /\ FlowOK(l) /\ l.browser # q.browser
        BY <1>2, <3>2, <4>1, RequestGrounded, SecretsAssumption DEF BinderInv, FlowsOK, Alone
      <4>3. l.browser \in Browsers => cookie'[l.browser] = cookie[l.browser]
        BY <1>4, <4>2
      <4>4. FlowOK(l)'
        BY <1>9, <4>2, <4>3, FlowStays
      <4> QED BY <4>1, <4>4 DEF FlowOK, Keeps, Sorted, Delivers
    <3> QED BY <3>1, <3>2
  <2>2. OneAtATime'
    BY <1>5, <1>6 DEF BinderInv, OneAtATime
  <2> QED BY <2>1, <2>2 DEF FlowsOK
<1>13. JarsOK'
  <2> SUFFICES ASSUME NEW b \in Browsers PROVE LastsOK(b)'
    BY DEF JarsOK
  <2>1. CASE b # q.browser \/ q.set = None
    BY <1>4, <1>9, <2>1, CookiesLast DEF BinderInv, JarsOK
  <2>2. CASE b = q.browser /\ q.set # None
    <3>1. Own(q.set, b) /\ Sorted(q.set)
      BY <1>1, <1>2, <2>2 DEF LocalOK, FlowOK
    <3>2. Sorted(q.set)'
      BY <1>9, <3>1, SortedStays
    <3>3. ASSUME NEW x \in Binders, binderMatches(q.set, x)
          PROVE  consents'[x].at + PendingAuthTTL <= cookie'[b].until
      <4>1. q.set # <<>>
        BY <3>3 DEF binderMatches
      <4>2. x \in drawn
        BY <3>1, <3>3, MatchesOwn
      <4>3. consents[x].at \in Nat /\ consents[x].at <= clock /\ PendingAuthTTL \in Nat
        BY <4>2, PageOf, TimesAssumption DEF BinderInv, NumbersOK
      <4> QED BY <1>3, <1>4, <2>2, <4>1, <4>3
    <3> QED BY <1>4, <2>2, <3>2, <3>3 DEF LastsOK, Sorted, binderMatches
  <2> QED BY <2>1, <2>2
<1>14. ShownOK'
  <2> SUFFICES ASSUME NEW x \in Binders, Shown(x)'
               PROVE  Past(x)' \/ binderMatches(cookie[consents[x].browser].values, x)'
    BY DEF ShownOK
  <2>1. Live(x)
    BY <1>8, <1>3, <1>7 DEF Shown, Live, Stored
  <2>2. x \in drawn /\ consents'[x] = consents[x]
    BY <1>3, <2>1, LiveDrawn
  <2>3. PICK b \in Browsers : b = consents[x].browser
    BY <2>2, PageOf
  <2>4. CASE Shown(x)
    <3>1. Past(x) \/ binderMatches(cookie[b].values, x)
      BY <2>3, <2>4 DEF BinderInv, ShownOK
    <3>2. CASE Past(x)
      BY <1>9, <2>2, <3>2, PastStays
    <3>3. CASE binderMatches(cookie[b].values, x) /\ (b # q.browser \/ q.set = None)
      <4>1. cookie'[b] = cookie[b]
        BY <1>4, <3>3
      <4> QED BY <2>2, <2>3, <3>3, <4>1 DEF binderMatches
    <3>4. CASE binderMatches(cookie[b].values, x) /\ b = q.browser /\ q.set # None
      <4>1. Past(x) \/ binderMatches(q.set, x)
        BY <1>2, <2>1, <3>4 DEF FlowOK, Keeps
      <4>2. cookie'[b].values = q.set
        BY <1>4, <3>4
      <4> QED BY <1>9, <2>2, <2>3, <4>1, <4>2, PastStays DEF binderMatches
    <3> QED BY <3>1, <3>2, <3>3, <3>4
  <2>5. CASE ~Shown(x)
    <3>1. PICK h \in Handles : h = q.gives /\ Stored(h, x) /\ ~pending[h].approved
      BY <1>3, <1>7, <2>5 DEF Shown, Stored
    <3>2. q.set # None /\ binderMatches(q.set, x) /\ b = q.browser
      BY <1>2, <2>3, <3>1 DEF FlowOK, Delivers, Stored
    <3>3. cookie'[b].values = q.set
      BY <1>4, <3>2
    <3> QED BY <2>2, <2>3, <3>2, <3>3 DEF binderMatches
  <2> QED BY <2>4, <2>5
<1> QED BY <1>10, <1>12, <1>13, <1>14 DEF BinderInv

LEMMA NextBinder == ~Tabs /\ LoginInv /\ OneCarrier /\ BinderInv /\ [Next]_vars => BinderInv'
<1> SUFFICES ASSUME ~Tabs, LoginInv, OneCarrier, BinderInv, [Next]_vars PROVE BinderInv'
  OBVIOUS
<1>1. ASSUME NEW r \in Reqs, Handle(r) PROVE BinderInv'
  BY <1>1, BystandersKeep, SaveConsentFlow, ConsumeConsentFlow, SaveApprovedFlow, ConsumeStateFlow,
     SaveCodeFlow, ExtendReadFlow DEF Handle
<1>2. ASSUME NEW r \in Reqs, StoreFault(r) \/ Receive(r) \/ Lose(r) PROVE BinderInv'
  BY <1>2, BystandersKeep, StoreFaultFlow, ReceiveFlow
<1> QED BY <1>1, <1>2, BystandersKeep, VisitFlow, PostFlow, ExchangeFlow DEF Next

LEMMA InitBinder == Init => BinderInv
<1> SUFFICES ASSUME Init PROVE BinderInv
  OBVIOUS
<1>1. \A r \in Reqs : req[r] = Idle
  BY DEF Init
<1>2. /\ Idle.pc = "idle" /\ Idle.browser = None /\ Idle.set = None /\ Idle.gives = None
      /\ Idle.cookie = <<>>
  BY DEF Idle
<1>3. FlowOK(Idle)
  BY <1>2, SecretsAssumption DEF FlowOK, Reading, Sorted, Delivers
<1>4. FlowsOK /\ OneAtATime
  BY <1>1, <1>2, <1>3 DEF FlowsOK, OneAtATime
<1>5. JarsOK
  BY DEF Init, NoCookie, JarsOK, LastsOK, Sorted, binderMatches
<1>6. ShownOK
  BY <1>1, <1>2 DEF Init, ShownOK, Shown, Stored, Restates
<1>7. NumbersOK
  BY DEF Init, NumbersOK
<1> QED BY <1>4, <1>5, <1>6, <1>7 DEF BinderInv

(* FlowsKeepTheirBinders, for browsers that wait for each reply: while the *)
(* time of a consent page runs, its browser keeps its binder, unless       *)
(* maxBinders newer flows pushed it out.                                   *)
THEOREM FlowsKeepBinders == ASSUME ~Tabs PROVE Spec => []FlowsKeepTheirBinders
<1>1. LoginInv /\ BinderInv => FlowsKeepTheirBinders
  <2> SUFFICES ASSUME LoginInv, BinderInv, NEW h \in out \cap Handles, pending[h] # None,
                      NEW x, x = pending[h].binder, NEW b, b = consents[x].browser
               PROVE  \/ clock >= consents[x].at + PendingAuthTTL
                      \/ Cardinality(Newer(x)) >= maxBinders
                      \/ binderMatches(readBinders(b), x)
    BY DEF FlowsKeepTheirBinders, Newer
  <2>1. Shown(x) /\ x \in Binders /\ x \in drawn
    BY ShownLive, LiveDrawn DEF Shown, Stored
  <2>2. b \in Browsers /\ consents[x].at \in Nat /\ PendingAuthTTL \in Nat /\ clock \in Nat
    BY <2>1, PageOf, TimesAssumption DEF LoginInv, TablesOK
  <2>3. Past(x) \/ binderMatches(cookie[b].values, x)
    BY <2>1 DEF BinderInv, ShownOK
  <2>4. CASE Past(x)
    BY <2>4 DEF Past
  <2>5. CASE binderMatches(cookie[b].values, x)
    <3>1. consents[x].at + PendingAuthTTL <= cookie[b].until /\ cookie[b].until \in Nat
      BY <2>1, <2>2, <2>5 DEF BinderInv, JarsOK, LastsOK, LoginInv, TablesOK
    <3> QED BY <2>2, <2>5, <3>1 DEF readBinders
  <2> QED BY <2>3, <2>4, <2>5
<1>2. BinderInv /\ (LoginInv /\ OneCarrier) /\ [Next]_vars => BinderInv'
  BY NextBinder
<1> QED BY <1>1, <1>2, InitBinder, LoginInvariant, PTL DEF Spec

-----------------------------------------------------------------------------
(* The login flow implements Consent.                                      *)

(* A flow is at one stage at a time.                                       *)
LEMMA OneStage ==
    ASSUME LoginInv, OneCarrier, NEW x \in Binders
    PROVE  /\ Asked(x) => ~Agreed(x) /\ ~Issued(x) /\ ~Redeemed(x)
           /\ Agreed(x) => ~Issued(x) /\ ~Redeemed(x)
           /\ Issued(x) => ~Redeemed(x)
<1>1. CarriedOnce(x)
  BY DEF OneCarrier
<1>2. ~(Asked(x) /\ Agreed(x))
  BY <1>1 DEF CarriedOnce, Asked, Agreed, Flies
<1>3. Asked(x) \/ Agreed(x) => \A k \in Codes : ~Minted(k, x)
  BY <1>1 DEF CarriedOnce, Asked, Agreed
<1>4. ASSUME Issued(x), Redeemed(x) PROVE FALSE
  <2>1. PICK k \in Codes : Minted(k, x) /\ codes[k] # None
    BY <1>4 DEF Issued
  <2>2. PICK j \in Codes : Minted(j, x) /\ granted[j] # <<>>
    BY <1>4 DEF Redeemed
  <2>3. j = k /\ k \in drawn
    BY <1>1, <2>1, <2>2 DEF CarriedOnce, Minted
  <2> QED BY <2>1, <2>2, <2>3 DEF LoginInv, CodesOK, CodeOK
<1> QED BY <1>2, <1>3, <1>4 DEF Issued, Redeemed

(* A step that leaves the history alone, and in which no flow gets on.     *)
Fades ==
    /\ UNCHANGED <<consents, approvedBy, mintedFor, granted>>
    /\ \A k \in Codes : (k \in drawn' <=> k \in drawn) /\ (codes'[k] = codes[k] \/ codes'[k] = None)
    /\ \A x \in Binders : (Asked(x)' => Asked(x)) /\ (Agreed(x)' => Agreed(x))

(* Such a step ends flows or changes nothing.                              *)
LEMMA FadesEnd ==
    ASSUME LoginInv, OneCarrier, Fades PROVE [C!Next]_C!vars
<1>1. \A k \in Codes : \A x : Minted(k, x)' <=> Minted(k, x)
  BY DEF Fades, Minted
<1>2. flowAccounts' = flowAccounts /\ flowTerms' = flowTerms
  BY <1>1 DEF Fades, flowAccounts, flowTerms
<1>3. ASSUME NEW x \in Binders
      PROVE  \/ flowPhase'[x] = flowPhase[x]
             \/ flowPhase'[x] = "over" /\ flowPhase[x] \in {"asked", "approved", "issued"}
  <2>1. /\ Issued(x)' => Issued(x)
        /\ Redeemed(x)' <=> Redeemed(x)
    BY <1>1 DEF Fades, Issued, Redeemed
  <2>2. consents'[x] = consents[x] /\ (Asked(x)' => Asked(x)) /\ (Agreed(x)' => Agreed(x))
    BY DEF Fades
  <2> QED BY <2>1, <2>2, OneStage DEF flowPhase
<1>4. PICK F \in SUBSET Binders : \A x \in Binders : x \in F <=> flowPhase'[x] # flowPhase[x]
  <2>1. {x \in Binders : flowPhase'[x] # flowPhase[x]} \in SUBSET Binders
    OBVIOUS
  <2> QED BY <2>1
<1>5. flowPhase' = [x \in Binders |-> IF x \in F THEN "over" ELSE flowPhase[x]]
  <2>1. flowPhase' = [x \in Binders |-> flowPhase'[x]]
    BY DEF flowPhase
  <2> QED BY <1>3, <1>4, <2>1
<1>6. \A x \in F : flowPhase[x] \in {"asked", "approved", "issued"}
  BY <1>3, <1>4
<1>7. C!End(F)
  BY <1>2, <1>5, <1>6 DEF C!End, Fades
<1> QED BY <1>7 DEF C!Next

(* The requests hand nothing on.                                           *)
Settles == \A o \in Reqs : req'[o] = req[o] \/ req'[o].pc \notin {"restate", "code"}

LEMMA SettledFades ==
    ASSUME LoginInv, Settles, UNCHANGED <<consents, approvedBy, mintedFor, granted>>,
           \A k \in Codes : (k \in drawn' <=> k \in drawn) /\ (codes'[k] = codes[k] \/ codes'[k] = None),
           \A h \in Handles : pending'[h] = pending[h] \/ pending'[h] = None
    PROVE  Fades
<1>1. \A h \in Handles : \A x : Stored(h, x)' => Stored(h, x) /\ pending'[h] = pending[h]
  BY DEF Stored
<1>2. \A o \in Reqs : \A x : Flies(o, x)' => Flies(o, x) /\ req'[o] = req[o]
  BY DEF Settles, Flies
<1>3. \A x : (Asked(x)' => Asked(x)) /\ (Agreed(x)' => Agreed(x))
  BY <1>1, <1>2 DEF Asked, Agreed
<1> QED BY <1>3 DEF Fades

LEMMA BecomeSettles ==
    ASSUME LoginInv, NEW r \in Reqs, NEW n, n.pc \notin {"restate", "code"}, Become(r, n) PROVE Settles
BY DEF Become, Settles, LoginInv, TablesOK

LEMMA AnswerSettles ==
    ASSUME LoginInv, NEW r \in Reqs, (\E s, g : Reply(r, s, g)) \/ Refuse(r) PROVE Settles
<1>1. CASE Refuse(r)
  <2>1. Become(r, Idle) /\ Idle.pc = "idle"
    BY <1>1 DEF Refuse, Idle
  <2> QED BY <2>1, BecomeSettles
<1>2. ASSUME NEW s, NEW g, Reply(r, s, g) PROVE Settles
  <2>1. PICK n : n = Answer(req[r].browser, s, g)
    OBVIOUS
  <2>2. n.pc = "reply" /\ Become(r, n)
    BY <1>2, <2>1 DEF Reply, Answer, Idle
  <2> QED BY <2>2, BecomeSettles
<1> QED BY <1>1, <1>2

LEMMA GotoSettles ==
    ASSUME LoginInv, NEW r \in Reqs, NEW pc \in {"claim", "sweep", "pend"}, Goto(r, pc) PROVE Settles
<1>1. PICK l \in Local : l = req[r]
  BY DEF LoginInv, TablesOK
<1>2. [l EXCEPT !.pc = pc].pc = pc
  BY DEF Local
<1>3. PICK n : n = [l EXCEPT !.pc = pc] /\ n.pc = pc
  BY <1>2
<1> QED BY <1>1, <1>3, BecomeSettles DEF Goto

LEMMA PurgedCodes ==
    ASSUME LoginInv, PurgeExpired PROVE \A k \in Codes : codes'[k] = codes[k] \/ codes'[k] = None
BY DEF PurgeExpired, Unexpired, LoginInv, TablesOK

(* The steps that take no flow further.                                    *)
LEMMA BystandersFade ==
    ASSUME LoginInv,
           \/ \E c \in Clients, uris \in SUBSET Uris : Register(c, uris)
           \/ \E r \in Reqs :
                \/ \E b \in Browsers, a \in Ask : Visit(r, b, a)
                \/ \E b \in Browsers, h \in Handles : Post(r, b, h) \/ Return(r, b, h)
                \/ \E k \in Codes, a \in Ask : Exchange(r, k, a)
                \/ LoadClient(r) \/ maybePurge(r) \/ Sweep(r) \/ ExtendRead(r) \/ ExtendSave(r)
                \/ StoreFault(r) \/ Receive(r) \/ Lose(r)
           \/ Ticker
           \/ \E hosts \in AllowLists : Restart(hosts)
           \/ Tick
           \/ UNCHANGED vars
    PROVE  Fades
<1>1. ASSUME UNCHANGED <<pending, codes, drawn, history>>, Settles PROVE Fades
  BY <1>1, SettledFades DEF history
<1>2. ASSUME req' = req PROVE Settles
  BY <1>2 DEF Settles
<1>3. CASE \E c \in Clients, uris \in SUBSET Uris : Register(c, uris)
  BY <1>1, <1>2, <1>3 DEF Register
<1>4. CASE \E r \in Reqs, b \in Browsers, a \in Ask : Visit(r, b, a)
  <2>1. PICK r \in Reqs, b \in Browsers, a \in Ask : Visit(r, b, a)
    BY <1>4
  <2>2. PICK q : q = [Send(r, b, "load") EXCEPT !.ask = a]
    OBVIOUS
  <2>3. q.pc = "load" /\ Become(r, q)
    BY <2>1, <2>2 DEF Send, Idle, Visit
  <2>4. Settles
    BY <2>3, BecomeSettles
  <2> QED BY <1>1, <2>1, <2>4 DEF Visit, tables
<1>5. CASE \E r \in Reqs, b \in Browsers, h \in Handles : Post(r, b, h) \/ Return(r, b, h)
  <2>1. PICK r \in Reqs, b \in Browsers, h \in Handles : Post(r, b, h) \/ Return(r, b, h)
    BY <1>5
  <2>2. PICK pc \in {"approve", "callback"} : Become(r, [Send(r, b, pc) EXCEPT !.handle = h])
    BY <2>1 DEF Post, Return
  <2>3. PICK q : q = [Send(r, b, pc) EXCEPT !.handle = h]
    OBVIOUS
  <2>4. q.pc = pc /\ Become(r, q)
    BY <2>2, <2>3 DEF Send, Idle
  <2>5. Settles
    BY <2>4, BecomeSettles
  <2> QED BY <1>1, <2>1, <2>5 DEF Post, Return, tables
<1>6. CASE \E r \in Reqs, k \in Codes, a \in Ask : Exchange(r, k, a)
  <2>1. PICK r \in Reqs, k \in Codes, a \in Ask : Exchange(r, k, a)
    BY <1>6
  <2>2. PICK q : q = [Idle EXCEPT !.pc = "redeem", !.handle = k, !.ask = a]
    OBVIOUS
  <2>3. q.pc = "redeem" /\ Become(r, q)
    BY <2>1, <2>2 DEF Idle, Exchange
  <2>4. Settles
    BY <2>3, BecomeSettles
  <2> QED BY <1>1, <2>1, <2>4 DEF Exchange, tables
<1>7. ASSUME NEW r \in Reqs, LoadClient(r) \/ maybePurge(r) PROVE Fades
  <2>1. Refuse(r) \/ \E pc \in {"claim", "sweep", "pend"} : Goto(r, pc)
    BY <1>7 DEF LoadClient, maybePurge
  <2>2. Settles
    BY <2>1, AnswerSettles, GotoSettles
  <2> QED BY <1>1, <1>7, <2>2 DEF LoadClient, maybePurge, tables
<1>8. ASSUME NEW r \in Reqs, Sweep(r) PROVE Fades
  <2>1. Settles
    BY <1>8, GotoSettles DEF Sweep
  <2> QED BY <1>8, <2>1, PurgedRecords, PurgedCodes, SettledFades DEF Sweep, history
<1>9. ASSUME NEW r \in Reqs, ExtendRead(r) PROVE Fades
  <2>1. PICK q \in Local : q = req[r]
    BY LocalOf
  <2>2. PICK x : x = clients[q.rec.ask.client]
    OBVIOUS
  <2>3. Reply(r, q.set, q.gives) \/ Become(r, [q EXCEPT !.pc = "renew", !.lease = x])
    BY <1>9, <2>1, <2>2 DEF ExtendRead
  <2>4. [q EXCEPT !.pc = "renew", !.lease = x].pc = "renew"
    BY DEF Local
  <2>5. Settles
    BY <2>3, <2>4, AnswerSettles, BecomeSettles
  <2> QED BY <1>1, <1>9, <2>5 DEF ExtendRead, tables
<1>10. ASSUME NEW r \in Reqs, ExtendSave(r) PROVE Fades
  <2>1. Settles
    BY <1>10, AnswerSettles DEF ExtendSave
  <2> QED BY <1>1, <1>10, <2>1 DEF ExtendSave
<1>11. ASSUME NEW r \in Reqs, StoreFault(r) PROVE Fades
  <2>1. Refuse(r) \/ Goto(r, "pend") \/ \E s, g : Reply(r, s, g)
    BY <1>11 DEF StoreFault
  <2>2. Settles
    BY <2>1, AnswerSettles, GotoSettles
  <2> QED BY <1>1, <1>11, <2>2 DEF StoreFault, tables
<1>12. ASSUME NEW r \in Reqs, Receive(r) \/ Lose(r) PROVE Fades
  <2>1. Settles
    BY <1>12, AnswerSettles DEF Receive, Lose
  <2> QED BY <1>1, <1>12, <2>1 DEF Receive, Lose, tables
<1>13. CASE Ticker
  BY <1>2, <1>13, PurgedRecords, PurgedCodes, SettledFades DEF Ticker, history
<1>14. CASE \E hosts \in AllowLists : Restart(hosts)
  <2>1. Settles
    BY <1>14 DEF Restart, Idle, Settles
  <2> QED BY <1>1, <1>14, <2>1 DEF Restart, tables
<1>15. CASE Tick
  BY <1>1, <1>2, <1>15 DEF Tick, tables
<1>16. CASE UNCHANGED vars
  BY <1>1, <1>2, <1>16 DEF vars, tables
<1> QED BY <1>3, <1>4, <1>5, <1>6, <1>7, <1>8, <1>9, <1>10, <1>11, <1>12, <1>13, <1>14, <1>15,
           <1>16

(* A record becomes a local of the request that consumed it, at the stage  *)
(* it was at.                                                              *)
LEMMA TakeFades ==
    ASSUME LoginInv, NEW r \in Reqs, NEW h \in Handles, NEW p, p = pending[h], p # None,
           ConsumePendingAuth(h), UNCHANGED <<codes, drawn, history>>,
           NEW n, n.rec = p, Become(r, n),
           \/ n.pc = "restate" /\ ~p.approved
           \/ n.pc = "code" /\ p.approved
    PROVE  Fades
<1>1. \A g \in Handles : pending'[g] = pending[g] \/ pending'[g] = None
  BY ConsumedRecords
<1>2. req'[r] = n /\ \A o \in Reqs : o # r => req'[o] = req[o]
  BY DEF Become, LoginInv, TablesOK
<1>3. ASSUME NEW x PROVE (Asked(x)' => Asked(x)) /\ (Agreed(x)' => Agreed(x))
  <2>1. \A g \in Handles : Stored(g, x)' => Stored(g, x) /\ pending'[g] = pending[g]
    BY <1>1 DEF Stored
  <2>2. \A o \in Reqs : Flies(o, x)' /\ o # r => Flies(o, x) /\ req'[o] = req[o]
    BY <1>2 DEF Flies
  <2>3. Flies(r, x)' => Stored(h, x) /\ req'[r].pc = n.pc
    BY <1>2 DEF Flies, Stored
  <2>4. ASSUME Asked(x)' PROVE Asked(x)
    <3>1. CASE \E g \in Handles : Stored(g, x)' /\ ~pending'[g].approved
      BY <2>1, <3>1 DEF Asked
    <3>2. CASE \E o \in Reqs : Flies(o, x)' /\ req'[o].pc = "restate"
      BY <2>2, <2>3, <3>2 DEF Asked
    <3> QED BY <2>4, <3>1, <3>2 DEF Asked
  <2>5. ASSUME Agreed(x)' PROVE Agreed(x)
    <3>1. CASE \E g \in Handles : Stored(g, x)' /\ pending'[g].approved
      BY <2>1, <3>1 DEF Agreed
    <3>2. CASE \E o \in Reqs : Flies(o, x)' /\ req'[o].pc = "code"
      BY <2>2, <2>3, <3>2 DEF Agreed
    <3> QED BY <2>5, <3>1, <3>2 DEF Agreed
  <2> QED BY <2>4, <2>5
<1> QED BY <1>3 DEF Fades, history

LEMMA ConsumeConsentFades ==
    ASSUME LoginInv, NEW r \in Reqs, ConsumeConsent(r) PROVE Fades
<1>1. PICK q \in Local : q = req[r] /\ LocalOK(q)
  BY LocalOf
<1>2. q.handle \in Handles
  BY <1>1 DEF ConsumeConsent, LocalOK
<1>3. PICK p : p = pending[q.handle]
  OBVIOUS
<1>4. ConsumePendingAuth(q.handle) /\ UNCHANGED <<codes, drawn, history>>
  BY <1>1 DEF ConsumeConsent
<1>5. \/ Refuse(r) \/ Reply(r, dropBinder(q.cookie, p.binder), None)
      \/ p # None /\ ~p.approved /\ Become(r, [q EXCEPT !.pc = "restate", !.rec = p])
  BY <1>1, <1>3 DEF ConsumeConsent
<1>6. CASE Refuse(r) \/ Reply(r, dropBinder(q.cookie, p.binder), None)
  <2>1. Settles
    BY <1>6, AnswerSettles
  <2> QED BY <1>4, <2>1, ConsumedRecords, SettledFades DEF history
<1>7. CASE p # None /\ ~p.approved /\ Become(r, [q EXCEPT !.pc = "restate", !.rec = p])
  <2>1. /\ [q EXCEPT !.pc = "restate", !.rec = p].rec = p
        /\ [q EXCEPT !.pc = "restate", !.rec = p].pc = "restate"
    BY DEF Local
  <2> QED BY <1>2, <1>3, <1>4, <1>7, <2>1, TakeFades
<1> QED BY <1>5, <1>6, <1>7

LEMMA ConsumeStateFades ==
    ASSUME LoginInv, NEW r \in Reqs, ConsumeState(r) PROVE Fades
<1>1. PICK q \in Local : q = req[r] /\ LocalOK(q)
  BY LocalOf
<1>2. q.handle \in Handles
  BY <1>1 DEF ConsumeState, LocalOK
<1>3. PICK p, s : p = pending[q.handle] /\ s = dropBinder(q.cookie, p.binder)
  OBVIOUS
<1>4. ConsumePendingAuth(q.handle) /\ UNCHANGED <<codes, drawn, history>>
  BY <1>1 DEF ConsumeState
<1>5. \/ Refuse(r) \/ Reply(r, s, None)
      \/ p # None /\ p.approved /\ Become(r, [q EXCEPT !.pc = "code", !.rec = p, !.set = s])
  BY <1>1, <1>3 DEF ConsumeState
<1>6. CASE Refuse(r) \/ Reply(r, s, None)
  <2>1. Settles
    BY <1>6, AnswerSettles
  <2> QED BY <1>4, <2>1, ConsumedRecords, SettledFades DEF history
<1>7. CASE p # None /\ p.approved /\ Become(r, [q EXCEPT !.pc = "code", !.rec = p, !.set = s])
  <2>1. /\ [q EXCEPT !.pc = "code", !.rec = p, !.set = s].rec = p
        /\ [q EXCEPT !.pc = "code", !.rec = p, !.set = s].pc = "code"
    BY DEF Local
  <2> QED BY <1>2, <1>3, <1>4, <1>7, <2>1, TakeFades
<1> QED BY <1>5, <1>6, <1>7

(* A step that leaves the flow of y where it is.                           *)
Untouched(y) ==
    /\ consents'[y] = consents[y] /\ approvedBy'[y] = approvedBy[y]
    /\ \A h \in Handles : Stored(h, y)' \/ Stored(h, y) => pending'[h] = pending[h]
    /\ \A o \in Reqs : Flies(o, y)' \/ Flies(o, y) => req'[o] = req[o]
    /\ \A k \in Codes :
         Minted(k, y)' \/ Minted(k, y) =>
           /\ Minted(k, y)' /\ Minted(k, y) /\ mintedFor'[k] = mintedFor[k]
           /\ codes'[k] = codes[k] /\ granted'[k] = granted[k]

LEMMA UntouchedStage ==
    ASSUME NEW y \in Binders, Untouched(y)
    PROVE  /\ flowPhase'[y] = flowPhase[y] /\ flowAccounts'[y] = flowAccounts[y]
           /\ flowTerms'[y] = flowTerms[y]
<1>1. \A h \in Handles : Stored(h, y)' <=> Stored(h, y)
  BY DEF Untouched, Stored
<1>2. \A o \in Reqs : Flies(o, y)' <=> Flies(o, y)
  BY DEF Untouched, Flies
<1>3. \A k \in Codes : Minted(k, y)' <=> Minted(k, y)
  BY DEF Untouched
<1>4. Asked(y)' <=> Asked(y)
  BY <1>1, <1>2 DEF Untouched, Asked
<1>5. Agreed(y)' <=> Agreed(y)
  BY <1>1, <1>2 DEF Untouched, Agreed
<1>6. (Issued(y)' <=> Issued(y)) /\ (Redeemed(y)' <=> Redeemed(y))
  BY <1>3 DEF Untouched, Issued, Redeemed
<1>7. flowPhase'[y] = flowPhase[y]
  BY <1>4, <1>5, <1>6 DEF Untouched, flowPhase
<1>8. flowAccounts'[y] = flowAccounts[y]
  BY <1>3 DEF Untouched, flowAccounts
<1>9. flowTerms'[y] = flowTerms[y]
  BY <1>3 DEF Untouched, flowTerms
<1> QED BY <1>7, <1>8, <1>9

(* The step of one flow.                                                   *)
LEMMA OneAdvances ==
    ASSUME NEW x \in Binders, \A y \in Binders : y # x => Untouched(y),
           NEW to, flowPhase'[x] = to, NEW A, flowAccounts'[x] = A, NEW T, flowTerms'[x] = T
    PROVE  /\ flowPhase' = [flowPhase EXCEPT ![x] = to]
           /\ flowAccounts' = [flowAccounts EXCEPT ![x] = A]
           /\ flowTerms' = [flowTerms EXCEPT ![x] = T]
<1>1. \A y \in Binders : y # x => /\ flowPhase'[y] = flowPhase[y] /\ flowAccounts'[y] = flowAccounts[y]
                                  /\ flowTerms'[y] = flowTerms[y]
  BY UntouchedStage
<1>2. /\ flowPhase' = [y \in Binders |-> flowPhase'[y]]
      /\ flowAccounts' = [y \in Binders |-> flowAccounts'[y]]
      /\ flowTerms' = [y \in Binders |-> flowTerms'[y]]
  BY DEF flowPhase, flowAccounts, flowTerms
<1>3. /\ flowPhase = [y \in Binders |-> flowPhase[y]]
      /\ flowAccounts = [y \in Binders |-> flowAccounts[y]]
      /\ flowTerms = [y \in Binders |-> flowTerms[y]]
  BY DEF flowPhase, flowAccounts, flowTerms
<1>4. flowPhase' = [flowPhase EXCEPT ![x] = to]
  BY <1>1, <1>2, <1>3
<1>5. flowAccounts' = [flowAccounts EXCEPT ![x] = A]
  BY <1>1, <1>2, <1>3
<1>6. flowTerms' = [flowTerms EXCEPT ![x] = T]
  BY <1>1, <1>2, <1>3
<1> QED BY <1>4, <1>5, <1>6

(* A flow without a code has no account and no terms.                      *)
LEMMA NoCodeYet ==
    ASSUME NEW x \in Binders, \A k \in Codes : ~Minted(k, x)
    PROVE  flowAccounts[x] = {} /\ flowTerms[x] = {}
BY DEF flowAccounts, flowTerms

(* The consent page is shown: a new flow.                                  *)
LEMMA SaveConsentRefines ==
    ASSUME LoginInv, OneCarrier, LoginInv', NEW r \in Reqs, SaveConsent(r)
    PROVE  [C!Next]_C!vars
<1>1. PICK q \in Local : q = req[r] /\ LocalOK(q)
  BY LocalOf
<1>2. q.pc = "pend" /\ q.ask \in Ask
  BY <1>1 DEF SaveConsent, LocalOK, Asking
<1>3. CASE UNCHANGED <<drawn, pending, consents>>
  <2>1. Settles
    BY AnswerSettles DEF SaveConsent
  <2>2. UNCHANGED <<codes, approvedBy, mintedFor, granted>>
    BY DEF SaveConsent
  <2>3. Fades
    BY <1>3, <2>1, <2>2, SettledFades
  <2> QED BY <2>3, FadesEnd
<1>4. CASE ~UNCHANGED <<drawn, pending, consents>>
  <2>1. PICK h \in Handles \ drawn, x \in Binders \ drawn :
          /\ drawn' = drawn \cup {h, x}
          /\ pending' = [pending EXCEPT ![h] =
               [ask |-> q.ask, binder |-> x, approved |-> FALSE,
                expires |-> clock + PendingAuthTTL]]
          /\ \E s : Reply(r, s, h)
          /\ \E page : consents' = [consents EXCEPT ![x] = page]
    BY <1>1, <1>4 DEF SaveConsent
  <2>2. PICK p : p = [ask |-> q.ask, binder |-> x, approved |-> FALSE,
                      expires |-> clock + PendingAuthTTL]
    OBVIOUS
  <2>3. p \in Pending /\ p # None /\ p.binder = x /\ ~p.approved
    <3>1. clock + PendingAuthTTL \in Nat
      BY TimesAssumption DEF LoginInv, TablesOK
    <3>2. p \in Pending
      BY <1>2, <2>2, <3>1 DEF Pending
    <3> QED BY <2>2, <3>2, RowAssumption DEF Pending
  <2>4. pending'[h] = p /\ \A g \in Handles : g # h => pending'[g] = pending[g]
    BY <2>1, <2>2 DEF LoginInv, TablesOK
  <2>5. UNCHANGED <<codes, approvedBy, mintedFor, granted>>
    BY DEF SaveConsent
  <2>6. \A k \in Codes : k \in drawn' <=> k \in drawn
    BY <2>1, SecretsAssumption
  <2>7. Settles
    BY <2>1, AnswerSettles
  <2>8. pending[h] = None
    BY <2>1 DEF LoginInv, RecordsOK
  <2>9. /\ \A g \in Handles : ~Stored(g, x)
        /\ \A o \in Reqs : ~Flies(o, x)
        /\ \A k \in Codes : ~Minted(k, x)
    BY <2>1 DEF Stored, Flies, Minted, LoginInv, RecordsOK, RecordOK, LocalsOK, LocalOK, Holding,
               CodesOK, CodeOK
  <2>10. consents[x] = None /\ x \in drawn'
    BY <2>1 DEF LoginInv, PagesOK
  <2>11. consents'[x] \in Page /\ consents'[x] # None
    BY <2>10, PageAssumption DEF LoginInv, PagesOK
  <2>12. consents' = [consents EXCEPT ![x] = consents'[x]]
    BY <2>1 DEF LoginInv, TablesOK
  <2>13. ASSUME NEW y \in Binders, y # x PROVE Untouched(y)
    <3>1. consents'[y] = consents[y]
      BY <2>1, <2>13 DEF LoginInv, TablesOK
    <3>2. ASSUME NEW g \in Handles, Stored(g, y)' \/ Stored(g, y) PROVE pending'[g] = pending[g]
      BY <2>3, <2>4, <2>8, <2>13, <3>2 DEF Stored
    <3>3. ASSUME NEW o \in Reqs, Flies(o, y)' \/ Flies(o, y) PROVE req'[o] = req[o]
      <4>1. CASE o = r
        <5>1. req'[r].pc = "reply"
          BY <2>1 DEF Reply, Become, Idle, LoginInv, TablesOK
        <5> QED BY <1>1, <1>2, <3>3, <4>1, <5>1 DEF Flies
      <4>2. CASE o # r
        BY <2>1, <4>2 DEF Reply, Become, LoginInv, TablesOK
      <4> QED BY <4>1, <4>2
    <3>4. \A k \in Codes : Minted(k, y)' <=> Minted(k, y)
      BY <2>5, <2>6 DEF Minted
    <3> QED BY <2>5, <3>1, <3>2, <3>3, <3>4 DEF Untouched
  <2>14. flowPhase[x] = "unborn" /\ flowPhase'[x] = "asked"
    <3>1. Asked(x)'
      BY <2>3, <2>4 DEF Asked, Stored
    <3> QED BY <2>10, <2>11, <3>1 DEF flowPhase
  <2>15. flowAccounts[x] = {} /\ flowTerms[x] = {}
    BY <2>9, NoCodeYet
  <2>16. flowAccounts'[x] = {} /\ flowTerms'[x] = {}
    <3>1. \A k \in Codes : ~Minted(k, x)'
      BY <2>5, <2>6, <2>9 DEF Minted
    <3> QED BY <3>1 DEF flowAccounts, flowTerms
  <2>17. /\ flowPhase' = [flowPhase EXCEPT ![x] = "asked"]
         /\ flowAccounts' = [flowAccounts EXCEPT ![x] = {}]
         /\ flowTerms' = [flowTerms EXCEPT ![x] = {}]
    BY <2>13, <2>14, <2>16, OneAdvances
  <2>18. UNCHANGED <<flowAccounts, flowTerms>>
    BY <2>15, <2>17 DEF flowAccounts, flowTerms
  <2>19. C!Open(x)
    BY <2>5, <2>11, <2>12, <2>14, <2>17, <2>18 DEF C!Open, C!Advance
  <2> QED BY <2>19 DEF C!Next
<1> QED BY <1>3, <1>4

(* The browser that was shown the page approves it.                        *)
LEMMA SaveApprovedRefines ==
    ASSUME LoginInv, OneCarrier, NEW r \in Reqs, SaveApproved(r)
    PROVE  [C!Next]_C!vars
<1>1. PICK q \in Local : q = req[r] /\ LocalOK(q)
  BY LocalOf
<1>2. /\ q.pc = "restate" /\ q.rec \in Pending /\ q.browser \in Browsers
      /\ q.rec.binder \in drawn /\ consents[q.rec.binder].browser = q.browser
  BY <1>1 DEF SaveApproved, LocalOK, Holding, RecordOK
<1>3. UNCHANGED <<codes, consents, mintedFor, granted>>
  BY DEF SaveApproved
<1>4. CASE UNCHANGED <<drawn, pending, approvedBy>>
  <2>1. Settles
    BY AnswerSettles DEF SaveApproved
  <2>2. Fades
    BY <1>3, <1>4, <2>1, SettledFades
  <2> QED BY <2>2, FadesEnd
<1>5. CASE ~UNCHANGED <<drawn, pending, approvedBy>>
  <2>1. PICK x \in Binders : x = q.rec.binder
    BY <1>2 DEF Pending
  <2>2. PICK h \in Handles \ drawn :
          /\ drawn' = drawn \cup {h}
          /\ pending' = [pending EXCEPT ![h] =
               [q.rec EXCEPT !.approved = TRUE, !.expires = clock + PendingAuthTTL]]
          /\ Reply(r, None, h)
          /\ approvedBy' = [approvedBy EXCEPT ![x] = q.browser]
    BY <1>1, <1>5, <2>1 DEF SaveApproved
  <2>3. PICK p : p = [q.rec EXCEPT !.approved = TRUE, !.expires = clock + PendingAuthTTL]
    OBVIOUS
  <2>4. p \in Pending /\ p # None /\ p.binder = x /\ p.approved
    <3>1. clock + PendingAuthTTL \in Nat
      BY TimesAssumption DEF LoginInv, TablesOK
    <3>2. p \in Pending
      BY <1>2, <2>3, <3>1 DEF Pending
    <3> QED BY <1>2, <2>1, <2>3, <3>2, RowAssumption DEF Pending
  <2>5. pending'[h] = p /\ \A g \in Handles : g # h => pending'[g] = pending[g]
    BY <2>2, <2>3 DEF LoginInv, TablesOK
  <2>6. pending[h] = None
    BY <2>2 DEF LoginInv, RecordsOK
  <2>7. req'[r].pc = "reply" /\ \A o \in Reqs : o # r => req'[o] = req[o]
    BY <2>2 DEF Reply, Become, Idle, LoginInv, TablesOK
  <2>8. \A k \in Codes : \A y : Minted(k, y)' <=> Minted(k, y)
    BY <1>3, <2>2, SecretsAssumption DEF Minted
  <2>9. Flies(r, x)
    BY <1>1, <1>2, <2>1 DEF Flies
  <2>10. /\ \A g \in Handles : ~Stored(g, x)
         /\ \A o \in Reqs : Flies(o, x) => o = r
         /\ \A k \in Codes : ~Minted(k, x)
    BY <2>9 DEF OneCarrier, CarriedOnce
  <2>11. ASSUME NEW y \in Binders, y # x PROVE Untouched(y)
    <3>1. approvedBy'[y] = approvedBy[y]
      BY <2>2, <2>11 DEF LoginInv, TablesOK
    <3>2. ASSUME NEW g \in Handles, Stored(g, y)' \/ Stored(g, y) PROVE pending'[g] = pending[g]
      BY <2>4, <2>5, <2>6, <2>11, <3>2 DEF Stored
    <3>3. ASSUME NEW o \in Reqs, Flies(o, y)' \/ Flies(o, y) PROVE req'[o] = req[o]
      BY <1>1, <2>1, <2>7, <2>11, <3>3 DEF Flies
    <3> QED BY <1>3, <2>8, <3>1, <3>2, <3>3 DEF Untouched
  <2>12. consents[x] # None
    BY <1>2, <2>1, PageAssumption DEF LoginInv, PagesOK
  <2>13. flowPhase[x] = "asked"
    <3>1. Asked(x)
      BY <1>1, <1>2, <2>9 DEF Asked
    <3> QED BY <2>12, <3>1 DEF flowPhase
  <2>14. flowPhase'[x] = "approved"
    <3>1. Agreed(x)'
      BY <2>4, <2>5 DEF Agreed, Stored
    <3>2. /\ \A g \in Handles : Stored(g, x)' => pending'[g].approved
          /\ \A o \in Reqs : ~Flies(o, x)'
      BY <2>4, <2>5, <2>7, <2>10 DEF Stored, Flies
    <3>3. ~Asked(x)'
      BY <3>2 DEF Asked
    <3> QED BY <1>3, <2>12, <3>1, <3>3 DEF flowPhase
  <2>15. flowAccounts[x] = {} /\ flowTerms[x] = {}
    BY <2>10, NoCodeYet
  <2>16. flowAccounts'[x] = {} /\ flowTerms'[x] = {}
    BY <2>8, <2>10 DEF flowAccounts, flowTerms
  <2>17. /\ flowPhase' = [flowPhase EXCEPT ![x] = "approved"]
         /\ flowAccounts' = [flowAccounts EXCEPT ![x] = {}]
         /\ flowTerms' = [flowTerms EXCEPT ![x] = {}]
    BY <2>11, <2>14, <2>16, OneAdvances
  <2>18. UNCHANGED <<flowAccounts, flowTerms>>
    BY <2>15, <2>17 DEF flowAccounts, flowTerms
  <2>19. [y \in Binders |-> {approvedBy'[y]} \ {None}]
           = [[y \in Binders |-> {approvedBy[y]} \ {None}] EXCEPT ![x] = {consents[x].browser}]
    <3>1. approvedBy'[x] = q.browser /\ \A y \in Binders : y # x => approvedBy'[y] = approvedBy[y]
      BY <2>2 DEF LoginInv, TablesOK
    <3>2. {approvedBy'[x]} \ {None} = {consents[x].browser}
      BY <1>2, <2>1, <3>1, SecretsAssumption
    <3> QED BY <3>1, <3>2
  <2>20. C!Approve(x)
    BY <1>3, <2>13, <2>17, <2>18, <2>19 DEF C!Approve, C!Advance
  <2> QED BY <2>20 DEF C!Next
<1> QED BY <1>4, <1>5

(* The callback of the browser that approved the page mints the code.      *)
LEMMA SaveCodeRefines ==
    ASSUME LoginInv, OneCarrier, NEW r \in Reqs, SaveCode(r)
    PROVE  [C!Next]_C!vars
<1>1. PICK q \in Local : q = req[r] /\ LocalOK(q)
  BY LocalOf
<1>2. /\ q.pc = "code" /\ q.rec \in Pending /\ q.browser \in Browsers
      /\ q.rec.binder \in drawn /\ consents[q.rec.binder].browser = q.browser
  BY <1>1 DEF SaveCode, LocalOK, Holding, RecordOK
<1>3. UNCHANGED <<pending, consents, approvedBy, granted>>
  BY DEF SaveCode
<1>4. CASE Reply(r, q.set, None) /\ UNCHANGED <<drawn, codes, mintedFor>>
  <2>1. Settles
    BY <1>4, AnswerSettles
  <2>2. Fades
    BY <1>3, <1>4, <2>1, SettledFades
  <2> QED BY <2>2, FadesEnd
<1>5. ASSUME NEW k \in Codes \ drawn, drawn' = drawn \cup {k},
             codes' = [codes EXCEPT ![k] =
               [ask |-> q.rec.ask, user |-> q.browser, expires |-> clock + AuthCodeTTL]],
             mintedFor' = [mintedFor EXCEPT ![k] = [browser |-> q.browser, binder |-> q.rec.binder]],
             Become(r, [q EXCEPT !.pc = "extend", !.at = clock, !.gives = k])
      PROVE  [C!Next]_C!vars
  <2>1. PICK x \in Binders : x = q.rec.binder
    BY <1>2 DEF Pending
  <2>2. /\ mintedFor'[k].binder = x /\ mintedFor'[k].browser = q.browser
        /\ \A j \in Codes : j # k => mintedFor'[j] = mintedFor[j] /\ codes'[j] = codes[j]
    BY <1>5, <2>1 DEF LoginInv, TablesOK
  <2>3. codes'[k] # None
    <3>1. PICK ac : ac = [ask |-> q.rec.ask, user |-> q.browser, expires |-> clock + AuthCodeTTL]
      OBVIOUS
    <3>2. clock + AuthCodeTTL \in Nat
      BY TimesAssumption DEF LoginInv, TablesOK
    <3>3. ac \in AuthCode
      BY <1>2, <3>1, <3>2 DEF AuthCode, Pending
    <3>4. ac # None
      BY <3>3, RowAssumption DEF AuthCode
    <3> QED BY <1>5, <3>1, <3>4 DEF LoginInv, TablesOK
  <2>4. req'[r].pc = "extend" /\ \A o \in Reqs : o # r => req'[o] = req[o]
    BY <1>5 DEF Become, Local, LoginInv, TablesOK
  <2>5. granted[k] = <<>>
    BY <1>5 DEF LoginInv, CodesOK, CodeOK
  <2>6. Flies(r, x)
    BY <1>1, <1>2, <2>1 DEF Flies
  <2>7. /\ \A g \in Handles : ~Stored(g, x)
        /\ \A o \in Reqs : Flies(o, x) => o = r
        /\ \A j \in Codes : ~Minted(j, x)
    BY <2>6 DEF OneCarrier, CarriedOnce
  <2>8. ASSUME NEW y \in Binders, y # x PROVE Untouched(y)
    <3>1. \A g \in Handles : pending'[g] = pending[g]
      BY <1>3
    <3>2. ASSUME NEW o \in Reqs, Flies(o, y)' \/ Flies(o, y) PROVE req'[o] = req[o]
      BY <1>1, <2>1, <2>4, <2>8, <3>2 DEF Flies
    <3>3. ASSUME NEW j \in Codes, Minted(j, y)' \/ Minted(j, y)
          PROVE  /\ Minted(j, y)' /\ Minted(j, y) /\ mintedFor'[j] = mintedFor[j]
                 /\ codes'[j] = codes[j] /\ granted'[j] = granted[j]
      <4>1. j # k
        BY <1>5, <2>2, <2>8, <3>3 DEF Minted
      <4> QED BY <1>3, <1>5, <2>2, <3>3, <4>1 DEF Minted
    <3> QED BY <1>3, <3>1, <3>2, <3>3 DEF Untouched
  <2>9. consents[x] # None
    BY <1>2, <2>1, PageAssumption DEF LoginInv, PagesOK
  <2>10. flowPhase[x] = "approved"
    <3>1. Agreed(x)
      BY <1>1, <1>2, <2>6 DEF Agreed
    <3>2. ~Asked(x)
      BY <3>1, OneStage
    <3> QED BY <2>9, <3>1, <3>2 DEF flowPhase
  <2>11. Minted(k, x)' /\ \A j \in Codes : Minted(j, x)' => j = k
    BY <1>5, <2>2, <2>7 DEF Minted
  <2>12. flowPhase'[x] = "issued"
    <3>1. \A g \in Handles : ~Stored(g, x)'
      BY <1>3, <2>7 DEF Stored
    <3>2. \A o \in Reqs : ~Flies(o, x)'
      BY <2>4, <2>7 DEF Flies
    <3>3. ~Asked(x)' /\ ~Agreed(x)'
      BY <3>1, <3>2 DEF Asked, Agreed
    <3>4. Issued(x)'
      BY <2>3, <2>11 DEF Issued
    <3> QED BY <1>3, <2>9, <3>3, <3>4 DEF flowPhase
  <2>13. flowTerms[x] = {}
    BY <2>7, NoCodeYet
  <2>14. flowTerms'[x] = {}
    BY <1>3, <2>5, <2>11 DEF flowTerms
  <2>15. flowAccounts'[x] = {consents[x].browser}
    BY <1>2, <2>1, <2>2, <2>11 DEF flowAccounts
  <2>16. /\ flowPhase' = [flowPhase EXCEPT ![x] = "issued"]
         /\ flowAccounts' = [flowAccounts EXCEPT ![x] = {consents[x].browser}]
         /\ flowTerms' = [flowTerms EXCEPT ![x] = {}]
    BY <2>8, <2>12, <2>14, <2>15, OneAdvances
  <2>17. UNCHANGED flowTerms
    BY <2>13, <2>16 DEF flowTerms
  <2>18. C!Issue(x)
    BY <1>3, <2>10, <2>16, <2>17 DEF C!Issue, C!Advance
  <2> QED BY <2>18 DEF C!Next
<1>6. \/ Reply(r, q.set, None) /\ UNCHANGED <<drawn, codes, mintedFor>>
      \/ \E k \in Codes \ drawn :
           /\ drawn' = drawn \cup {k}
           /\ codes' = [codes EXCEPT ![k] =
                [ask |-> q.rec.ask, user |-> q.browser, expires |-> clock + AuthCodeTTL]]
           /\ mintedFor' = [mintedFor EXCEPT ![k] = [browser |-> q.browser, binder |-> q.rec.binder]]
           /\ Become(r, [q EXCEPT !.pc = "extend", !.at = clock, !.gives = k])
  BY <1>1 DEF SaveCode
<1> QED BY <1>4, <1>5, <1>6

(* The code buys tokens on the terms of the page, or is burned.            *)
LEMMA RedeemRefines ==
    ASSUME LoginInv, OneCarrier, NEW r \in Reqs, Redeem(r)
    PROVE  [C!Next]_C!vars
<1>1. PICK q \in Local : q = req[r] /\ LocalOK(q)
  BY LocalOf
<1>2. PICK k \in Codes : k = q.handle /\ k \in drawn
  BY <1>1 DEF Redeem, LocalOK
<1>3. q.pc = "redeem" /\ q.ask \in Ask
  BY <1>1 DEF Redeem, LocalOK, Asking
<1>4. UNCHANGED <<pending, drawn, consents, approvedBy, mintedFor>> /\ Refuse(r)
  BY DEF Redeem
<1>5. codes'[k] = None /\ \A j \in Codes : j # k => codes'[j] = codes[j]
  BY <1>1, <1>2 DEF Redeem, LoginInv, TablesOK
<1>6. CASE ~Redeemable(codes[k], q.ask)
  <2>1. granted' = granted
    BY <1>1, <1>2, <1>6 DEF Redeem
  <2>2. Settles
    BY <1>4, AnswerSettles
  <2>3. Fades
    BY <1>4, <1>5, <2>1, <2>2, SettledFades
  <2> QED BY <2>3, FadesEnd
<1>7. CASE Redeemable(codes[k], q.ask)
  <2>1. PICK m \in Mint : m = mintedFor[k]
    BY <1>2 DEF LoginInv, CodesOK, CodeOK
  <2>2. PICK x \in Binders : x = m.binder
    BY DEF Mint
  <2>3. PICK ac \in AuthCode : ac = codes[k] /\ ac # None
    BY <1>7 DEF Redeemable, LoginInv, TablesOK
  <2>4. ac.ask = consents[x].ask /\ granted[k] = <<>> /\ x \in drawn
    BY <1>2, <2>1, <2>2, <2>3 DEF LoginInv, CodesOK, CodeOK
  <2>5. ac.ask = q.ask
    <3>1. /\ ac.ask \in Ask /\ ac.ask.client = q.ask.client /\ ac.ask.uri = q.ask.uri
          /\ ac.ask.challenge = q.ask.challenge
      BY <1>7, <2>3 DEF Redeemable, verifyPKCE, AuthCode
    <3> QED BY <1>3, <3>1 DEF Ask
  <2>6. granted'[k] = <<q.ask>> /\ \A j \in Codes : j # k => granted'[j] = granted[j]
    <3>1. granted' = [granted EXCEPT ![k] = Append(granted[k], q.ask)]
      BY <1>1, <1>2, <1>7 DEF Redeem, LoginInv, TablesOK
    <3> QED BY <2>4, <3>1 DEF LoginInv, TablesOK
  <2>7. req'[r].pc = "idle" /\ \A o \in Reqs : o # r => req'[o] = req[o]
    BY <1>4 DEF Refuse, Become, Idle, LoginInv, TablesOK
  <2>8. \A j \in Codes : \A y : Minted(j, y)' <=> Minted(j, y)
    BY <1>4 DEF Minted
  <2>9. Minted(k, x) /\ \A j \in Codes : Minted(j, x) => j = k
    BY <1>2, <2>1, <2>2 DEF Minted, OneCarrier, CarriedOnce
  <2>10. /\ \A g \in Handles : ~Stored(g, x)
         /\ \A o \in Reqs : ~Flies(o, x)
    BY <2>9 DEF OneCarrier, CarriedOnce
  <2>11. ASSUME NEW y \in Binders, y # x PROVE Untouched(y)
    <3>1. \A o \in Reqs : Flies(o, y)' \/ Flies(o, y) => req'[o] = req[o]
      BY <1>1, <1>3, <2>7 DEF Flies
    <3>2. \A j \in Codes : Minted(j, y) => j # k
      BY <2>1, <2>2, <2>11 DEF Minted
    <3> QED BY <1>4, <1>5, <2>6, <2>8, <3>1, <3>2 DEF Untouched
  <2>12. consents[x] # None
    BY <2>4, PageAssumption DEF LoginInv, PagesOK
  <2>13. flowPhase[x] = "issued"
    <3>1. Issued(x)
      BY <2>3, <2>9 DEF Issued
    <3>2. ~Asked(x) /\ ~Agreed(x)
      BY <3>1, OneStage
    <3> QED BY <2>12, <3>1, <3>2 DEF flowPhase
  <2>14. flowPhase'[x] = "granted"
    <3>1. /\ \A g \in Handles : ~Stored(g, x)'
          /\ \A o \in Reqs : ~Flies(o, x)'
      BY <1>4, <2>7, <2>10 DEF Stored, Flies
    <3>2. ~Asked(x)' /\ ~Agreed(x)'
      BY <3>1 DEF Asked, Agreed
    <3>3. ~Issued(x)'
      BY <1>5, <2>8, <2>9 DEF Issued
    <3>4. Redeemed(x)'
      BY <2>6, <2>8, <2>9 DEF Redeemed
    <3> QED BY <1>4, <2>12, <3>2, <3>3, <3>4 DEF flowPhase
  <2>15. flowAccounts'[x] = flowAccounts[x]
    BY <1>4, <2>8 DEF flowAccounts
  <2>16. flowTerms'[x] = {consents[x].ask}
    <3>1. PICK a \in Ask : a = q.ask
      BY <1>3
    <3>2. \A i \in 1..Len(granted'[k]) : granted'[k][i] = a
      BY <2>6, <3>1
    <3>3. 1 \in 1..Len(granted'[k])
      BY <2>6
    <3>4. flowTerms'[x] = {a}
      BY <2>8, <2>9, <3>2, <3>3 DEF flowTerms
    <3> QED BY <2>4, <2>5, <3>1, <3>4
  <2>17. /\ flowPhase' = [flowPhase EXCEPT ![x] = "granted"]
         /\ flowAccounts' = [flowAccounts EXCEPT ![x] = flowAccounts[x]]
         /\ flowTerms' = [flowTerms EXCEPT ![x] = {consents[x].ask}]
    BY <2>11, <2>14, <2>15, <2>16, OneAdvances
  <2>18. UNCHANGED flowAccounts
    BY <2>17 DEF flowAccounts
  <2>19. C!Grant(x)
    BY <1>4, <2>13, <2>17, <2>18 DEF C!Grant, C!Advance
  <2> QED BY <2>19 DEF C!Next
<1> QED BY <1>6, <1>7

LEMMA InitRefines == Init => C!Init
<1> SUFFICES ASSUME Init PROVE C!Init
  OBVIOUS
<1>1. \A k \in Codes : \A x : ~Minted(k, x)
  BY DEF Init, Minted
<1>2. flowPhase = [x \in Binders |-> "unborn"]
  BY DEF Init, flowPhase
<1>3. flowAccounts = C!Nothing /\ flowTerms = C!Nothing
  BY <1>1 DEF flowAccounts, flowTerms, C!Nothing
<1>4. [x \in Binders |-> {approvedBy[x]} \ {None}] = C!Nothing
  BY DEF Init, C!Nothing
<1> QED BY <1>2, <1>3, <1>4 DEF Init, C!Init

(* A step of the login flow is a step of Consent, or nothing happens       *)
(* there.                                                                  *)
LEMMA NextRefines ==
    LoginInv /\ OneCarrier /\ LoginInv' /\ [Next]_vars => [C!Next]_C!vars
<1> SUFFICES ASSUME LoginInv, OneCarrier, LoginInv', [Next]_vars PROVE [C!Next]_C!vars
  OBVIOUS
<1>1. CASE \E r \in Reqs : SaveConsent(r) \/ SaveApproved(r) \/ SaveCode(r) \/ Redeem(r)
  BY <1>1, SaveConsentRefines, SaveApprovedRefines, SaveCodeRefines, RedeemRefines
<1>2. CASE ~\E r \in Reqs : SaveConsent(r) \/ SaveApproved(r) \/ SaveCode(r) \/ Redeem(r)
  <2>1. Fades
    BY <1>2, BystandersFade, ConsumeConsentFades, ConsumeStateFades DEF Next, Handle
  <2> QED BY <2>1, FadesEnd
<1> QED BY <1>1, <1>2

(* The login flow implements Consent: replayed and stolen handles,         *)
(* overlapping requests, failed calls, purges and restarts included, a     *)
(* login goes forward only, in the hands of the person who was asked.      *)
THEOREM RefinesConsent == Spec => ImplementsConsent
BY LoginInvariant, InitRefines, NextRefines, PTL DEF Spec, ImplementsConsent, C!Spec
=============================================================================
