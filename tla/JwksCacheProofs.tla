--------------------------- MODULE JwksCacheProofs --------------------------
(***************************************************************************)
(* Proofs about JwksCache: its types, and that a withdrawn key dies, for   *)
(* any number of logins and keys and any lifetimes.                        *)
(***************************************************************************)
EXTENDS JwksCache, TLAPS

(* How long a document is used before its expiry, counted from the last    *)
(* instant Google's document had the keys in it.                           *)
Usable(k, expires) == expires <= lastOut[k] + FetchTimeout + maxTTL

(* A key Google publishes now was published up to now.                     *)
PublishedOK == /\ \A k \in published : lastOut[k] = clock
               /\ \A k \in Kids : lastOut[k] <= clock

(* Every cached key is usable for a bounded time.                          *)
CacheOK == \A k \in cache.keys : Usable(k, cache.expiresAt)

(* So is the key a login found before it asked Google ...                  *)
HitOK(q) == q.pc \in {"fetch", "answer"} =>
              /\ q.kid \in Kids
              /\ q.sent <= clock /\ clock <= q.sent + FetchTimeout
              /\ q.hit => Usable(q.kid, q.expiresAt)

(* ... and the document on its way to it was served since it asked.        *)
AnswerOK(q) == q.pc = "answer" => /\ q.doc \in Document
                                  /\ \A k \in q.doc.keys : q.sent <= lastOut[k]

AcceptOK(q) == q.pc = "accept" => /\ q.kid \in Kids
                                  /\ q.at <= lastOut[q.kid] + Lifetime

LoginsOK == \A r \in Reqs : HitOK(req[r]) /\ AnswerOK(req[r]) /\ AcceptOK(req[r])

(* The inductive invariant behind WithdrawnKeysDie.                        *)
KeyInv == TypeOK /\ PublishedOK /\ CacheOK /\ LoginsOK

-----------------------------------------------------------------------------
(* cacheTTL stays within its clamp, for every header.                      *)
LEMMA TTLClamped ==
  ASSUME NEW age \in MaxAges \cup {None}
  PROVE  cacheTTL(age) \in minTTL..maxTTL
  <1>. USE TimesAssumption, KeysAssumption
  <1>1. CASE age = None
    BY <1>1 DEF cacheTTL
  <1>2. CASE age # None
    <2>1. age \in Int
      BY <1>2
    <2>2. (age + DurationLimit) % (2 * DurationLimit) \in Int
      BY <2>1
    <2>3. Duration(age) \in Int
      BY <2>2 DEF Duration
    <2>. HIDE DEF Duration
    <2>. QED BY <1>2, <2>1, <2>3 DEF cacheTTL
  <1>. QED BY <1>1, <1>2

(* A call that has not begun, and what key() returns, are locals.          *)
LEMMA ReturnType ==
  /\ Idle \in Local
  /\ \A q \in Local, pc \in Steps, t \in Nat :
       [Idle EXCEPT !.pc = pc, !.kid = q.kid, !.at = t, !.gap = q.gap] \in Local
  BY DEF Idle, Local, Steps

(* A step of one login leaves the locals of the others alone.              *)
LEMMA BecomeEffect ==
  ASSUME TypeOK, NEW r \in Reqs, NEW v \in Local, Become(r, v)
  PROVE  /\ req' \in [Reqs -> Local]
         /\ req'[r] = v
         /\ \A o \in Reqs : o # r => req'[o] = req[o]
  BY DEF TypeOK, Become

(* The invariant holds when the server starts.                             *)
LEMMA InitKeyInv == Init => KeyInv
  <1>. SUFFICES ASSUME Init PROVE KeyInv
    OBVIOUS
  <1>1. TypeOK
    BY ReturnType DEF Init, TypeOK, NoKeys
  <1>2. PublishedOK /\ CacheOK
    BY DEF Init, PublishedOK, CacheOK, NoKeys
  <1>3. \A r \in Reqs : req[r].pc = "idle"
    BY DEF Init, Idle
  <1>4. LoginsOK
    BY <1>3 DEF LoginsOK, HitOK, AnswerOK, AcceptOK
  <1>. QED BY <1>1, <1>2, <1>4 DEF KeyInv

(* A step of login r that leaves time, Google and the cache alone keeps    *)
(* the invariant when its new locals do.                                   *)
LEMMA LoginStep ==
  ASSUME KeyInv, NEW r \in Reqs, NEW v \in Local, Become(r, v),
         UNCHANGED <<clock, published, cache, lastOut>>,
         HitOK(v), AnswerOK(v), AcceptOK(v)
  PROVE  KeyInv'
  <1>1. TypeOK'
    BY BecomeEffect DEF KeyInv, TypeOK
  <1>2. PublishedOK' /\ CacheOK'
    BY DEF KeyInv, PublishedOK, CacheOK, Usable
  <1>3. LoginsOK'
    <2>1. \A o \in Reqs : req'[o] = v \/ req'[o] = req[o]
      BY BecomeEffect DEF KeyInv
    <2>2. \A o \in Reqs : HitOK(req'[o]) /\ AnswerOK(req'[o]) /\ AcceptOK(req'[o])
      BY <2>1 DEF KeyInv, LoginsOK
    <2>. QED BY <2>2 DEF LoginsOK, HitOK, AnswerOK, AcceptOK, Usable
  <1>. QED BY <1>1, <1>2, <1>3 DEF KeyInv

(* What key() returns keeps the invariant, provided a key it returns was   *)
(* published recently enough.                                              *)
LEMMA ReturnStep ==
  ASSUME KeyInv, NEW r \in Reqs, NEW result \in {"accept", "unknown", "unreachable"},
         Return(r, result), UNCHANGED <<clock, published, cache, lastOut>>,
         result = "accept" => /\ req[r].kid \in Kids
                              /\ clock <= lastOut[req[r].kid] + Lifetime
  PROVE  KeyInv'
  <1>. DEFINE v == [Idle EXCEPT !.pc = result, !.kid = req[r].kid, !.at = clock, !.gap = req[r].gap]
  <1>1. req[r] \in Local /\ clock \in Nat /\ result \in Steps
    BY DEF KeyInv, TypeOK, Steps
  <1>2. v \in Local
    BY <1>1, ReturnType
  <1>3. v.pc = result /\ v.kid = req[r].kid /\ v.at = clock
    BY DEF Idle
  <1>4. Become(r, v)
    BY DEF Return
  <1>. HIDE DEF v
  <1>5. HitOK(v) /\ AnswerOK(v) /\ AcceptOK(v)
    BY <1>3 DEF HitOK, AnswerOK, AcceptOK
  <1>. QED BY <1>2, <1>4, <1>5, LoginStep

(* The look-up keeps the invariant: a key within its lifetime was          *)
(* published recently enough, and what is kept for the fetch is usable.    *)
LEMMA LookStep ==
  ASSUME KeyInv, NEW r \in Reqs, Look(r)
  PROVE  KeyInv'
  <1>. USE TimesAssumption
  <1>1. /\ req[r] \in Local /\ clock \in Nat /\ cache.expiresAt \in Nat
        /\ req[r].pc = "look"
        /\ \A k \in Kids : lastOut[k] \in Nat
        /\ cache.keys \subseteq Kids
        /\ UNCHANGED <<clock, published, cache, lastOut>>
    BY DEF KeyInv, TypeOK, Look
  <1>2. CASE Return(r, "unknown")
    BY <1>1, <1>2, ReturnStep
  <1>3. CASE req[r].kid \in cache.keys /\ clock < cache.expiresAt /\ Return(r, "accept")
    <2>1. cache.expiresAt <= lastOut[req[r].kid] + FetchTimeout + maxTTL
      BY <1>3 DEF KeyInv, CacheOK, Usable
    <2>2. clock <= lastOut[req[r].kid] + Lifetime /\ req[r].kid \in Kids
      BY <1>1, <1>3, <2>1 DEF Lifetime
    <2>. QED BY <1>1, <1>3, <2>2, ReturnStep
  <1>4. CASE req[r].kid # None /\ Fetch(r)
    <2>. DEFINE h == req[r].kid \in cache.keys
                v == [req[r] EXCEPT !.pc = "fetch", !.hit = h,
                                    !.expiresAt = cache.expiresAt, !.sent = clock]
    <2>0. h \in BOOLEAN
      OBVIOUS
    <2>2. Become(r, v)
      BY <1>4 DEF Fetch
    <2>6. h => \A n \in Nat : n = cache.expiresAt => Usable(req[r].kid, n)
      BY DEF KeyInv, CacheOK
    <2>. HIDE DEF h
    <2>1. /\ v \in Local /\ v.pc = "fetch" /\ v.kid = req[r].kid /\ v.kid \in Kids
          /\ v.hit = h /\ v.expiresAt = cache.expiresAt /\ v.sent = clock
      BY <1>1, <1>4, <2>0 DEF Local, Steps
    <2>. HIDE DEF v
    <2>3. v.hit => Usable(v.kid, v.expiresAt)
      BY <1>1, <2>1, <2>6
    <2>4. HitOK(v) /\ AnswerOK(v) /\ AcceptOK(v)
      BY <1>1, <2>1, <2>3 DEF HitOK, AnswerOK, AcceptOK
    <2>. QED BY <1>1, <2>1, <2>2, <2>4, LoginStep
  <1>. QED BY <1>2, <1>3, <1>4 DEF Look

(* Google's answer keeps the invariant: it was served after it was asked.  *)
LEMMA ServeStep ==
  ASSUME KeyInv, NEW r \in Reqs, NEW age \in MaxAges \cup {None}, Serve(r, age)
  PROVE  KeyInv'
  <1>. DEFINE d == [keys |-> published, ttl |-> cacheTTL(age)]
              v == [req[r] EXCEPT !.pc = "answer", !.doc = d]
  <1>1. d \in Document /\ d.keys = published
    BY TTLClamped DEF KeyInv, TypeOK, Document
  <1>2. req[r] \in Local /\ req[r].pc = "fetch" /\ HitOK(req[r])
    BY DEF KeyInv, TypeOK, Serve, LoginsOK
  <1>3. Become(r, v) /\ UNCHANGED <<clock, published, cache, lastOut>>
    BY DEF Serve
  <1>. HIDE DEF d
  <1>4. /\ v \in Local /\ v.pc = "answer" /\ v.doc = d /\ v.kid = req[r].kid
        /\ v.hit = req[r].hit /\ v.sent = req[r].sent /\ v.expiresAt = req[r].expiresAt
    BY <1>1, <1>2 DEF Local, Steps
  <1>. HIDE DEF v
  <1>5. HitOK(v)
    BY <1>2, <1>4 DEF HitOK
  <1>6. AnswerOK(v)
    BY <1>1, <1>2, <1>4 DEF AnswerOK, HitOK, KeyInv, PublishedOK
  <1>7. AcceptOK(v)
    BY <1>4 DEF AcceptOK
  <1>. QED BY <1>3, <1>4, <1>5, <1>6, <1>7, LoginStep

(* A failed fetch keeps the invariant: maxStaleJWKS bounds the fallback.   *)
LEMMA FetchFailsStep ==
  ASSUME KeyInv, NEW r \in Reqs, FetchFails(r)
  PROVE  KeyInv'
  <1>. USE TimesAssumption
  <1>1. /\ req[r] \in Local /\ clock \in Nat /\ HitOK(req[r])
        /\ req[r].pc \in {"fetch", "answer"}
        /\ \A k \in Kids : lastOut[k] \in Nat
        /\ UNCHANGED <<clock, published, cache, lastOut>>
    BY DEF KeyInv, TypeOK, FetchFails, LoginsOK
  <1>2. req[r].expiresAt \in Nat /\ req[r].kid \in Kids
    BY <1>1 DEF Local, HitOK
  <1>3. CASE req[r].hit /\ clock < req[r].expiresAt + maxStaleJWKS
    <2>1. req[r].expiresAt <= lastOut[req[r].kid] + FetchTimeout + maxTTL
      BY <1>1, <1>3 DEF HitOK, Usable
    <2>2. clock <= lastOut[req[r].kid] + Lifetime
      BY <1>1, <1>2, <1>3, <2>1 DEF Lifetime
    <2>3. Return(r, "accept")
      BY <1>3 DEF FetchFails
    <2>. QED BY <1>1, <1>2, <2>2, <2>3, ReturnStep
  <1>4. CASE ~(req[r].hit /\ clock < req[r].expiresAt + maxStaleJWKS)
    <2>1. Return(r, "unreachable")
      BY <1>4 DEF FetchFails
    <2>. QED BY <1>1, <2>1, ReturnStep
  <1>. QED BY <1>3, <1>4

(* Installing a document, an older one over a newer one too, keeps the     *)
(* invariant: its lifetime starts at most FetchTimeout after it was        *)
(* served and is at most maxTTL.                                           *)
LEMMA InstallStep ==
  ASSUME KeyInv, NEW r \in Reqs, Install(r)
  PROVE  KeyInv'
  <1>. USE TimesAssumption
  <1>. DEFINE d == req[r].doc
              result == IF req[r].kid \in d.keys THEN "accept" ELSE "unknown"
              v == [Idle EXCEPT !.pc = result, !.kid = req[r].kid, !.at = clock, !.gap = req[r].gap]
  <1>1. /\ req[r] \in Local /\ clock \in Nat /\ req[r].pc = "answer"
        /\ HitOK(req[r]) /\ AnswerOK(req[r])
        /\ \A k \in Kids : lastOut[k] \in Nat
        /\ cache' = [keys |-> d.keys, expiresAt |-> clock + d.ttl]
        /\ UNCHANGED <<clock, published, lastOut>>
        /\ Become(r, v)
    BY DEF KeyInv, TypeOK, Install, LoginsOK, Return
  <1>2. /\ d.keys \subseteq Kids /\ d.ttl \in Nat /\ d.ttl <= maxTTL
        /\ req[r].sent \in Nat /\ clock <= req[r].sent + FetchTimeout
        /\ \A k \in d.keys : req[r].sent <= lastOut[k]
    BY <1>1 DEF AnswerOK, HitOK, Document, Local
  <1>. HIDE DEF d
  <1>3. CacheOK'
    <2>1. cache'.keys = d.keys /\ cache'.expiresAt = clock + d.ttl
      BY <1>1
    <2>. QED BY <1>1, <1>2, <2>1 DEF CacheOK, Usable
  <1>4. v \in Local /\ v.pc = result /\ v.kid = req[r].kid /\ v.at = clock
    <2>1. result \in Steps
      BY DEF Steps
    <2>. HIDE DEF result
    <2>. QED BY <1>1, <2>1, ReturnType DEF Idle
  <1>5. v.pc = "accept" => v.kid \in d.keys
    BY <1>4
  <1>. HIDE DEF v
  <1>6. AcceptOK(v)
    BY <1>1, <1>2, <1>4, <1>5 DEF AcceptOK, Lifetime
  <1>7. HitOK(v) /\ AnswerOK(v)
    BY <1>4 DEF HitOK, AnswerOK
  <1>8. TypeOK'
    BY <1>1, <1>2, <1>4, BecomeEffect DEF KeyInv, TypeOK
  <1>9. LoginsOK'
    <2>1. \A o \in Reqs : req'[o] = v \/ req'[o] = req[o]
      BY <1>1, <1>4, BecomeEffect DEF KeyInv
    <2>2. \A o \in Reqs : HitOK(req'[o]) /\ AnswerOK(req'[o]) /\ AcceptOK(req'[o])
      BY <1>6, <1>7, <2>1 DEF KeyInv, LoginsOK
    <2>. QED BY <1>1, <2>2 DEF LoginsOK, HitOK, AnswerOK, AcceptOK, Usable
  <1>10. PublishedOK'
    BY <1>1 DEF KeyInv, PublishedOK
  <1>. QED BY <1>3, <1>8, <1>9, <1>10 DEF KeyInv

(* What a login relies on survives as Google's document and time go on:    *)
(* lastOut only grows.                                                     *)
LEMMA LaterOut ==
  ASSUME KeyInv, lastOut' \in [Kids -> Nat], \A k \in Kids : lastOut[k] <= lastOut'[k],
         cache' = cache
  PROVE  /\ CacheOK'
         /\ \A q \in Local :
              /\ AnswerOK(q) => AnswerOK(q)'
              /\ AcceptOK(q) => AcceptOK(q)'
              /\ HitOK(q) /\ q.pc \in {"fetch", "answer"} =>
                   (q.hit => /\ q.kid \in Kids
                             /\ q.expiresAt <= lastOut'[q.kid] + FetchTimeout + maxTTL)
  <1>. USE TimesAssumption
  <1>1. lastOut \in [Kids -> Nat] /\ cache.keys \subseteq Kids /\ cache.expiresAt \in Nat
    BY DEF KeyInv, TypeOK
  <1>2. CacheOK'
    BY <1>1 DEF KeyInv, CacheOK, Usable
  <1>3. ASSUME NEW q \in Local, AnswerOK(q) PROVE AnswerOK(q)'
    <2>1. q.sent \in Nat /\ (q.pc = "answer" => q.doc.keys \subseteq Kids)
      BY <1>3 DEF Local, AnswerOK, Document
    <2>. QED BY <1>1, <1>3, <2>1 DEF AnswerOK
  <1>4. ASSUME NEW q \in Local, AcceptOK(q) PROVE AcceptOK(q)'
    <2>1. q.at \in Nat
      BY DEF Local
    <2>. QED BY <1>1, <1>4, <2>1 DEF AcceptOK, Lifetime
  <1>5. ASSUME NEW q \in Local, HitOK(q), q.pc \in {"fetch", "answer"}, q.hit
        PROVE  /\ q.kid \in Kids
               /\ q.expiresAt <= lastOut'[q.kid] + FetchTimeout + maxTTL
    <2>1. q.expiresAt \in Nat
      BY DEF Local
    <2>. QED BY <1>1, <1>5, <2>1 DEF HitOK, Usable
  <1>. QED BY <1>2, <1>3, <1>4, <1>5

(* Google's rotation of its keys keeps the invariant.                      *)
LEMMA RotateStep ==
  ASSUME KeyInv, NEW keys \in SUBSET Kids, Rotate(keys)
  PROVE  KeyInv'
  <1>1. /\ clock \in Nat /\ lastOut \in [Kids -> Nat] /\ req \in [Reqs -> Local]
        /\ UNCHANGED <<clock, cache>> /\ published' = keys
    BY DEF KeyInv, TypeOK, Rotate
  <1>2. lastOut' \in [Kids -> Nat]
    BY <1>1 DEF Rotate
  <1>3. \A k \in Kids : lastOut[k] <= lastOut'[k] /\ (k \in keys => lastOut'[k] = clock)
                         /\ lastOut'[k] <= clock
    BY <1>1 DEF Rotate, KeyInv, PublishedOK
  <1>4. PublishedOK'
    BY <1>1, <1>3 DEF PublishedOK
  <1>5. \A o \in Reqs : /\ req'[o] \in Local
                        /\ \/ req'[o].pc = "idle"
                           \/ /\ req'[o].pc = req[o].pc /\ req'[o].kid = req[o].kid
                              /\ req'[o].hit = req[o].hit /\ req'[o].sent = req[o].sent
                              /\ req'[o].expiresAt = req[o].expiresAt
                              /\ req'[o].doc = req[o].doc /\ req'[o].at = req[o].at
    <2>. SUFFICES ASSUME NEW o \in Reqs
                  PROVE  /\ req'[o] \in Local
                         /\ \/ req'[o].pc = "idle"
                            \/ /\ req'[o].pc = req[o].pc /\ req'[o].kid = req[o].kid
                               /\ req'[o].hit = req[o].hit /\ req'[o].sent = req[o].sent
                               /\ req'[o].expiresAt = req[o].expiresAt
                               /\ req'[o].doc = req[o].doc /\ req'[o].at = req[o].at
      OBVIOUS
    <2>1. CASE req[o].pc = "idle"
      <3>1. req'[o] = Idle
        BY <2>1 DEF Rotate
      <3>2. Idle \in Local
        BY ReturnType
      <3>3. Idle.pc = "idle"
        BY DEF Idle
      <3>. QED BY <3>1, <3>2, <3>3
    <2>2. CASE req[o].pc # "idle"
      <3>. DEFINE g == req[o].gap \/ req[o].kid \notin keys
      <3>1. g \in BOOLEAN
        BY <1>1 DEF Local
      <3>2. req'[o] = [req[o] EXCEPT !.gap = g]
        BY <2>2 DEF Rotate
      <3>. HIDE DEF g
      <3>3. req[o] \in Local
        BY <1>1
      <3>. QED BY <3>1, <3>2, <3>3 DEF Local
    <2>. QED BY <2>1, <2>2
  <1>6. TypeOK'
    <2>1. req' \in [Reqs -> Local]
      BY <1>5 DEF Rotate
    <2>. QED BY <1>1, <1>2, <2>1 DEF KeyInv, TypeOK
  <1>7. /\ CacheOK'
        /\ \A q \in Local :
              /\ AnswerOK(q) => AnswerOK(q)'
              /\ AcceptOK(q) => AcceptOK(q)'
              /\ HitOK(q) /\ q.pc \in {"fetch", "answer"} =>
                   (q.hit => /\ q.kid \in Kids
                             /\ q.expiresAt <= lastOut'[q.kid] + FetchTimeout + maxTTL)
    BY <1>1, <1>2, <1>3, LaterOut
  <1>8. LoginsOK'
    <2>. SUFFICES ASSUME NEW o \in Reqs
                  PROVE  HitOK(req[o])' /\ AnswerOK(req[o])' /\ AcceptOK(req[o])'
      BY DEF LoginsOK
    <2>1. req[o] \in Local /\ HitOK(req[o]) /\ AnswerOK(req[o]) /\ AcceptOK(req[o])
      BY <1>1 DEF KeyInv, LoginsOK
    <2>2. CASE req'[o].pc = "idle"
      BY <2>2 DEF HitOK, AnswerOK, AcceptOK
    <2>3. CASE req'[o].pc # "idle"
      <3>1. HitOK(req[o])'
        BY <1>1, <1>5, <1>7, <2>1, <2>3 DEF HitOK, Usable
      <3>2. AnswerOK(req[o])'
        <4>1. SUFFICES ASSUME req'[o].pc = "answer"
                       PROVE  /\ req'[o].doc \in Document
                              /\ \A k \in req'[o].doc.keys : req'[o].sent <= lastOut'[k]
          BY DEF AnswerOK
        <4>2. /\ req[o].pc = "answer" /\ req'[o].doc = req[o].doc /\ req'[o].sent = req[o].sent
              /\ req[o].doc \in Document /\ req[o].sent \in Nat
          BY <1>5, <2>1, <2>3, <4>1 DEF AnswerOK, Local
        <4>. QED BY <1>1, <1>2, <1>3, <2>1, <4>2 DEF AnswerOK, Document
      <3>3. AcceptOK(req[o])'
        <4>1. SUFFICES ASSUME req'[o].pc = "accept"
                       PROVE  req'[o].kid \in Kids /\ req'[o].at <= lastOut'[req'[o].kid] + Lifetime
          BY DEF AcceptOK
        <4>2. /\ req[o].pc = "accept" /\ req'[o].kid = req[o].kid /\ req'[o].at = req[o].at
              /\ req[o].at \in Nat
          BY <1>5, <2>1, <2>3, <4>1 DEF Local
        <4>. QED BY <1>1, <1>2, <1>3, <2>1, <4>2, TimesAssumption DEF AcceptOK, Lifetime
      <3>. QED BY <3>1, <3>2, <3>3
    <2>. QED BY <2>2, <2>3
  <1>. QED BY <1>4, <1>6, <1>7, <1>8 DEF KeyInv

(* The passage of time keeps the invariant: no fetch outlives FetchTimeout. *)
LEMMA TickStep ==
  ASSUME KeyInv, Tick
  PROVE  KeyInv'
  <1>1. /\ clock \in Nat /\ lastOut \in [Kids -> Nat] /\ req \in [Reqs -> Local]
        /\ UNCHANGED <<published, cache, req>> /\ clock' = clock + 1
    BY DEF KeyInv, TypeOK, Tick
  <1>2. lastOut' \in [Kids -> Nat]
    BY <1>1 DEF Tick
  <1>3. \A k \in Kids : lastOut[k] <= clock
    BY DEF KeyInv, PublishedOK
  <1>4. \A k \in Kids : lastOut[k] <= lastOut'[k]
    BY <1>1, <1>3 DEF Tick
  <1>5. PublishedOK'
    <2>1. \A k \in Kids : lastOut'[k] <= clock + 1
      BY <1>1, <1>3 DEF Tick
    <2>2. \A k \in published : k \in Kids /\ lastOut'[k] = clock + 1
      BY DEF KeyInv, TypeOK, Tick
    <2>. QED BY <1>1, <2>1, <2>2 DEF PublishedOK
  <1>6. TypeOK'
    BY <1>1, <1>2 DEF KeyInv, TypeOK
  <1>7. /\ CacheOK'
        /\ \A q \in Local :
              /\ AnswerOK(q) => AnswerOK(q)'
              /\ AcceptOK(q) => AcceptOK(q)'
              /\ HitOK(q) /\ q.pc \in {"fetch", "answer"} =>
                   (q.hit => /\ q.kid \in Kids
                             /\ q.expiresAt <= lastOut'[q.kid] + FetchTimeout + maxTTL)
    BY <1>1, <1>2, <1>4, LaterOut
  <1>8. LoginsOK'
    <2>. SUFFICES ASSUME NEW o \in Reqs
                  PROVE  HitOK(req[o])' /\ AnswerOK(req[o])' /\ AcceptOK(req[o])'
      BY DEF LoginsOK
    <2>1. /\ req[o] \in Local /\ req'[o] = req[o] /\ req[o].sent \in Nat
          /\ HitOK(req[o]) /\ AnswerOK(req[o]) /\ AcceptOK(req[o])
      BY <1>1 DEF KeyInv, LoginsOK, Local
    <2>2. HitOK(req[o])'
      <3>1. req[o].pc \in {"fetch", "answer"} =>
              /\ req[o].kid \in Kids /\ req[o].sent <= clock
              /\ clock < req[o].sent + FetchTimeout
        BY <2>1 DEF HitOK, Tick
      <3>2. req[o].pc \in {"fetch", "answer"} =>
              /\ req[o].sent <= clock + 1
              /\ clock + 1 <= req[o].sent + FetchTimeout
        BY <1>1, <2>1, <3>1, TimesAssumption
      <3>. QED BY <1>1, <1>7, <2>1, <3>1, <3>2 DEF HitOK, Usable
    <2>3. AnswerOK(req[o])'
      BY <1>7, <2>1 DEF AnswerOK
    <2>4. AcceptOK(req[o])'
      BY <1>7, <2>1 DEF AcceptOK
    <2>. QED BY <2>2, <2>3, <2>4
  <1>. QED BY <1>6, <1>7, <1>8, <1>5 DEF KeyInv

(* Every step keeps the invariant.                                         *)
LEMMA NextKeyInv == KeyInv /\ [Next]_vars => KeyInv'
  <1>. SUFFICES ASSUME KeyInv, [Next]_vars PROVE KeyInv'
    OBVIOUS
  <1>1. ASSUME NEW r \in Reqs, NEW k \in Kids \cup {None}, Call(r, k) PROVE KeyInv'
    <2>. DEFINE g == k \notin published
                v == [Idle EXCEPT !.pc = "look", !.kid = k, !.gap = g]
    <2>1. g \in BOOLEAN
      OBVIOUS
    <2>2. Become(r, v) /\ UNCHANGED <<clock, published, cache, lastOut>>
      BY <1>1 DEF Call
    <2>. HIDE DEF g
    <2>3. v \in Local /\ v.pc = "look"
      BY <2>1 DEF Idle, Local, Steps
    <2>. HIDE DEF v
    <2>4. HitOK(v) /\ AnswerOK(v) /\ AcceptOK(v)
      BY <2>3 DEF HitOK, AnswerOK, AcceptOK
    <2>. QED BY <2>2, <2>3, <2>4, LoginStep
  <1>2. ASSUME NEW r \in Reqs, key(r) PROVE KeyInv'
    BY <1>2, LookStep, ServeStep, FetchFailsStep, InstallStep DEF key
  <1>3. ASSUME NEW r \in Reqs, Done(r) PROVE KeyInv'
    <2>1. Idle.pc = "idle"
      BY DEF Idle
    <2>2. HitOK(Idle) /\ AnswerOK(Idle) /\ AcceptOK(Idle)
      BY <2>1 DEF HitOK, AnswerOK, AcceptOK
    <2>. QED BY <1>3, <2>2, ReturnType, LoginStep DEF Done
  <1>4. ASSUME NEW keys \in SUBSET Kids, Rotate(keys) PROVE KeyInv'
    BY <1>4, RotateStep
  <1>5. CASE Restart
    <2>1. \A r \in Reqs : req'[r].pc = "idle"
      BY <1>5 DEF Restart, Idle
    <2>2. LoginsOK'
      BY <2>1 DEF LoginsOK, HitOK, AnswerOK, AcceptOK
    <2>3. TypeOK'
      BY <1>5, ReturnType DEF Restart, KeyInv, TypeOK, NoKeys
    <2>4. CacheOK' /\ PublishedOK'
      BY <1>5 DEF Restart, KeyInv, CacheOK, PublishedOK, NoKeys
    <2>. QED BY <2>2, <2>3, <2>4 DEF KeyInv
  <1>6. CASE Tick
    BY <1>6, TickStep
  <1>7. CASE UNCHANGED vars
    BY <1>7 DEF vars, KeyInv, TypeOK, PublishedOK, CacheOK, LoginsOK, HitOK, AnswerOK, AcceptOK, Usable
  <1>. QED BY <1>1, <1>2, <1>3, <1>4, <1>5, <1>6, <1>7 DEF Next

(* A key Google has withdrawn authenticates nobody once FetchTimeout +     *)
(* maxTTL + maxStaleJWKS have passed since the last document that had it,  *)
(* for any number of concurrent logins, any outage and any headers (key,   *)
(* cacheTTL).                                                              *)
THEOREM WithdrawnKeysStayDead == Spec => []WithdrawnKeysDie
  <1>1. KeyInv => WithdrawnKeysDie
    BY DEF KeyInv, LoginsOK, AcceptOK, WithdrawnKeysDie
  <1>. QED BY <1>1, InitKeyInv, NextKeyInv, PTL DEF Spec

(* The variables keep their types, and with them cacheTTL's clamp holds    *)
(* for every document on its way, whatever max-age wraps around to.        *)
THEOREM KeyTypes == Spec => []TypeOK
  <1>1. KeyInv => TypeOK
    BY DEF KeyInv
  <1>. QED BY <1>1, InitKeyInv, NextKeyInv, PTL DEF Spec

-----------------------------------------------------------------------------
(* RefusalsAreJustified.                                                   *)

(* A key that is missing from Google's document, or from the document a    *)
(* login is about to install, has been missing during the login.           *)
GapOK(q) ==
    /\ q.pc # "idle" => q.kid \in published \/ q.gap
    /\ q.pc = "answer" => q.kid \in q.doc.keys \/ q.gap
    /\ q.pc = "unknown" => q.gap

GapInv == KeyInv /\ \A r \in Reqs : GapOK(req[r])

(* A step of login r keeps the account of missing keys when its new locals *)
(* do.                                                                     *)
LEMMA GapStep ==
  ASSUME GapInv, NEW r \in Reqs, NEW v \in Local, Become(r, v), published' = published, GapOK(v)
  PROVE  \A o \in Reqs : GapOK(req[o])'
  BY BecomeEffect DEF GapInv, KeyInv, GapOK

(* So it does when key() returns, provided a refusal is justified.         *)
LEMMA GapReturn ==
  ASSUME GapInv, NEW r \in Reqs, NEW result \in {"accept", "unknown", "unreachable"},
         Return(r, result), published' = published, req[r].pc # "idle",
         result = "unknown" => req[r].gap
  PROVE  \A o \in Reqs : GapOK(req[o])'
  <1>. DEFINE v == [Idle EXCEPT !.pc = result, !.kid = req[r].kid, !.at = clock, !.gap = req[r].gap]
  <1>1. req[r] \in Local /\ clock \in Nat /\ result \in Steps /\ GapOK(req[r])
    BY DEF GapInv, KeyInv, TypeOK, Steps
  <1>2. v \in Local
    BY <1>1, ReturnType
  <1>3. v.pc = result /\ v.kid = req[r].kid /\ v.gap = req[r].gap
    BY DEF Idle
  <1>4. Become(r, v)
    BY DEF Return
  <1>. HIDE DEF v
  <1>5. GapOK(v)
    BY <1>1, <1>3 DEF GapOK
  <1>. QED BY <1>2, <1>4, <1>5, GapStep

(* Every step of key() keeps the account of missing keys: the document is  *)
(* Google's of an instant during the login, so a key it lacks was missing. *)
LEMMA GapKey ==
  ASSUME GapInv, NEW r \in Reqs, key(r)
  PROVE  \A o \in Reqs : GapOK(req[o])'
  <1>0. /\ req[r] \in Local /\ GapOK(req[r]) /\ None \notin published /\ published \subseteq Kids
        /\ cache \in [keys : SUBSET Kids, expiresAt : Nat] /\ clock \in Nat
    BY KeysAssumption DEF GapInv, KeyInv, TypeOK
  <1>1. CASE Look(r)
    <2>0. req[r].pc = "look" /\ published' = published
      BY <1>1 DEF Look
    <2>1. CASE req[r].kid = None
      BY <1>0, <1>1, <2>0, <2>1, GapReturn DEF Look, GapOK
    <2>2. CASE Return(r, "accept")
      BY <2>0, <2>2, GapReturn
    <2>3. CASE Fetch(r)
      <3>. DEFINE h == req[r].kid \in cache.keys
                  v == [req[r] EXCEPT !.pc = "fetch", !.hit = h,
                                      !.expiresAt = cache.expiresAt, !.sent = clock]
      <3>1. h \in BOOLEAN /\ Become(r, v)
        BY <2>3 DEF Fetch
      <3>. HIDE DEF h
      <3>2. v \in Local /\ v.pc = "fetch" /\ v.kid = req[r].kid /\ v.gap = req[r].gap
        BY <1>0, <3>1 DEF Local, Steps
      <3>. HIDE DEF v
      <3>. QED BY <1>0, <2>0, <3>1, <3>2, GapStep DEF GapOK
    <2>. QED BY <1>1, <2>1, <2>2, <2>3 DEF Look
  <1>2. ASSUME NEW age \in MaxAges \cup {None}, Serve(r, age)
        PROVE  \A o \in Reqs : GapOK(req[o])'
    <2>. DEFINE d == [keys |-> published, ttl |-> cacheTTL(age)]
                v == [req[r] EXCEPT !.pc = "answer", !.doc = d]
    <2>1. d \in Document /\ d.keys = published
      BY <1>0, TTLClamped DEF Document
    <2>2. Become(r, v) /\ req[r].pc = "fetch" /\ published' = published
      BY <1>2 DEF Serve
    <2>. HIDE DEF d
    <2>3. v \in Local /\ v.pc = "answer" /\ v.kid = req[r].kid /\ v.gap = req[r].gap /\ v.doc = d
      BY <1>0, <2>1 DEF Local, Steps
    <2>. HIDE DEF v
    <2>. QED BY <1>0, <2>1, <2>2, <2>3, GapStep DEF GapOK
  <1>3. CASE FetchFails(r)
    <2>1. PICK result \in {"accept", "unreachable"} : Return(r, result)
      BY <1>3 DEF FetchFails
    <2>. QED BY <1>3, <2>1, GapReturn DEF FetchFails
  <1>4. CASE Install(r)
    <2>1. PICK result \in {"accept", "unknown"} :
            Return(r, result) /\ (result = "unknown" => req[r].kid \notin req[r].doc.keys)
      BY <1>4 DEF Install
    <2>. QED BY <1>0, <1>4, <2>1, GapReturn DEF Install, GapOK
  <1>. QED BY <1>1, <1>2, <1>3, <1>4 DEF key

(* Every step keeps the account of missing keys.                           *)
LEMMA NextGapInv == GapInv /\ [Next]_vars => GapInv'
  <1>. SUFFICES ASSUME GapInv, [Next]_vars PROVE GapInv'
    OBVIOUS
  <1>0. KeyInv /\ KeyInv' /\ Idle.pc = "idle" /\ req \in [Reqs -> Local]
    BY NextKeyInv DEF GapInv, Idle, KeyInv, TypeOK
  <1>1. ASSUME NEW r \in Reqs, NEW k \in Kids \cup {None}, Call(r, k)
        PROVE  \A o \in Reqs : GapOK(req[o])'
    <2>. DEFINE g == k \notin published
                v == [Idle EXCEPT !.pc = "look", !.kid = k, !.gap = g]
    <2>1. g \in BOOLEAN /\ (k \in published \/ g)
      OBVIOUS
    <2>2. Become(r, v) /\ published' = published
      BY <1>1 DEF Call
    <2>. HIDE DEF g
    <2>3. v \in Local /\ v.pc = "look" /\ v.kid = k /\ v.gap = g
      BY <2>1 DEF Idle, Local, Steps
    <2>. HIDE DEF v
    <2>. QED BY <2>1, <2>2, <2>3, GapStep DEF GapOK
  <1>2. ASSUME NEW r \in Reqs, Done(r)
        PROVE  \A o \in Reqs : GapOK(req[o])'
    <2>1. GapOK(Idle)
      BY <1>0 DEF GapOK
    <2>. QED BY <1>2, <2>1, ReturnType, GapStep DEF Done
  <1>3. ASSUME NEW keys \in SUBSET Kids, Rotate(keys), NEW o \in Reqs
        PROVE  GapOK(req[o])'
    <2>1. CASE req[o].pc = "idle"
      BY <1>0, <1>3, <2>1 DEF Rotate, GapOK
    <2>2. CASE req[o].pc # "idle"
      <3>. DEFINE g == req[o].gap \/ req[o].kid \notin keys
      <3>1. g \in BOOLEAN /\ (req[o].kid \in keys \/ g) /\ (req[o].gap => g)
        BY <1>0 DEF Local
      <3>2. req'[o] = [req[o] EXCEPT !.gap = g] /\ published' = keys
        BY <1>3, <2>2 DEF Rotate
      <3>. HIDE DEF g
      <3>3. /\ req'[o].pc = req[o].pc /\ req'[o].kid = req[o].kid
            /\ req'[o].doc = req[o].doc /\ req'[o].gap = g
        BY <1>0, <3>1, <3>2 DEF Local
      <3>. QED BY <3>1, <3>2, <3>3 DEF GapInv, GapOK
    <2>. QED BY <2>1, <2>2
  <1>4. CASE Restart
    <2>1. \A r \in Reqs : req'[r].pc = "idle"
      BY <1>4 DEF Restart, Idle
    <2>. QED BY <1>0, <2>1 DEF GapInv, GapOK
  <1>5. CASE Tick \/ UNCHANGED vars
    <2>1. req' = req /\ published' = published
      BY <1>5 DEF Tick, vars
    <2>. QED BY <1>0, <2>1 DEF GapInv, GapOK
  <1>. QED BY <1>0, <1>1, <1>2, <1>3, <1>4, <1>5, GapKey DEF Next, GapInv

(* No login is told that its key is unknown unless Google's document       *)
(* lacked it at some time during that login: late installations of older   *)
(* documents by other logins, outages and restarts never make key() refuse *)
(* a published key.                                                        *)
THEOREM PublishedKeysAreKnown == Spec => []RefusalsAreJustified
  <1>1. Init => GapInv
    <2>. SUFFICES ASSUME Init PROVE GapInv
      OBVIOUS
    <2>1. \A r \in Reqs : req[r].pc = "idle"
      BY DEF Init, Idle
    <2>. QED BY <2>1, InitKeyInv DEF GapInv, GapOK
  <1>2. GapInv => RefusalsAreJustified
    BY DEF GapInv, GapOK, RefusalsAreJustified
  <1>. QED BY <1>1, <1>2, NextGapInv, PTL DEF Spec
=============================================================================
