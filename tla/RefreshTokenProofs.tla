------------------------- MODULE RefreshTokenProofs -------------------------
(***************************************************************************)
(* What the refresh grant guarantees about single tokens and families, for *)
(* every number of nodes, requests, tokens, families, clients and users,   *)
(* every setting of the lifetimes, and both ways of revoking: NoFork,      *)
(* SingleLiveToken, SpentByOwner, AbsoluteCap, FamilylessFailsClosed,      *)
(* GraceIsNarrow and GraceBounded.                                         *)
(***************************************************************************)
EXTENDS RefreshGrantProofs, FiniteSetTheorems

(* A rotation: its token has been stamped and is not answered yet.         *)
Replacing == {"mint", "save", "reread", "remember", "undo"}

(* No clock reads Go's zero time, and no request is from the future.       *)
TimeOK ==
    /\ clock > 0
    /\ \A r \in Reqs : req[r].pc # "idle" /\ req[r].tok # None =>
         req[r].now > 0 /\ req[r].now <= Now(req[r].node)

(* A successor under way is its request's own, and nobody has it yet.      *)
DrawnOK ==
    \A r \in Reqs : req[r].pc \in Issuing =>
      /\ req[r].succ \notin issued
      /\ lineage[req[r].succ].parent = req[r].tok
      /\ \A o \in Reqs : req[o].pc \in Issuing /\ req[o].succ = req[r].succ => o = r

(* The table's stamps are the history's, and a token has no successor, and *)
(* none under way, before it is spent.                                     *)
SpentOK ==
    /\ \A t \in Tokens : spentAt[t] # 0 => t \in issued
    /\ \A t \in Tokens : rows[t] # None => rows[t].consumed = spentAt[t]
    /\ \A s \in minted : lineage[s].parent # None => spentAt[lineage[s].parent] # 0
    /\ \A r \in Reqs : req[r].pc \in Replacing /\ req[r].tok # None => spentAt[req[r].tok] # 0

(* A rotation that has not drawn its successor is its token's only one.    *)
MintOK ==
    \A r \in Reqs : req[r].pc = "mint" /\ req[r].tok # None =>
      /\ \A s \in minted : lineage[s].parent # req[r].tok
      /\ \A o \in Reqs : req[o].pc = "mint" /\ req[o].tok = req[r].tok => o = r

ForkInv == TypeInv /\ TimeOK /\ DrawnOK /\ SpentOK /\ MintOK /\ NoFork

(* A token about to be consumed is its client's: the pre-check's verdict   *)
(* cannot go stale, for no row a client can name ever comes back.          *)
OwnerOK ==
    \A r \in Reqs : req[r].pc = "consume" /\ rows[req[r].tok] # None =>
      rows[req[r].tok].client = req[r].client

(* What the grace caches remember, and whom they answer.                   *)
GraceOK ==
    /\ \A n \in Nodes, t \in Tokens : grace[n][t].succ # None =>
         grace[n][t].succ \in issued /\ lineage[grace[n][t].succ].parent = t
    /\ \A r \in Reqs : req[r].pc \in {"recall", "peek"} =>
         spentAt[req[r].tok] # 0 /\ req[r].now <= spentAt[req[r].tok] + GracePeriod
    /\ \A r \in Reqs : req[r].pc = "peek" =>
         req[r].succ \in issued /\ lineage[req[r].succ].parent = req[r].tok

(* A family in use was founded by a login.                                 *)
FoundedOK ==
    /\ \A t \in Tokens : rows[t] # None /\ rows[t].family \in Families => rows[t].family \in founded
    /\ \A t \in minted : lineage[t].family \in Families => lineage[t].family \in founded
    /\ \A r \in Reqs : req[r].family \in Families => req[r].family \in founded
    /\ \A f \in founded : origin[f].at > 0

(* When a family began: at its login, or at the oldest instant that a row  *)
(* of older code can carry.                                                *)
Begin(f) == IF f \in Families THEN origin[f].at ELSE 1

(* The beginning of a family travels unchanged from row to row.            *)
BeginOK ==
    /\ \A t \in Tokens : rows[t] # None /\ rows[t].family # None =>
         /\ rows[t].familyCreated = Begin(rows[t].family)
         /\ rows[t].familyExpires = Begin(rows[t].family) + AbsoluteTTL
         /\ rows[t].expires <= Begin(rows[t].family) + AbsoluteTTL
    /\ \A t \in Tokens : rows[t] # None /\ rows[t].family = None => familyStart(rows[t]) <= 1
    /\ \A r \in Reqs : req[r].pc \in Rotating => req[r].start = Begin(req[r].family)
    /\ \A r \in Reqs : req[r].pc \in Replacing /\ req[r].tok # None =>
         req[r].now < Begin(req[r].family) + AbsoluteTTL

CapInv == ForkInv /\ OwnerOK /\ GraceOK /\ FoundedOK /\ BeginOK

Live(t, f) == rows[t] # None /\ rows[t].family = f /\ rows[t].consumed = 0
Holds(r, f) == req[r].pc \in Rotating /\ req[r].family = f

(* At most one token or rotation in flight stands for a family.            *)
OneHead ==
    \A f \in FamilyIDs :
      /\ \A t, s \in Tokens : Live(t, f) /\ Live(s, f) => t = s
      /\ \A t \in Tokens, r \in Reqs : ~(Live(t, f) /\ Holds(r, f))
      /\ \A r, o \in Reqs : Holds(r, f) /\ Holds(o, f) => r = o

(* Until a familyless token is used, its derived family is empty.          *)
LegacyUnused ==
    \A t \in LegacyTokens : rows[t] # None /\ rows[t].family = None /\ rows[t].consumed = 0 =>
      /\ \A s \in Tokens : rows[s] # None => rows[s].family # legacyFamilyID(t)
      /\ \A r \in Reqs : ~Holds(r, legacyFamilyID(t))

HeadInv == CapInv /\ OneHead /\ LegacyUnused

-----------------------------------------------------------------------------
(* The shapes of a step: every action of a request, with the fields of the *)
(* locals it leaves behind spelled out.                                    *)

Moves(r, v) == req'[r] = v /\ \A o \in Reqs : o # r => req'[o] = req[o]

Asks(q, v) == v.node = q.node /\ v.tok = q.tok /\ v.client = q.client /\ v.now = q.now

Carries(q, v) ==
    /\ Asks(q, v) /\ v.family = q.family /\ v.user = q.user
    /\ v.start = q.start /\ v.at = q.at

GraceFades == \A n \in Nodes, t \in Tokens : grace'[n][t] \in {grace[n][t], NoEntry}

Deleted(T) == \A t \in Tokens : rows'[t] = IF t \in T THEN None ELSE rows[t]

(* An answer that changes nothing shared but the grace cache.              *)
AnswerShape(v) ==
    /\ v = Idle /\ GraceFades
    /\ UNCHANGED <<clock, rows, minted, founded, history>>

(* A step that only reads.                                                 *)
ReadShape(r, v) ==
    LET q == req[r] IN
    /\ Carries(q, v)
    /\ UNCHANGED <<clock, rows, grace, minted, founded, history>>
    /\ \/ /\ q.pc = "bind" /\ v.pc = "consume"
          /\ rows[q.tok] # None => rows[q.tok].client = q.client
       \/ /\ q.pc = "recall" /\ v.pc = "peek"
          /\ v.succ = grace[q.node][q.tok].succ /\ v.succ # None
       \/ /\ q.pc = "peek" /\ v.pc = "revoke"
          /\ ~StillUnused(rows[q.succ], q.now) \/ "get" \in Faults
       \/ /\ q.pc = "reread" /\ v.succ = q.succ
          /\ v.pc = IF rows[q.tok] # None THEN "remember" ELSE "undo"
       \/ /\ q.pc \in {"revoke", "undo"} /\ v.pc = "deleting" /\ ~AtomicRevoke
          /\ v.victims = FamilyRows(q.family)

(* The stamp of ConsumeRefreshToken.                                       *)
StampShape(t, now) ==
    /\ \A s \in Tokens : s # t => rows'[s] = rows[s] /\ spentAt'[s] = spentAt[s]
    /\ \/ /\ rows[t] # None /\ rows[t].consumed = 0
          /\ rows'[t] = [rows[t] EXCEPT !.consumed = now] /\ spentAt'[t] = now
       \/ /\ rows[t] = None \/ rows[t].consumed # 0
          /\ rows'[t] = rows[t] /\ spentAt'[t] = spentAt[t]

(* The verdict on the row as it was, and the locals it leaves.             *)
JudgeShape(q, v) ==
    LET row == rows[q.tok] IN
    \/ v = Idle
    \/ /\ row # None /\ Asks(q, v)
       /\ v.family = familyToRevoke(row, q.tok) /\ v.family \in FamilyIDs
       /\ \/ row.consumed # 0 /\ v.pc = "recall" /\ GraceWindowOpen(row, q.client, q.now)
          \/ row.consumed # 0 /\ v.pc = "revoke" /\ ~GraceWindowOpen(row, q.client, q.now)
          \/ row.consumed = 0 /\ v.pc = "revoke" /\ PastAbsoluteTTL(row, q.now)
          \/ /\ row.consumed = 0 /\ v.pc = "mint" /\ ~PastAbsoluteTTL(row, q.now)
             /\ q.now < row.expires /\ row.client = q.client
             /\ v.user = row.user /\ v.start = familyStart(row)

ConsumeShape(r, v) ==
    /\ req[r].pc = "consume" /\ req[r].tok \in Tokens
    /\ StampShape(req[r].tok, req[r].now)
    /\ JudgeShape(req[r], v)
    /\ UNCHANGED <<clock, grace, minted, founded, issued, revoked, lineage, origin>>

MintShape(r, v) ==
    LET q == req[r] IN
    /\ q.pc = "mint" /\ v.pc = "save"
    /\ Asks(q, v) /\ v.family = q.family /\ v.user = q.user /\ v.start = q.start
    /\ v.succ \in Tokens \ minted /\ minted' = minted \cup {v.succ}
    /\ lineage'[v.succ].parent = q.tok /\ lineage'[v.succ].family = q.family
    /\ \A t \in Tokens : t # v.succ => lineage'[t] = lineage[t]
    /\ UNCHANGED <<clock, rows, grace, founded, issued, revoked, spentAt, origin>>

SaveShape(r, v) ==
    LET q == req[r] IN
    /\ q.pc = "save" /\ q.succ \in minted
    /\ rows'[q.succ] = TokenRow(q, q.at) /\ rows'[q.succ] \in Row
    /\ \A t \in Tokens : t # q.succ => rows'[t] = rows[t]
    /\ \/ q.tok = None /\ v = Idle /\ issued' = issued \cup {q.succ}
       \/ /\ q.tok # None /\ v.pc = "reread" /\ Carries(q, v) /\ v.succ = q.succ
          /\ issued' = issued
       \/ v = Idle /\ issued' = issued
    /\ UNCHANGED <<clock, grace, minted, founded, revoked, lineage, spentAt, origin>>

RememberShape(r, v) ==
    LET q == req[r] IN
    /\ q.pc = "remember" /\ v = Idle /\ issued' = issued \cup {q.succ}
    /\ \A n \in Nodes, t \in Tokens :
         \/ grace'[n][t] \in {grace[n][t], NoEntry}
         \/ t = q.tok /\ grace'[n][t].succ = q.succ
    /\ UNCHANGED <<clock, rows, minted, founded, revoked, lineage, spentAt, origin>>

RevokeShape(r, v) ==
    LET q == req[r] IN
    /\ v = Idle
    /\ \/ /\ q.pc \in {"revoke", "undo"} /\ AtomicRevoke /\ Deleted(FamilyRows(q.family))
          /\ revoked' = revoked \cup {q.family}
       \/ /\ q.pc = "deleting" /\ ~AtomicRevoke /\ Deleted(q.victims)
          /\ revoked' = revoked \cup {q.family}
       \/ /\ q.pc = "logout" /\ ~AtomicRevoke /\ Deleted(q.victims)
          /\ revoked' = revoked \cup {f \in FamilyIDs : \E t \in q.victims : lineage[t].family = f}
    /\ UNCHANGED <<clock, grace, minted, founded, issued, lineage, spentAt, origin>>

HandleShape(r, v) ==
    \/ AnswerShape(v) \/ ReadShape(r, v) \/ ConsumeShape(r, v) \/ MintShape(r, v)
    \/ SaveShape(r, v) \/ RememberShape(r, v) \/ RevokeShape(r, v)

(* The arrival of a request, or of a logout.                               *)
LoginShape(r, v) ==
    /\ req[r].pc = "idle" /\ v.pc = "mint" /\ v.tok = None
    /\ v.family \in Families \ founded /\ founded' = founded \cup {v.family}
    /\ v.user \in Users /\ v.start > 0
    /\ origin'[v.family].at = v.start /\ origin'[v.family].user = v.user
    /\ \A f \in Families : f # v.family => origin'[f] = origin[f]
    /\ UNCHANGED <<clock, rows, grace, minted, issued, revoked, lineage, spentAt>>

PresentShape(r, v) ==
    /\ req[r].pc = "idle" /\ v.family = None
    /\ \/ v.pc = "bind" /\ v.tok \in issued /\ v.node \in Nodes /\ v.now = Now(v.node)
       \/ v.pc = "logout" /\ v.tok = None
    /\ UNCHANGED <<clock, rows, grace, minted, founded, history>>

(* The steps of the environment.                                           *)
PurgeShape ==
    \E n \in Nodes :
      /\ Deleted({t \in Tokens : /\ rows[t] # None /\ rows[t].expires < Now(n)
                                 /\ rows[t].familyExpires < Now(n)})
      /\ UNCHANGED <<clock, grace, req, minted, founded, history>>

RevokeUserShape ==
    \E u \in Users :
      LET Theirs == {t \in Tokens : rows[t] # None /\ rows[t].user = u} IN
      /\ Deleted(Theirs)
      /\ revoked' = revoked \cup {familyToRevoke(rows[t], t) : t \in Theirs}
      /\ UNCHANGED <<clock, grace, req, minted, founded, issued, lineage, spentAt, origin>>

CrashShape ==
    /\ GraceFades
    /\ \A r \in Reqs : req'[r] \in {req[r], Idle}
    /\ UNCHANGED <<clock, rows, minted, founded, history>>

TickShape ==
    /\ clock' \in {clock, clock + 1}
    /\ UNCHANGED <<rows, grace, req, minted, founded, history>>

StepShape ==
    \/ \E r \in Reqs, v \in LocalState :
         Moves(r, v) /\ (HandleShape(r, v) \/ LoginShape(r, v) \/ PresentShape(r, v))
    \/ PurgeShape \/ RevokeUserShape \/ CrashShape \/ TickShape

(* Judge has the shape that JudgeShape says.                               *)
LEMMA JudgeHasShape ==
  ASSUME TypeInv, NEW r \in Reqs, req[r].pc = "consume",
         NEW v, v = Judge(req[r], rows[req[r].tok])
  PROVE  v \in LocalState /\ req[r].tok \in Tokens /\ JudgeShape(req[r], v)
  <1>0. /\ req[r] \in LocalState /\ req[r].tok \in Tokens /\ Idle \in LocalState
        /\ v \in LocalState
    BY IdleType, JudgeCases, JudgeEffect DEF TypeInv, TypeOK
  <1>1. CASE rows[req[r].tok] = None
    BY <1>0, <1>1 DEF Judge, JudgeShape
  <1>2. CASE rows[req[r].tok] # None
    <2>1. PICK f \in FamilyIDs : f = familyToRevoke(rows[req[r].tok], req[r].tok)
      BY <1>0, <1>2, FamilyType DEF TypeInv
    <2>2. PICK row \in Row : row = rows[req[r].tok]
      BY <1>0, <1>2 DEF TypeInv, TypeOK
    <2>3. PICK u \in Users, w \in Nat : u = row.user /\ w = familyStart(row)
      BY <2>2 DEF Row, familyStart
    <2>4. row.consumed \in Nat /\ row.expires \in Nat /\ req[r].now \in Nat
      BY <1>0, <2>2 DEF Row, LocalState
    <2>5. ASSUME NEW pc \in {"recall", "revoke"}, v = [req[r] EXCEPT !.pc = pc, !.family = f]
          PROVE  v.pc = pc /\ v.family = f /\ Asks(req[r], v)
      BY <1>0, <2>5 DEF LocalState, Asks
    <2>6. ASSUME v = [req[r] EXCEPT !.pc = "mint", !.user = u, !.start = w, !.family = f]
          PROVE  v.pc = "mint" /\ v.family = f /\ Asks(req[r], v) /\ v.user = u /\ v.start = w
      BY <1>0, <2>6 DEF LocalState, Asks
    <2>7. CASE row.consumed # 0
      <3>1. CASE GraceWindowOpen(row, req[r].client, req[r].now)
        <4>1. v = [req[r] EXCEPT !.pc = "recall", !.family = f]
          BY <1>2, <2>1, <2>2, <2>7, <3>1 DEF Judge
        <4>. QED BY <1>0, <1>2, <2>1, <2>2, <2>5, <2>7, <3>1, <4>1 DEF JudgeShape
      <3>2. CASE ~GraceWindowOpen(row, req[r].client, req[r].now)
        <4>1. v = [req[r] EXCEPT !.pc = "revoke", !.family = f]
          BY <1>2, <2>1, <2>2, <2>7, <3>2 DEF Judge
        <4>. QED BY <1>0, <1>2, <2>1, <2>2, <2>5, <2>7, <3>2, <4>1 DEF JudgeShape
      <3>. QED BY <3>1, <3>2
    <2>8. CASE row.consumed = 0
      <3>1. CASE PastAbsoluteTTL(row, req[r].now) /\ ~(req[r].now >= row.expires)
        <4>1. v = [req[r] EXCEPT !.pc = "revoke", !.family = f]
          BY <1>2, <2>1, <2>2, <2>8, <3>1 DEF Judge
        <4>. QED BY <1>0, <1>2, <2>1, <2>2, <2>5, <2>8, <3>1, <4>1 DEF JudgeShape
      <3>2. CASE ~PastAbsoluteTTL(row, req[r].now) /\ ~(req[r].now >= row.expires) /\ row.client = req[r].client
        <4>1. v = [req[r] EXCEPT !.pc = "mint", !.user = u, !.start = w, !.family = f]
          BY <1>2, <2>1, <2>2, <2>3, <2>8, <3>2 DEF Judge
        <4>2. req[r].now < row.expires
          BY <2>4, <3>2
        <4>. QED BY <1>0, <1>2, <2>1, <2>2, <2>3, <2>6, <2>8, <3>2, <4>1, <4>2 DEF JudgeShape
      <3>3. CASE \/ req[r].now >= row.expires
                 \/ ~PastAbsoluteTTL(row, req[r].now) /\ row.client # req[r].client
        <4>1. v = Idle
          BY <1>2, <2>1, <2>2, <2>8, <3>3 DEF Judge
        <4>. QED BY <1>0, <4>1 DEF JudgeShape
      <3>. QED BY <3>1, <3>2, <3>3
    <2>. QED BY <2>4, <2>7, <2>8
  <1>. QED BY <1>1, <1>2

(* ConsumeRefreshToken's stamp touches one row.                            *)
LEMMA StampHasShape ==
  ASSUME TypeInv, NEW t \in Tokens, NEW now \in Nat, Stamp(t, now)
  PROVE  StampShape(t, now)
  <1>1. CASE rows[t] # None /\ rows[t].consumed = 0
    BY <1>1 DEF Stamp, StampShape, TypeInv, TypeOK
  <1>2. CASE ~(rows[t] # None /\ rows[t].consumed = 0)
    BY <1>2 DEF Stamp, StampShape
  <1>. QED BY <1>1, <1>2

(* issueTokenPair's write touches one row, and that row is well formed.    *)
LEMMA SaveHasShape ==
  ASSUME TypeInv, NEW r \in Reqs, req[r].pc = "save",
         rows' = [rows EXCEPT ![req[r].succ] = TokenRow(req[r], req[r].at)]
  PROVE  /\ req[r].succ \in minted
         /\ rows'[req[r].succ] = TokenRow(req[r], req[r].at) /\ rows'[req[r].succ] \in Row
         /\ \A t \in Tokens : t # req[r].succ => rows'[t] = rows[t]
  <1>1. /\ req[r] \in LocalState /\ req[r].succ \in minted /\ req[r].succ \in Tokens
        /\ req[r].client \in Clients /\ req[r].user \in Users /\ req[r].family \in FamilyIDs
        /\ req[r].at \in Nat
    BY DEF TypeInv, TypeOK, LocalsOK, LocalOK, Issuing, Rotating, LocalState
  <1>2. TokenRow(req[r], req[r].at) \in Row
    BY <1>1, TokenRowType
  <1>. QED BY <1>1, <1>2 DEF TypeInv, TypeOK

(* Every step of a request has one of the shapes.                          *)
LEMMA HandleHasShape ==
  ASSUME TypeInv, NEW r \in Reqs, Handle(r) \/ StoreFault(r)
  PROVE  \E v \in LocalState : Moves(r, v) /\ HandleShape(r, v)
  <1>0. /\ req[r] \in LocalState /\ LocalOK(req[r]) /\ Idle \in LocalState
        /\ grace \in [Nodes -> [Tokens -> [succ : Tokens \cup {None}, until : Nat]]]
    BY IdleType DEF TypeInv, TypeOK, LocalsOK
  <1>m. ASSUME NEW v \in LocalState, Become(r, v)
        PROVE  Moves(r, v)
    BY <1>m, BecomeEffect DEF TypeInv, Moves
  <1>a. ASSUME Answer(r), AnswerShape(Idle)
        PROVE  \E v \in LocalState : Moves(r, v) /\ HandleShape(r, v)
    BY <1>0, <1>a, <1>m DEF Answer, HandleShape
  <1>g. ASSUME NEW pc \in Steps, Goto(r, pc), NEW v, v = [req[r] EXCEPT !.pc = pc]
        PROVE  /\ v \in LocalState /\ Moves(r, v) /\ Carries(req[r], v) /\ v.pc = pc
               /\ v.succ = req[r].succ
    <2>1. v \in LocalState
      BY <1>0, <1>g DEF LocalState
    <2>2. Moves(r, v)
      BY <1>g, <1>m, <2>1 DEF Goto
    <2>. QED BY <1>0, <1>g, <2>1, <2>2 DEF Carries, Asks, LocalState
  <1>q. ASSUME grace' = grace
        PROVE  GraceFades
    BY <1>q DEF GraceFades
  <1>1. CASE Bind(r)
    <2>1. CASE Answer(r)
      BY <1>1, <1>a, <1>q, <2>1 DEF Bind, AnswerShape
    <2>2. CASE Goto(r, "consume") /\ (rows[req[r].tok] = None \/ rows[req[r].tok].client = req[r].client)
      <3>1. PICK v : v = [req[r] EXCEPT !.pc = "consume"]
        OBVIOUS
      <3>2. /\ v \in LocalState /\ Moves(r, v) /\ Carries(req[r], v) /\ v.pc = "consume"
        BY <1>g, <2>2, <3>1 DEF Steps
      <3>. QED BY <1>1, <2>2, <3>2 DEF Bind, ReadShape, HandleShape
    <2>. QED BY <1>1, <2>1, <2>2 DEF Bind
  <1>2. CASE Consume(r)
    <2>1. PICK v : v = Judge(req[r], rows[req[r].tok])
      OBVIOUS
    <2>2. v \in LocalState /\ req[r].tok \in Tokens /\ JudgeShape(req[r], v)
      BY <1>2, <2>1, JudgeHasShape DEF Consume
    <2>3. StampShape(req[r].tok, req[r].now)
      BY <1>0, <1>2, <2>2, StampHasShape DEF Consume, LocalState
    <2>. QED BY <1>2, <1>m, <2>1, <2>2, <2>3 DEF Consume, ConsumeShape, HandleShape
  <1>3. CASE Recall(r)
    <2>0. req[r].node \in Nodes /\ req[r].tok \in Tokens
      BY <1>0, <1>3 DEF Recall, LocalOK, TypeInv, TypeOK
    <2>1. CASE Answer(r) /\ grace' = grace
      BY <1>3, <1>a, <1>q, <2>1 DEF Recall, AnswerShape
    <2>2. CASE Answer(r) /\ grace' = [grace EXCEPT ![req[r].node][req[r].tok] = NoEntry]
      <3>1. GraceFades
        BY <1>0, <2>0, <2>2 DEF GraceFades
      <3>. QED BY <1>3, <1>a, <2>2, <3>1 DEF Recall, AnswerShape
    <2>3. CASE /\ grace' = grace /\ grace[req[r].node][req[r].tok].succ # None
               /\ Become(r, [req[r] EXCEPT !.pc = "peek",
                                           !.succ = grace[req[r].node][req[r].tok].succ])
      <3>1. PICK s \in Tokens \cup {None} : s = grace[req[r].node][req[r].tok].succ
        BY <1>0, <2>0
      <3>2. PICK v \in LocalState : v = [req[r] EXCEPT !.pc = "peek", !.succ = s]
        BY <1>0 DEF LocalState, Steps
      <3>3. v.pc = "peek" /\ v.succ = s /\ Carries(req[r], v)
        BY <1>0, <3>2 DEF LocalState, Carries, Asks
      <3>4. Moves(r, v)
        BY <1>m, <2>3, <3>1, <3>2
      <3>. QED BY <1>3, <2>3, <3>1, <3>3, <3>4 DEF Recall, ReadShape, HandleShape
    <2>. QED BY <1>3, <2>1, <2>2, <2>3 DEF Recall
  <1>p. ASSUME Goto(r, "revoke"), req[r].pc = "peek",
               ~StillUnused(rows[req[r].succ], req[r].now) \/ "get" \in Faults,
               UNCHANGED <<clock, rows, grace, minted, founded, history>>
        PROVE  \E v \in LocalState : Moves(r, v) /\ HandleShape(r, v)
    <2>1. PICK v : v = [req[r] EXCEPT !.pc = "revoke"]
      OBVIOUS
    <2>2. v \in LocalState /\ Moves(r, v) /\ Carries(req[r], v) /\ v.pc = "revoke"
      BY <1>g, <1>p, <2>1 DEF Steps
    <2>. QED BY <1>p, <2>2 DEF ReadShape, HandleShape
  <1>4. CASE Peek(r)
    <2>1. CASE Answer(r)
      BY <1>4, <1>a, <1>q, <2>1 DEF Peek, AnswerShape
    <2>2. CASE Goto(r, "revoke") /\ ~StillUnused(rows[req[r].succ], req[r].now)
      BY <1>4, <1>p, <2>2 DEF Peek
    <2>. QED BY <1>4, <2>1, <2>2 DEF Peek
  <1>5. CASE PeekFails(r)
    BY <1>5, <1>p DEF PeekFails
  <1>6. CASE Mint(r)
    <2>1. CASE Answer(r) /\ UNCHANGED <<minted, lineage>>
      BY <1>6, <1>a, <1>q, <2>1 DEF Mint, AnswerShape, history
    <2>2. ASSUME NEW s \in Tokens \ minted,
                 minted' = minted \cup {s},
                 lineage' = [lineage EXCEPT ![s] = [parent |-> req[r].tok, family |-> req[r].family]],
                 Become(r, [req[r] EXCEPT !.pc = "save", !.succ = s, !.at = Now(req[r].node)])
          PROVE  \E v \in LocalState : Moves(r, v) /\ HandleShape(r, v)
      <3>1. PICK w \in Nat : w = Now(req[r].node)
        BY <1>0, <1>6, NowType DEF TypeInv, Mint, LocalOK
      <3>2. PICK v \in LocalState : v = [req[r] EXCEPT !.pc = "save", !.succ = s, !.at = w]
        BY <1>0, <2>2 DEF LocalState, Steps
      <3>3. /\ v.pc = "save" /\ v.succ = s /\ Asks(req[r], v) /\ v.family = req[r].family
            /\ v.user = req[r].user /\ v.start = req[r].start
        BY <1>0, <3>2 DEF LocalState, Asks
      <3>4. /\ lineage'[s].parent = req[r].tok /\ lineage'[s].family = req[r].family
            /\ \A t \in Tokens : t # s => lineage'[t] = lineage[t]
        BY <2>2 DEF TypeInv, TypeOK
      <3>5. Moves(r, v)
        BY <1>m, <2>2, <3>1, <3>2
      <3>6. MintShape(r, v)
        BY <1>6, <2>2, <3>3, <3>4 DEF Mint, MintShape
      <3>. QED BY <3>5, <3>6 DEF HandleShape
    <2>. QED BY <1>6, <2>1, <2>2 DEF Mint
  <1>7. CASE Save(r)
    <2>0. /\ req[r].pc = "save" /\ req[r].succ \in minted
          /\ rows'[req[r].succ] = TokenRow(req[r], req[r].at) /\ rows'[req[r].succ] \in Row
          /\ \A t \in Tokens : t # req[r].succ => rows'[t] = rows[t]
      BY <1>7, SaveHasShape DEF Save
    <2>1. CASE req[r].tok = None /\ Answer(r) /\ issued' = issued \cup {req[r].succ}
      <3>1. SaveShape(r, Idle)
        BY <1>7, <2>0, <2>1 DEF Save, SaveShape
      <3>. QED BY <1>0, <1>m, <2>1, <3>1 DEF Answer, HandleShape
    <2>2. CASE req[r].tok # None /\ Goto(r, "reread") /\ issued' = issued
      <3>1. PICK v : v = [req[r] EXCEPT !.pc = "reread"]
        OBVIOUS
      <3>2. /\ v \in LocalState /\ Moves(r, v) /\ Carries(req[r], v) /\ v.pc = "reread"
            /\ v.succ = req[r].succ
        BY <1>g, <2>2, <3>1 DEF Steps
      <3>3. SaveShape(r, v)
        BY <1>7, <2>0, <2>2, <3>2 DEF Save, SaveShape
      <3>. QED BY <3>2, <3>3 DEF HandleShape
    <2>. QED BY <1>7, <2>1, <2>2 DEF Save
  <1>8. CASE Reread(r)
    <2>1. PICK pc \in {"remember", "undo"} :
            pc = IF rows[req[r].tok] # None THEN "remember" ELSE "undo"
      OBVIOUS
    <2>2. PICK v : v = [req[r] EXCEPT !.pc = pc]
      OBVIOUS
    <2>3. /\ v \in LocalState /\ Moves(r, v) /\ Carries(req[r], v) /\ v.pc = pc
          /\ v.succ = req[r].succ
      BY <1>8, <1>g, <2>1, <2>2 DEF Steps, Reread
    <2>. QED BY <1>8, <2>1, <2>3 DEF Reread, ReadShape, HandleShape
  <1>9. CASE Remember(r)
    <2>0. req[r].node \in Nodes /\ req[r].tok \in Tokens
      BY <1>0, <1>9 DEF Remember, LocalOK, TypeInv, TypeOK
    <2>1. \A n \in Nodes, t \in Tokens :
            \/ grace'[n][t] \in {grace[n][t], NoEntry}
            \/ t = req[r].tok /\ grace'[n][t].succ = req[r].succ
      <3>1. CASE grace' = grace
        BY <3>1
      <3>2. ASSUME NEW K, grace' = [grace EXCEPT ![req[r].node] =
                 [t \in Tokens |-> IF t = req[r].tok
                                   THEN [succ |-> req[r].succ, until |-> req[r].at + GracePeriod]
                                   ELSE IF t \in K THEN grace[req[r].node][t] ELSE NoEntry]],
                   NEW n \in Nodes, NEW t \in Tokens
            PROVE  \/ grace'[n][t] \in {grace[n][t], NoEntry}
                   \/ t = req[r].tok /\ grace'[n][t].succ = req[r].succ
        BY <1>0, <2>0, <3>2
      <3>. QED BY <1>9, <3>1, <3>2 DEF Remember
    <2>2. RememberShape(r, Idle)
      BY <1>9, <2>1 DEF Remember, RememberShape
    <2>. QED BY <1>0, <1>9, <1>m, <2>2 DEF Remember, Answer, HandleShape
  <1>10. CASE Revoke(r)
    <2>1. RevokeShape(r, Idle)
      BY <1>10 DEF Revoke, RevokeShape, Deleted, Without
    <2>. QED BY <1>0, <1>10, <1>m, <2>1 DEF Revoke, Answer, HandleShape
  <1>11. CASE RevokeScan(r)
    <2>1. PICK V \in SUBSET Tokens : V = FamilyRows(req[r].family)
      BY DEF FamilyRows
    <2>2. PICK v \in LocalState : v = [req[r] EXCEPT !.pc = "deleting", !.victims = V]
      BY <1>0 DEF LocalState, Steps
    <2>3. v.pc = "deleting" /\ v.victims = V /\ Carries(req[r], v)
      BY <1>0, <2>2 DEF LocalState, Carries, Asks
    <2>4. Moves(r, v)
      BY <1>11, <1>m, <2>1, <2>2 DEF RevokeScan
    <2>. QED BY <1>11, <2>1, <2>3, <2>4 DEF RevokeScan, ReadShape, HandleShape
  <1>12. CASE RevokeCommit(r)
    <2>1. RevokeShape(r, Idle)
      BY <1>0, <1>12 DEF RevokeCommit, RevokeShape, Deleted, Without, LocalOK
    <2>. QED BY <1>0, <1>12, <1>m, <2>1 DEF RevokeCommit, Answer, HandleShape
  <1>14. CASE RevokeUserCommit(r)
    <2>1. RevokeShape(r, Idle)
      BY <1>0, <1>14 DEF RevokeUserCommit, RevokeShape, Deleted, Without, LocalOK
    <2>. QED BY <1>0, <1>14, <1>m, <2>1 DEF RevokeUserCommit, Answer, HandleShape
  <1>13. CASE StoreFault(r)
    <2>1. CASE \E call \in {"get", "consume", "save", "revoke", "undo"} : Fails(r, call)
      BY <1>a, <1>q, <2>1 DEF Fails, AnswerShape
    <2>2. CASE /\ req[r].pc = "consume" /\ Stamp(req[r].tok, req[r].now) /\ Answer(r)
               /\ UNCHANGED <<clock, grace, minted, founded, issued, revoked, lineage, origin>>
      <3>1. req[r].tok \in Tokens /\ req[r].now \in Nat
        BY <1>0, <2>2, JudgeCases DEF LocalState
      <3>2. ConsumeShape(r, Idle)
        BY <2>2, <3>1, StampHasShape DEF ConsumeShape, JudgeShape
      <3>. QED BY <1>0, <1>m, <2>2, <3>2 DEF Answer, HandleShape
    <2>3. CASE /\ req[r].pc = "save" /\ Answer(r)
               /\ rows' = [rows EXCEPT ![req[r].succ] = TokenRow(req[r], req[r].at)]
               /\ UNCHANGED <<clock, grace, minted, founded, history>>
      <3>1. SaveShape(r, Idle)
        BY <2>3, SaveHasShape DEF SaveShape, history
      <3>. QED BY <1>0, <1>m, <2>3, <3>1 DEF Answer, HandleShape
    <2>. QED BY <1>13, <2>1, <2>2, <2>3 DEF StoreFault
  <1>. QED BY <1>1, <1>2, <1>3, <1>4, <1>5, <1>6, <1>7, <1>8, <1>9, <1>10, <1>11, <1>12, <1>13,
          <1>14 DEF Handle

(* So has every step of the system.                                        *)
LEMMA NextHasShape ==
  ASSUME TypeInv, clock > 0, [Next]_vars
  PROVE  StepShape
  <1>0. Idle \in LocalState
    BY IdleType
  <1>m. ASSUME NEW r \in Reqs, NEW v \in LocalState, Become(r, v)
        PROVE  Moves(r, v)
    BY <1>m, BecomeEffect DEF TypeInv, Moves
  <1>1. ASSUME NEW r \in Reqs, Handle(r) \/ StoreFault(r)
        PROVE  StepShape
    BY <1>1, HandleHasShape DEF StepShape
  <1>2. ASSUME NEW r \in Reqs, NEW n \in Nodes, NEW c \in Clients, NEW u \in Users,
               Login(r, n, c, u)
        PROVE  StepShape
    <2>1. PICK w \in Nat : w = Now(n) /\ w > 0
      BY NowType, TimesAssumption DEF TypeInv, TypeOK, Now
    <2>2. PICK f \in Families \ founded :
            /\ founded' = founded \cup {f}
            /\ origin' = [origin EXCEPT ![f] = [at |-> w, user |-> u]]
            /\ Become(r, [Idle EXCEPT !.pc = "mint", !.node = n, !.client = c, !.user = u,
                                      !.family = f, !.start = w])
      BY <1>2, <2>1 DEF Login
    <2>3. PICK v \in LocalState :
            v = [Idle EXCEPT !.pc = "mint", !.node = n, !.client = c, !.user = u,
                             !.family = f, !.start = w]
      BY <1>0 DEF LocalState, Steps, FamilyIDs
    <2>4. v.pc = "mint" /\ v.tok = None /\ v.family = f /\ v.user = u /\ v.start = w
      BY <2>3 DEF Idle
    <2>5. /\ origin'[f].at = w /\ origin'[f].user = u
          /\ \A g \in Families : g # f => origin'[g] = origin[g]
      BY <2>2 DEF TypeInv, TypeOK
    <2>6. LoginShape(r, v)
      BY <1>2, <2>1, <2>2, <2>4, <2>5 DEF Login, LoginShape
    <2>. QED BY <1>m, <2>2, <2>3, <2>6 DEF StepShape
  <1>3. ASSUME NEW r \in Reqs, NEW n \in Nodes, NEW c \in Clients, NEW t \in Tokens,
               Present(r, n, t, c)
        PROVE  StepShape
    <2>1. PICK w \in Nat : w = Now(n)
      BY NowType DEF TypeInv
    <2>2. PICK v \in LocalState :
            v = [Idle EXCEPT !.pc = "bind", !.node = n, !.tok = t, !.client = c, !.now = w]
      BY <1>0 DEF LocalState, Steps
    <2>3. v.pc = "bind" /\ v.tok = t /\ v.family = None /\ v.node = n /\ v.now = w
      BY <2>2 DEF Idle
    <2>4. Moves(r, v)
      BY <1>3, <1>m, <2>1, <2>2 DEF Present
    <2>5. PresentShape(r, v)
      BY <1>3, <2>1, <2>3 DEF Present, PresentShape
    <2>. QED BY <2>4, <2>5 DEF StepShape
  <1>4. ASSUME NEW n \in Nodes, Purge(n)
        PROVE  StepShape
    <2>1. PurgeShape
      BY <1>4 DEF Purge, PurgeShape, Deleted, Without
    <2>. QED BY <2>1 DEF StepShape
  <1>5. ASSUME NEW u \in Users, RevokeUser(u)
        PROVE  StepShape
    <2>1. RevokeUserShape
      BY <1>5 DEF RevokeUser, UserRows, RevokeUserShape, Deleted, Without
    <2>. QED BY <2>1 DEF StepShape
  <1>9. ASSUME NEW r \in Reqs, NEW n \in Nodes, NEW u \in Users, RevokeUserScan(r, n, u)
        PROVE  StepShape
    <2>1. PICK V \in SUBSET Tokens : V = UserRows(u)
      BY DEF UserRows
    <2>2. PICK v \in LocalState :
            v = [Idle EXCEPT !.pc = "logout", !.node = n, !.user = u, !.victims = V]
      BY <1>0 DEF LocalState, Steps
    <2>3. v.pc = "logout" /\ v.tok = None /\ v.family = None
      BY <2>2 DEF Idle
    <2>4. Moves(r, v)
      BY <1>9, <1>m, <2>1, <2>2 DEF RevokeUserScan
    <2>5. PresentShape(r, v)
      BY <1>9, <2>3 DEF RevokeUserScan, PresentShape
    <2>. QED BY <2>4, <2>5 DEF StepShape
  <1>6. ASSUME NEW n \in Nodes, Crash(n)
        PROVE  StepShape
    <2>1. GraceFades
      BY <1>6 DEF Crash, GraceFades, TypeInv, TypeOK
    <2>2. CrashShape
      BY <1>6, <2>1 DEF Crash, CrashShape
    <2>. QED BY <2>2 DEF StepShape
  <1>7. CASE Tick
    <2>1. TickShape
      BY <1>7 DEF Tick, TickShape
    <2>. QED BY <2>1 DEF StepShape
  <1>8. CASE UNCHANGED vars
    <2>1. TickShape
      BY <1>8 DEF vars, program, TickShape
    <2>. QED BY <2>1 DEF StepShape
  <1>. QED BY <1>1, <1>2, <1>3, <1>4, <1>5, <1>6, <1>7, <1>8, <1>9, LeaversAssumption DEF Next

(* The steps that hand out, stamp and store nothing: answers, reads,       *)
(* deletions, restarts and the passing of time.                            *)
CalmShape ==
    /\ \A t \in Tokens : rows'[t] \in {None, rows[t]}
    /\ clock' \in {clock, clock + 1} /\ GraceFades
    /\ \A o \in Reqs : req'[o] \in {req[o], Idle} \/ ReadShape(o, req'[o])
    /\ UNCHANGED <<minted, founded, issued, lineage, spentAt, origin>>

BusyShape(r, v) ==
    \/ ConsumeShape(r, v) \/ MintShape(r, v) \/ SaveShape(r, v) \/ RememberShape(r, v)
    \/ LoginShape(r, v) \/ PresentShape(r, v)

(* Every other step is one request's.                                      *)
LEMMA StepCases ==
  ASSUME StepShape
  PROVE  CalmShape \/ \E r \in Reqs, v \in LocalState : Moves(r, v) /\ BusyShape(r, v)
  <1>1. ASSUME NEW r \in Reqs, NEW v \in LocalState, Moves(r, v),
               AnswerShape(v) \/ ReadShape(r, v) \/ RevokeShape(r, v)
        PROVE  CalmShape
    <2>1. \A o \in Reqs : req'[o] \in {req[o], Idle} \/ ReadShape(o, req'[o])
      BY <1>1 DEF Moves, AnswerShape, RevokeShape
    <2>2. CASE AnswerShape(v)
      BY <2>1, <2>2 DEF AnswerShape, CalmShape, history
    <2>3. CASE ReadShape(r, v)
      BY <2>1, <2>3 DEF ReadShape, CalmShape, GraceFades, history
    <2>4. CASE RevokeShape(r, v)
      BY <2>1, <2>4 DEF RevokeShape, CalmShape, GraceFades, Deleted
    <2>. QED BY <1>1, <2>2, <2>3, <2>4
  <1>2. CASE PurgeShape
    BY <1>2 DEF PurgeShape, CalmShape, GraceFades, Deleted, history
  <1>3. CASE RevokeUserShape
    BY <1>3 DEF RevokeUserShape, CalmShape, GraceFades, Deleted
  <1>4. CASE CrashShape
    BY <1>4 DEF CrashShape, CalmShape, history
  <1>5. CASE TickShape
    BY <1>5 DEF TickShape, CalmShape, GraceFades, history
  <1>. QED BY <1>1, <1>2, <1>3, <1>4, <1>5 DEF StepShape, HandleShape, BusyShape

(* The fields of an idle request that the invariants look at.              *)
LEMMA IdleFields ==
  /\ Idle.pc = "idle" /\ Idle.tok = None /\ Idle.family = None
  /\ Idle.succ = None /\ Idle.victims = {}
  BY DEF Idle

-----------------------------------------------------------------------------
(* NoFork.                                                                 *)

(* The invariant of rotation holds when the servers start.                 *)
LEMMA InitForkInv == Init => ForkInv
  <1>. SUFFICES ASSUME Init PROVE ForkInv
    OBVIOUS
  <1>1. TypeInv
    BY InitTypeInv
  <1>2. /\ clock = 1 /\ \A r \in Reqs : req[r].pc = "idle"
        /\ \A t \in Tokens : rows[t] # None => rows[t].consumed = 0
        /\ \A t \in Tokens : lineage[t].parent = None /\ spentAt[t] = 0
    BY DEF Init, Idle, LegacyRows
  <1>3. minted \subseteq Tokens
    BY <1>1 DEF TypeInv, TypeOK
  <1>. QED BY <1>1, <1>2, <1>3
         DEF ForkInv, TimeOK, DrawnOK, SpentOK, MintOK, NoFork, Replacing, Issuing

(* Every step keeps requests out of the future.                            *)
LEMMA StepTimeOK ==
  ASSUME TypeInv, TypeInv', TimeOK, StepShape
  PROVE  TimeOK'
  <1>0. /\ clock \in Nat /\ clock' \in Nat /\ Skew \in [Nodes -> Nat]
        /\ \A r \in Reqs : req[r].pc # "idle" => req[r].node \in Nodes /\ req[r].now \in Nat
        /\ \A r \in Reqs : req'[r].pc # "idle" => req'[r].node \in Nodes /\ req'[r].now \in Nat
    BY TimesAssumption DEF TypeInv, TypeOK, LocalsOK, LocalOK, LocalState
  <1>1. clock' \in {clock, clock + 1} /\ clock' > 0
    <2>1. clock' \in {clock, clock + 1}
      BY StepCases DEF CalmShape, BusyShape, ConsumeShape, MintShape, SaveShape, RememberShape,
            LoginShape, PresentShape
    <2>. QED BY <1>0, <2>1 DEF TimeOK
  <1>2. \A n \in Nodes : Now(n) \in Nat /\ Now(n) <= clock' + Skew[n] /\ clock' + Skew[n] > 0
    BY <1>0, <1>1 DEF Now
  <1>3. ASSUME NEW o \in Reqs, req'[o].pc # "idle", req'[o].tok # None
        PROVE  \/ /\ req[o].pc # "idle" /\ req[o].tok # None
                  /\ req'[o].now = req[o].now /\ req'[o].node = req[o].node
               \/ req'[o].now = Now(req'[o].node) /\ clock' = clock
    <2>1. CASE CalmShape
      BY <1>3, <2>1, IdleFields DEF CalmShape, ReadShape, Carries, Asks
    <2>2. ASSUME NEW r \in Reqs, NEW v \in LocalState, Moves(r, v), BusyShape(r, v), o = r
          PROVE  \/ /\ req[o].pc # "idle" /\ req[o].tok # None
                    /\ v.now = req[o].now /\ v.node = req[o].node
                 \/ v.now = Now(v.node) /\ clock' = clock
      <3>0. req'[r] = v /\ v.pc # "idle" /\ v.tok # None
        BY <1>3, <2>2 DEF Moves
      <3>1. CASE ConsumeShape(r, v)
        BY <2>2, <3>0, <3>1, IdleFields DEF ConsumeShape, JudgeShape, Asks
      <3>2. CASE MintShape(r, v)
        BY <2>2, <3>0, <3>2 DEF MintShape, Asks
      <3>3. CASE SaveShape(r, v)
        BY <2>2, <3>0, <3>3, IdleFields DEF SaveShape, Carries, Asks
      <3>4. CASE RememberShape(r, v)
        BY <2>2, <3>0, <3>4, IdleFields DEF RememberShape
      <3>5. CASE LoginShape(r, v)
        BY <2>2, <3>0, <3>5 DEF LoginShape
      <3>6. CASE PresentShape(r, v)
        BY <2>2, <3>0, <3>6 DEF PresentShape
      <3>. QED BY <2>2, <3>1, <3>2, <3>3, <3>4, <3>5, <3>6 DEF BusyShape
    <2>3. ASSUME NEW r \in Reqs, NEW v \in LocalState, Moves(r, v), o # r
          PROVE  req'[o] = req[o]
      BY <2>3 DEF Moves
    <2>. QED BY <1>3, <2>1, <2>2, <2>3, StepCases DEF Moves
  <1>4. ASSUME NEW o \in Reqs, req'[o].pc # "idle", req'[o].tok # None
        PROVE  req'[o].now > 0 /\ req'[o].now <= clock' + Skew[req'[o].node]
    <2>1. CASE req'[o].now = Now(req'[o].node) /\ clock' = clock
      BY <1>0, <1>1, <1>2, <1>4, <2>1 DEF Now
    <2>2. CASE /\ req[o].pc # "idle" /\ req[o].tok # None
               /\ req'[o].now = req[o].now /\ req'[o].node = req[o].node
      BY <1>0, <1>2, <2>2 DEF TimeOK
    <2>. QED BY <1>3, <1>4, <2>1, <2>2
  <1>. QED BY <1>1, <1>4 DEF TimeOK, Now

(* What a request's new locals may be, once more but as far as successors  *)
(* under way and spent tokens are concerned.                               *)
LEMMA CalmLocals ==
  ASSUME CalmShape, NEW o \in Reqs
  PROVE  /\ req'[o].pc \in Issuing => req[o].pc \in Issuing /\ req'[o].succ = req[o].succ
         /\ req'[o].pc \in Replacing => req[o].pc \in Replacing
         /\ req'[o].pc = "mint" => req[o].pc = "mint"
         /\ req'[o].pc # "idle" => req'[o].tok = req[o].tok /\ req'[o].now = req[o].now
  BY IdleFields DEF CalmShape, ReadShape, Carries, Asks, Issuing, Replacing

(* Every step leaves the successors under way with their requests.         *)
LEMMA StepDrawnOK ==
  ASSUME TypeInv, DrawnOK, StepShape
  PROVE  DrawnOK'
  <1>0. /\ \A r \in Reqs : req[r].pc \in Issuing => req[r].succ \in minted
        /\ minted \subseteq Tokens
    BY DEF TypeInv, TypeOK, LocalsOK, LocalOK
  <1>1. CASE CalmShape
    BY <1>1, CalmLocals DEF CalmShape, DrawnOK, Issuing, Replacing
  <1>2. ASSUME NEW r \in Reqs, NEW v \in LocalState, Moves(r, v), BusyShape(r, v)
        PROVE  DrawnOK'
    <2>m. req'[r] = v /\ \A o \in Reqs : o # r => req'[o] = req[o]
      BY <1>2 DEF Moves
    <2>1. ASSUME issued' = issued, lineage' = lineage, v.pc \notin Issuing
          PROVE  DrawnOK'
      BY <2>1, <2>m DEF DrawnOK
    <2>2. CASE ConsumeShape(r, v)
      <3>1. v.pc \notin Issuing
        BY <2>2, IdleFields DEF ConsumeShape, JudgeShape, Issuing
      <3>. QED BY <2>1, <2>2, <3>1 DEF ConsumeShape
    <2>3. CASE MintShape(r, v)
      <3>1. /\ v.pc = "save" /\ v.succ \notin minted /\ v.succ \in Tokens /\ v.tok = req[r].tok
            /\ issued' = issued /\ lineage'[v.succ].parent = req[r].tok
            /\ \A t \in minted : lineage'[t] = lineage[t]
        BY <1>0, <2>3 DEF MintShape, Asks
      <3>2. v.succ \notin issued
        BY <3>1 DEF TypeInv, RowsOK
      <3>. QED BY <1>0, <2>m, <3>1, <3>2 DEF DrawnOK
    <2>4. CASE SaveShape(r, v)
      <3>1. req[r].pc = "save" /\ lineage' = lineage
        BY <2>4 DEF SaveShape
      <3>2. CASE v = Idle /\ issued' \in {issued, issued \cup {req[r].succ}}
        BY <2>m, <3>1, <3>2, IdleFields DEF DrawnOK, Issuing
      <3>3. CASE v.pc = "reread" /\ v.succ = req[r].succ /\ v.tok = req[r].tok /\ issued' = issued
        BY <2>m, <3>1, <3>3 DEF DrawnOK, Issuing
      <3>. QED BY <2>4, <3>2, <3>3 DEF SaveShape, Carries, Asks
    <2>5. CASE RememberShape(r, v)
      BY <2>5, <2>m, IdleFields DEF RememberShape, DrawnOK, Issuing
    <2>6. CASE LoginShape(r, v)
      BY <2>1, <2>6 DEF LoginShape, Issuing
    <2>7. CASE PresentShape(r, v)
      BY <2>1, <2>7 DEF PresentShape, Issuing, history
    <2>. QED BY <1>2, <2>2, <2>3, <2>4, <2>5, <2>6, <2>7 DEF BusyShape
  <1>. QED BY <1>1, <1>2, StepCases

(* Every step keeps the stamps and the history of rotations in agreement.  *)
LEMMA StepSpentOK ==
  ASSUME TypeInv, TimeOK, DrawnOK, SpentOK, StepShape
  PROVE  SpentOK'
  <1>0. /\ minted \subseteq Tokens /\ None \notin Tokens /\ None \notin Row
        /\ rows \in [Tokens -> Row \cup {None}]
        /\ spentAt \in [Tokens -> Nat]
        /\ \A s \in minted : lineage[s].parent # None => lineage[s].parent \in Tokens
        /\ \A o \in Reqs : req[o].tok # None => req[o].tok \in Tokens
    BY TokensAssumption, RowAssumption DEF TypeInv, TypeOK, LocalState
  <1>1. CASE CalmShape
    BY <1>1, CalmLocals, IdleFields DEF CalmShape, SpentOK, Replacing
  <1>2. ASSUME NEW r \in Reqs, NEW v \in LocalState, Moves(r, v), BusyShape(r, v)
        PROVE  SpentOK'
    <2>m. req'[r] = v /\ \A o \in Reqs : o # r => req'[o] = req[o]
      BY <1>2 DEF Moves
    <2>1. ASSUME UNCHANGED <<rows, spentAt, minted, lineage>>, issued \subseteq issued',
                 v.pc \in Replacing => v.tok = None \/ spentAt[v.tok] # 0
          PROVE  SpentOK'
      BY <2>1, <2>m DEF SpentOK
    <2>2. CASE ConsumeShape(r, v)
      <3>. DEFINE t == req[r].tok
                  n == req[r].now
      <3>1. /\ t \in Tokens /\ t \in issued /\ n > 0 /\ n \in Nat
            /\ UNCHANGED <<minted, issued, lineage>>
            /\ \A s \in Tokens : s # t => rows'[s] = rows[s] /\ spentAt'[s] = spentAt[s]
        <4>1. req[r].pc = "consume" /\ t \in Tokens /\ t # None
          BY <1>0, <2>2 DEF ConsumeShape
        <4>. QED BY <2>2, <4>1 DEF ConsumeShape, StampShape, TimeOK, TypeInv, TypeOK, LocalsOK, LocalOK, LocalState
      <3>2. /\ spentAt'[t] # 0 => t \in issued
            /\ rows'[t] # None => rows'[t].consumed = spentAt'[t]
            /\ spentAt[t] # 0 => spentAt'[t] # 0
        <4>1. CASE /\ rows[t] # None /\ rows[t].consumed = 0
                   /\ rows'[t] = [rows[t] EXCEPT !.consumed = n] /\ spentAt'[t] = n
          BY <1>0, <3>1, <4>1, StampedRow
        <4>2. CASE rows'[t] = rows[t] /\ spentAt'[t] = spentAt[t]
          BY <3>1, <4>2 DEF SpentOK
        <4>. QED BY <2>2, <4>1, <4>2 DEF ConsumeShape, StampShape
      <3>3. v.pc \in Replacing => v.tok = t /\ spentAt'[t] # 0
        <4>. SUFFICES ASSUME v.pc \in Replacing PROVE v.tok = t /\ spentAt'[t] # 0
          OBVIOUS
        <4>1. rows[t] # None /\ rows[t].consumed = 0 /\ v.tok = t
          BY <2>2, IdleFields DEF ConsumeShape, JudgeShape, Asks, Replacing
        <4>2. spentAt'[t] = n
          BY <2>2, <4>1 DEF ConsumeShape, StampShape
        <4>. QED BY <3>1, <4>1, <4>2
      <3>. HIDE DEF t, n
      <3>. QED BY <1>0, <2>m, <3>1, <3>2, <3>3 DEF SpentOK
    <2>3. CASE MintShape(r, v)
      <3>1. /\ v.succ \in Tokens \ minted /\ minted' = minted \cup {v.succ}
            /\ lineage'[v.succ].parent = req[r].tok /\ v.tok = req[r].tok
            /\ \A s \in Tokens : s # v.succ => lineage'[s] = lineage[s]
            /\ UNCHANGED <<rows, spentAt, issued>> /\ req[r].pc = "mint"
        BY <2>3 DEF MintShape, Asks
      <3>2. req[r].tok # None => spentAt[req[r].tok] # 0
        BY <3>1 DEF SpentOK, Replacing
      <3>. QED BY <1>0, <2>m, <3>1, <3>2 DEF SpentOK
    <2>4. CASE SaveShape(r, v)
      <3>. DEFINE s == req[r].succ
      <3>1. /\ req[r].pc = "save" /\ s \in Tokens /\ rows'[s].consumed = 0
            /\ \A t \in Tokens : t # s => rows'[t] = rows[t]
            /\ UNCHANGED <<minted, lineage, spentAt>> /\ issued \subseteq issued'
        BY <1>0, <2>4 DEF SaveShape, TokenRow
      <3>2. spentAt[s] = 0
        BY <1>0, <3>1 DEF SpentOK, DrawnOK, Issuing
      <3>3. v.pc \in Replacing => v.tok = req[r].tok
        BY <2>4, IdleFields DEF SaveShape, Carries, Asks, Replacing
      <3>. HIDE DEF s
      <3>. QED BY <1>0, <2>m, <3>1, <3>2, <3>3 DEF SpentOK, Replacing
    <2>5. CASE RememberShape(r, v)
      BY <2>1, <2>5, IdleFields DEF RememberShape, Replacing
    <2>6. CASE LoginShape(r, v)
      BY <2>1, <2>6 DEF LoginShape, Replacing
    <2>7. CASE PresentShape(r, v)
      BY <2>1, <2>7 DEF PresentShape, Replacing, history
    <2>. QED BY <1>2, <2>2, <2>3, <2>4, <2>5, <2>6, <2>7 DEF BusyShape
  <1>. QED BY <1>1, <1>2, StepCases

(* Every step keeps rotations apart: a token is rotated by one request,    *)
(* the one that stamped it, and that request draws one successor.          *)
LEMMA StepNoFork ==
  ASSUME TypeInv, SpentOK, MintOK, NoFork, StepShape
  PROVE  MintOK' /\ NoFork'
  <1>0. /\ minted \subseteq Tokens /\ None \notin Tokens
        /\ \A o \in Reqs : req[o].tok # None => req[o].tok \in Tokens
    BY TokensAssumption DEF TypeInv, TypeOK, LocalState
  <1>1. CASE CalmShape
    <2>1. MintOK'
      BY <1>1, CalmLocals DEF CalmShape, MintOK
    <2>2. NoFork'
      BY <1>1 DEF CalmShape, NoFork
    <2>. QED BY <2>1, <2>2
  <1>2. ASSUME NEW r \in Reqs, NEW v \in LocalState, Moves(r, v), BusyShape(r, v)
        PROVE  MintOK' /\ NoFork'
    <2>m. req'[r] = v /\ \A o \in Reqs : o # r => req'[o] = req[o]
      BY <1>2 DEF Moves
    <2>1. ASSUME UNCHANGED <<minted, lineage>>, v.pc # "mint" \/ v.tok = None
          PROVE  MintOK' /\ NoFork'
      <3>1. NoFork'
        BY <2>1 DEF NoFork
      <3>2. MintOK'
        BY <1>0, <2>1, <2>m DEF MintOK
      <3>. QED BY <3>1, <3>2
    <2>2. CASE ConsumeShape(r, v)
      <3>1. CASE v.pc = "mint"
        <4>. DEFINE t == req[r].tok
        <4>1. /\ t \in Tokens /\ v.tok = t /\ rows[t] # None /\ rows[t].consumed = 0
              /\ UNCHANGED <<minted, lineage>>
          BY <2>2, <3>1, IdleFields DEF ConsumeShape, JudgeShape, Asks
        <4>2. spentAt[t] = 0
          BY <4>1 DEF SpentOK
        <4>3. /\ \A s \in minted : lineage[s].parent # t
              /\ \A o \in Reqs : req[o].pc = "mint" => req[o].tok # t
          BY <1>0, <4>1, <4>2 DEF SpentOK, Replacing
        <4>4. NoFork'
          BY <4>1 DEF NoFork
        <4>. HIDE DEF t
        <4>5. MintOK'
          BY <2>m, <3>1, <4>1, <4>3 DEF MintOK
        <4>. QED BY <4>4, <4>5
      <3>2. CASE v.pc # "mint"
        BY <2>1, <2>2, <3>2 DEF ConsumeShape
      <3>. QED BY <3>1, <3>2
    <2>3. CASE MintShape(r, v)
      <3>1. /\ v.succ \in Tokens \ minted /\ minted' = minted \cup {v.succ}
            /\ lineage'[v.succ].parent = req[r].tok /\ v.tok = req[r].tok
            /\ \A s \in minted : lineage'[s] = lineage[s]
            /\ req[r].pc = "mint" /\ v.pc = "save"
        BY <1>0, <2>3 DEF MintShape, Asks
      <3>2. req[r].tok # None => /\ \A s \in minted : lineage[s].parent # req[r].tok
                                 /\ \A o \in Reqs : req[o].pc = "mint" /\ req[o].tok = req[r].tok => o = r
        BY <3>1 DEF MintOK
      <3>3. NoFork'
        BY <3>1, <3>2 DEF NoFork
      <3>4. MintOK'
        BY <2>m, <3>1, <3>2 DEF MintOK
      <3>. QED BY <3>3, <3>4
    <2>4. CASE SaveShape(r, v)
      BY <2>1, <2>4, IdleFields DEF SaveShape
    <2>5. CASE RememberShape(r, v)
      BY <2>1, <2>5, IdleFields DEF RememberShape
    <2>6. CASE LoginShape(r, v)
      BY <2>1, <2>6 DEF LoginShape
    <2>7. CASE PresentShape(r, v)
      BY <2>1, <2>7 DEF PresentShape, history
    <2>. QED BY <1>2, <2>2, <2>3, <2>4, <2>5, <2>6, <2>7 DEF BusyShape
  <1>. QED BY <1>1, <1>2, StepCases

(* The invariant of rotation is inductive.                                 *)
LEMMA NextForkInv == ForkInv /\ [Next]_vars => ForkInv' /\ StepShape
  <1>. SUFFICES ASSUME ForkInv, [Next]_vars PROVE ForkInv' /\ StepShape
    OBVIOUS
  <1>1. TypeInv /\ TypeInv' /\ StepShape
    BY NextTypeInv, NextHasShape DEF ForkInv, TimeOK
  <1>2. TimeOK' /\ DrawnOK' /\ SpentOK' /\ MintOK' /\ NoFork'
    BY <1>1, StepTimeOK, StepDrawnOK, StepSpentOK, StepNoFork DEF ForkInv
  <1>. QED BY <1>1, <1>2 DEF ForkInv

(* A refresh token is rotated at most once, with either store and whatever *)
(* duplicates, retries, failed calls, restarts and clock skews there are:  *)
(* issueTokenPair never gives one predecessor two successors.              *)
THEOREM NoForks == Spec => []NoFork
  <1>1. ForkInv => NoFork
    BY DEF ForkInv
  <1>. QED BY <1>1, InitForkInv, NextForkInv, PTL DEF Spec

-----------------------------------------------------------------------------
(* What is stored and what is granted.                                     *)

(* A stamp leaves everything else of its row, and the other rows, alone.   *)
LEMMA StampFields ==
  ASSUME TypeInv, NEW t \in Tokens, NEW now \in Nat, StampShape(t, now), NEW s \in Tokens
  PROVE  /\ rows'[s] = None <=> rows[s] = None
         /\ rows[s] # None =>
              /\ rows'[s].client = rows[s].client /\ rows'[s].user = rows[s].user
              /\ rows'[s].family = rows[s].family /\ rows'[s].expires = rows[s].expires
              /\ rows'[s].familyCreated = rows[s].familyCreated
              /\ rows'[s].familyExpires = rows[s].familyExpires
              /\ rows'[s].created = rows[s].created
  <1>1. CASE s # t
    BY <1>1 DEF StampShape
  <1>2. CASE s = t /\ rows[t] # None /\ rows'[t] = [rows[t] EXCEPT !.consumed = now]
    <2>1. rows[t] \in Row
      BY <1>2 DEF TypeInv, TypeOK
    <2>. QED BY <1>2, <2>1, StampedRow, RowAssumption
  <1>3. CASE s = t /\ rows'[t] = rows[t]
    BY <1>3
  <1>. QED BY <1>1, <1>2, <1>3 DEF StampShape

(* Every step keeps a consuming request the owner of what it consumes.     *)
LEMMA StepOwnerOK ==
  ASSUME TypeInv, DrawnOK, OwnerOK, StepShape
  PROVE  OwnerOK'
  <1>0. \A o \in Reqs : req[o].pc \in {"bind", "consume"} => req[o].tok \in issued /\ req[o].tok \in Tokens
    BY DEF TypeInv, TypeOK, LocalsOK, LocalOK
  <1>1. CASE CalmShape
    <2>. SUFFICES ASSUME NEW o \in Reqs, req'[o].pc = "consume", rows'[req'[o].tok] # None
                  PROVE  rows'[req'[o].tok].client = req'[o].client
      BY DEF OwnerOK
    <2>1. CASE req'[o] = req[o]
      BY <1>0, <1>1, <2>1 DEF CalmShape, OwnerOK
    <2>2. CASE ReadShape(o, req'[o])
      BY <2>2 DEF ReadShape, Carries, Asks
    <2>. QED BY <1>1, <2>1, <2>2, IdleFields DEF CalmShape
  <1>2. ASSUME NEW r \in Reqs, NEW v \in LocalState, Moves(r, v), BusyShape(r, v)
        PROVE  OwnerOK'
    <2>m. req'[r] = v /\ \A o \in Reqs : o # r => req'[o] = req[o]
      BY <1>2 DEF Moves
    <2>1. ASSUME rows' = rows, v.pc # "consume"
          PROVE  OwnerOK'
      BY <2>1, <2>m DEF OwnerOK
    <2>2. CASE ConsumeShape(r, v)
      <3>1. v.pc # "consume"
        BY <2>2, IdleFields DEF ConsumeShape, JudgeShape
      <3>2. \A s \in Tokens : rows'[s] # None => rows[s] # None /\ rows'[s].client = rows[s].client
        BY <2>2, StampFields DEF ConsumeShape, TypeInv, TypeOK, LocalState
      <3>. QED BY <1>0, <2>m, <3>1, <3>2 DEF OwnerOK
    <2>3. CASE SaveShape(r, v)
      <3>1. v.pc # "consume" /\ req[r].pc = "save"
            /\ \A s \in Tokens : s # req[r].succ => rows'[s] = rows[s]
        BY <2>3, IdleFields DEF SaveShape
      <3>2. \A o \in Reqs : req[o].pc = "consume" => req[o].tok # req[r].succ
        BY <1>0, <3>1 DEF DrawnOK, Issuing
      <3>. QED BY <1>0, <2>m, <3>1, <3>2 DEF OwnerOK
    <2>. QED BY <1>2, <2>1, <2>2, <2>3, IdleFields
           DEF BusyShape, MintShape, RememberShape, LoginShape, PresentShape
  <1>. QED BY <1>1, <1>2, StepCases

(* Every step keeps the grace caches to successors that were handed out.   *)
LEMMA StepGraceOK ==
  ASSUME TypeInv, DrawnOK, SpentOK, GraceOK, StepShape
  PROVE  GraceOK'
  <1>0. /\ issued \subseteq minted /\ minted \subseteq Tokens /\ NoEntry.succ = None
        /\ \A o \in Reqs : req[o].pc \in {"recall", "peek", "remember"} =>
             req[o].tok \in Tokens /\ req[o].node \in Nodes
    BY DEF TypeInv, TypeOK, LocalsOK, LocalOK, RowsOK, NoEntry
  <1>1. CASE CalmShape
    <2>1. \A n \in Nodes, t \in Tokens : grace'[n][t].succ # None => grace'[n][t] = grace[n][t]
      BY <1>0, <1>1 DEF CalmShape, GraceFades
    <2>2. \A o \in Reqs : req'[o].pc \in {"recall", "peek"} =>
            /\ req[o].pc \in {"recall", "peek"} /\ req'[o].tok = req[o].tok /\ req'[o].now = req[o].now
            /\ req'[o].pc = "peek" =>
                 \/ req[o].pc = "peek" /\ req'[o].succ = req[o].succ
                 \/ req'[o].succ = grace[req[o].node][req[o].tok].succ /\ req'[o].succ # None
      BY <1>1, IdleFields DEF CalmShape, ReadShape, Carries, Asks
    <2>. QED BY <1>0, <1>1, <2>1, <2>2 DEF CalmShape, GraceOK
  <1>2. ASSUME NEW r \in Reqs, NEW v \in LocalState, Moves(r, v), BusyShape(r, v)
        PROVE  GraceOK'
    <2>m. req'[r] = v /\ \A o \in Reqs : o # r => req'[o] = req[o]
      BY <1>2 DEF Moves
    <2>1. ASSUME grace' = grace, spentAt' = spentAt, issued \subseteq issued',
                 \A t \in minted : lineage'[t] = lineage[t], v.pc \notin {"recall", "peek"}
          PROVE  GraceOK'
      BY <1>0, <2>1, <2>m DEF GraceOK
    <2>2. CASE ConsumeShape(r, v)
      <3>. DEFINE t == req[r].tok
      <3>1. /\ t \in Tokens /\ UNCHANGED <<grace, issued, lineage>> /\ v.pc # "peek"
            /\ \A s \in Tokens : s # t => spentAt'[s] = spentAt[s]
        BY <2>2, IdleFields DEF ConsumeShape, StampShape, JudgeShape
      <3>2. spentAt[t] # 0 => spentAt'[t] = spentAt[t]
        BY <2>2, <3>1 DEF ConsumeShape, StampShape, SpentOK
      <3>3. v.pc = "recall" =>
              v.tok = t /\ spentAt[t] # 0 /\ v.now <= spentAt[t] + GracePeriod
        BY <2>2, <3>1, IdleFields DEF ConsumeShape, JudgeShape, Asks, GraceWindowOpen, SpentOK
      <3>. HIDE DEF t
      <3>. QED BY <1>0, <2>m, <3>1, <3>2, <3>3 DEF GraceOK
    <2>3. CASE RememberShape(r, v)
      <3>1. /\ req[r].pc = "remember" /\ v = Idle /\ issued' = issued \cup {req[r].succ}
            /\ UNCHANGED <<lineage, spentAt>>
            /\ \A n \in Nodes, t \in Tokens :
                 \/ grace'[n][t] \in {grace[n][t], NoEntry}
                 \/ t = req[r].tok /\ grace'[n][t].succ = req[r].succ
        BY <2>3 DEF RememberShape
      <3>2. lineage[req[r].succ].parent = req[r].tok
        BY <3>1 DEF DrawnOK, Issuing
      <3>3. \A n \in Nodes, t \in Tokens : grace'[n][t].succ # None =>
              grace'[n][t].succ \in issued' /\ lineage'[grace'[n][t].succ].parent = t
        BY <1>0, <3>1, <3>2 DEF GraceOK
      <3>4. \A o \in Reqs : req'[o].pc \in {"recall", "peek"} => req'[o] = req[o]
        BY <2>m, <3>1, IdleFields
      <3>. QED BY <3>1, <3>3, <3>4 DEF GraceOK
    <2>4. CASE MintShape(r, v)
      BY <1>0, <2>1, <2>4 DEF MintShape
    <2>5. CASE SaveShape(r, v)
      BY <2>1, <2>5, IdleFields DEF SaveShape
    <2>6. CASE LoginShape(r, v)
      BY <2>1, <2>6 DEF LoginShape
    <2>7. CASE PresentShape(r, v)
      BY <2>1, <2>7 DEF PresentShape, history
    <2>. QED BY <1>2, <2>2, <2>3, <2>4, <2>5, <2>6, <2>7 DEF BusyShape
  <1>. QED BY <1>1, <1>2, StepCases

(* The family that Judge passes on: the row's, or the one derived from a   *)
(* familyless row, which no login founds.                                  *)
LEMMA JudgedFamily ==
  ASSUME TypeInv, NEW t \in Tokens, rows[t] # None, NEW f, f = familyToRevoke(rows[t], t)
  PROVE  \/ rows[t].family # None /\ f = rows[t].family
         \/ rows[t].family = None /\ t \in LegacyTokens /\ f = legacyFamilyID(t) /\ f \notin Families
  BY FamiliesAssumption DEF TypeInv, RowsOK, familyToRevoke

(* Every step keeps the families in use founded.                           *)
LEMMA StepFoundedOK ==
  ASSUME TypeInv, FoundedOK, StepShape
  PROVE  FoundedOK'
  <1>0. minted \subseteq Tokens /\ None \notin Families /\ founded \subseteq Families
    BY FamiliesAssumption DEF TypeInv, TypeOK, FamilyIDs
  <1>1. CASE CalmShape
    <2>1. \A o \in Reqs : req'[o].family \in {req[o].family, None}
      BY <1>1, IdleFields DEF CalmShape, ReadShape, Carries
    <2>. QED BY <1>0, <1>1, <2>1 DEF CalmShape, FoundedOK
  <1>2. ASSUME NEW r \in Reqs, NEW v \in LocalState, Moves(r, v), BusyShape(r, v)
        PROVE  FoundedOK'
    <2>m. req'[r] = v /\ \A o \in Reqs : o # r => req'[o] = req[o]
      BY <1>2 DEF Moves
    <2>1. ASSUME UNCHANGED <<minted, founded, lineage, origin>>,
                 v.family \in Families => v.family \in founded,
                 \A t \in Tokens : rows'[t] # None /\ rows'[t].family \in Families =>
                   rows'[t].family \in founded
          PROVE  FoundedOK'
      BY <2>1, <2>m DEF FoundedOK
    <2>2. CASE ConsumeShape(r, v)
      <3>1. req[r].tok \in Tokens /\ req[r].now \in Nat /\ StampShape(req[r].tok, req[r].now)
        BY <2>2 DEF ConsumeShape, TypeInv, TypeOK, LocalState
      <3>2. \A t \in Tokens : rows'[t] # None => rows[t] # None /\ rows'[t].family = rows[t].family
        BY <3>1, StampFields
      <3>3. v.family \in Families => v.family \in founded
        BY <1>0, <2>2, <3>1, JudgedFamily, IdleFields DEF ConsumeShape, JudgeShape, FoundedOK
      <3>. QED BY <2>1, <2>2, <3>2, <3>3 DEF ConsumeShape, FoundedOK
    <2>3. CASE MintShape(r, v)
      <3>1. /\ v.succ \in Tokens \ minted /\ minted' = minted \cup {v.succ}
            /\ lineage'[v.succ].family = req[r].family /\ v.family = req[r].family
            /\ \A t \in minted : lineage'[t] = lineage[t]
            /\ UNCHANGED <<rows, founded, origin>>
        BY <1>0, <2>3 DEF MintShape
      <3>. QED BY <2>m, <3>1 DEF FoundedOK
    <2>4. CASE SaveShape(r, v)
      <3>1. /\ rows'[req[r].succ].family = req[r].family
            /\ \A t \in Tokens : t # req[r].succ => rows'[t] = rows[t]
            /\ v.family \in {req[r].family, None}
        BY <2>4, IdleFields DEF SaveShape, TokenRow, Carries
      <3>. QED BY <1>0, <2>1, <2>4, <3>1 DEF SaveShape, FoundedOK
    <2>5. CASE RememberShape(r, v)
      BY <1>0, <2>1, <2>5, IdleFields DEF RememberShape, FoundedOK
    <2>6. CASE LoginShape(r, v)
      <3>1. /\ v.family \in Families /\ founded' = founded \cup {v.family} /\ v.start > 0
            /\ origin'[v.family].at = v.start
            /\ \A f \in Families : f # v.family => origin'[f] = origin[f]
            /\ UNCHANGED <<rows, minted, lineage>>
        BY <2>6 DEF LoginShape
      <3>. QED BY <1>0, <2>m, <3>1 DEF FoundedOK
    <2>7. CASE PresentShape(r, v)
      BY <1>0, <2>1, <2>7 DEF PresentShape, history, FoundedOK
    <2>. QED BY <1>2, <2>2, <2>3, <2>4, <2>5, <2>6, <2>7 DEF BusyShape
  <1>. QED BY <1>1, <1>2, StepCases

(* A family in use began at a time after Go's zero time.                   *)
LEMMA BeginType ==
  ASSUME TypeOK, FoundedOK, NEW f, f \in Families => f \in founded
  PROVE  Begin(f) \in Nat /\ Begin(f) > 0
  BY DEF Begin, FoundedOK, TypeOK

(* Every step passes the beginning of a family on unchanged.               *)
LEMMA StepBeginOK ==
  ASSUME TypeInv, FoundedOK, BeginOK, StepShape
  PROVE  BeginOK'
  <1>0. /\ minted \subseteq Tokens /\ None \notin FamilyIDs /\ AbsoluteTTL \in Nat
        /\ \A t \in Tokens : rows[t] # None => rows[t] \in Row
        /\ \A o \in Reqs : req[o].pc \in Rotating \cup Replacing => req[o].family \in FamilyIDs
    BY FamiliesAssumption, TimesAssumption
       DEF TypeInv, TypeOK, LocalsOK, LocalOK, Rotating, Replacing
  <1>b. ASSUME origin' = origin
        PROVE  \A f : Begin(f)' = Begin(f)
    BY <1>b DEF Begin
  <1>1. CASE CalmShape
    <2>0. \A f : Begin(f)' = Begin(f)
      BY <1>b, <1>1 DEF CalmShape
    <2>1. \A o \in Reqs : req'[o].pc \in Rotating => req'[o] = req[o]
      BY <1>1, IdleFields DEF CalmShape, ReadShape, Rotating
    <2>2. \A o \in Reqs : req'[o].pc \in Replacing =>
            /\ req[o].pc \in Replacing /\ req'[o].tok = req[o].tok
            /\ req'[o].now = req[o].now /\ req'[o].family = req[o].family
      BY <1>1, IdleFields DEF CalmShape, ReadShape, Carries, Asks, Replacing
    <2>3. \A t \in Tokens : rows'[t] # None => rows'[t] = rows[t]
      BY <1>1 DEF CalmShape
    <2>. QED BY <2>0, <2>1, <2>2, <2>3 DEF BeginOK, familyStart
  <1>2. ASSUME NEW r \in Reqs, NEW v \in LocalState, Moves(r, v), BusyShape(r, v)
        PROVE  BeginOK'
    <2>m. req'[r] = v /\ \A o \in Reqs : o # r => req'[o] = req[o]
      BY <1>2 DEF Moves
    <2>1. ASSUME UNCHANGED <<rows, origin>>,
                 v.pc \in Rotating => v.start = Begin(v.family),
                 v.pc \in Replacing /\ v.tok # None => v.now < Begin(v.family) + AbsoluteTTL
          PROVE  BeginOK'
      BY <1>b, <2>1, <2>m DEF BeginOK, familyStart
    <2>2. CASE ConsumeShape(r, v)
      <3>. DEFINE t == req[r].tok
                  row == rows[t]
      <3>1. t \in Tokens /\ req[r].now \in Nat /\ StampShape(t, req[r].now) /\ origin' = origin
        BY <2>2 DEF ConsumeShape, TypeInv, TypeOK, LocalState
      <3>2. \A s \in Tokens : rows'[s] # None =>
              /\ rows[s] # None /\ rows'[s].family = rows[s].family
              /\ rows'[s].expires = rows[s].expires
              /\ rows'[s].familyCreated = rows[s].familyCreated
              /\ rows'[s].familyExpires = rows[s].familyExpires
              /\ familyStart(rows'[s]) = familyStart(rows[s])
        BY <3>1, StampFields DEF familyStart
      <3>3. v.pc \in Rotating \cup Replacing =>
              v.start = Begin(v.family) /\ v.now < Begin(v.family) + AbsoluteTTL
        <4>. SUFFICES ASSUME v.pc \in Rotating \cup Replacing
                      PROVE  v.start = Begin(v.family) /\ v.now < Begin(v.family) + AbsoluteTTL
          OBVIOUS
        <4>1. /\ row # None /\ v.family = familyToRevoke(row, t) /\ v.start = familyStart(row)
              /\ ~PastAbsoluteTTL(row, req[r].now) /\ v.now = req[r].now
          BY <2>2, IdleFields DEF ConsumeShape, JudgeShape, Asks, Rotating, Replacing
        <4>2. row.familyCreated \in Nat /\ row.created \in Nat
          BY <1>0, <3>1, <4>1 DEF Row
        <4>3. familyStart(row) \in Nat /\ familyStart(row) # 0
              /\ req[r].now < familyStart(row) + AbsoluteTTL
          BY <1>0, <3>1, <4>1, <4>2 DEF PastAbsoluteTTL, familyStart
        <4>4. CASE row.family # None /\ v.family = row.family
          <5>1. row.familyCreated = Begin(v.family)
            BY <3>1, <4>1, <4>4 DEF BeginOK
          <5>2. v.family \in Families => v.family \in founded
            BY <3>1, <4>1, <4>4 DEF FoundedOK
          <5>3. Begin(v.family) > 0 /\ Begin(v.family) \in Nat
            BY <5>2, BeginType DEF TypeInv
          <5>4. familyStart(row) = Begin(v.family)
            BY <5>1, <5>3 DEF familyStart
          <5>. QED BY <4>1, <4>3, <5>4
        <4>5. CASE row.family = None /\ v.family \notin Families
          <5>1. familyStart(row) <= 1
            BY <3>1, <4>1, <4>5 DEF BeginOK
          <5>2. familyStart(row) = 1 /\ Begin(v.family) = 1
            BY <4>3, <4>5, <5>1 DEF Begin
          <5>. QED BY <4>1, <4>3, <5>2
        <4>. QED BY <3>1, <4>1, <4>4, <4>5, JudgedFamily
      <3>4. \A f : Begin(f)' = Begin(f)
        BY <1>b, <3>1
      <3>. HIDE DEF t, row
      <3>. QED BY <2>m, <3>2, <3>3, <3>4 DEF BeginOK
    <2>3. CASE MintShape(r, v)
      <3>1. /\ req[r].pc = "mint" /\ v.start = req[r].start /\ v.family = req[r].family
            /\ v.tok = req[r].tok /\ v.now = req[r].now /\ UNCHANGED <<rows, origin>>
        BY <2>3 DEF MintShape, Asks
      <3>. QED BY <2>1, <3>1 DEF BeginOK, Rotating, Replacing
    <2>4. CASE SaveShape(r, v)
      <3>. DEFINE f == req[r].family
                  s == req[r].succ
      <3>1. /\ req[r].pc = "save" /\ req[r].start = Begin(f) /\ f # None /\ f \in FamilyIDs
            /\ origin' = origin /\ \A t \in Tokens : t # s => rows'[t] = rows[t]
        BY <1>0, <2>4 DEF SaveShape, BeginOK, Rotating
      <3>2. Begin(f) \in Nat /\ req[r].at \in Nat /\ RefreshTTL \in Nat
        BY BeginType, TimesAssumption DEF TypeInv, FoundedOK, TypeOK, LocalState
      <3>3. /\ rows'[s].family = f /\ rows'[s].familyCreated = Begin(f)
            /\ rows'[s].familyExpires = Begin(f) + AbsoluteTTL
            /\ rows'[s].expires <= Begin(f) + AbsoluteTTL
        BY <1>0, <2>4, <3>1, <3>2 DEF SaveShape, TokenRow
      <3>4. /\ v.pc \notin Rotating
            /\ v.pc \in Replacing => v.tok = req[r].tok /\ v.now = req[r].now /\ v.family = f
        BY <2>4, IdleFields DEF SaveShape, Carries, Asks, Replacing, Rotating
      <3>5. v.pc \in Replacing /\ v.tok # None => v.now < Begin(v.family) + AbsoluteTTL
        BY <3>1, <3>4 DEF BeginOK, Replacing
      <3>6. \A g : Begin(g)' = Begin(g)
        BY <1>b, <3>1
      <3>. HIDE DEF f, s
      <3>. QED BY <2>m, <3>1, <3>3, <3>4, <3>5, <3>6 DEF BeginOK
    <2>5. CASE RememberShape(r, v)
      BY <2>1, <2>5, IdleFields DEF RememberShape, Rotating, Replacing
    <2>6. CASE LoginShape(r, v)
      <3>1. /\ v.family \in Families \ founded /\ v.tok = None /\ rows' = rows
            /\ origin'[v.family].at = v.start
            /\ \A f \in Families : f # v.family => origin'[f] = origin[f]
        BY <2>6 DEF LoginShape
      <3>2. \A f : f # v.family => Begin(f)' = Begin(f)
        BY <3>1 DEF Begin
      <3>3. Begin(v.family)' = v.start
        BY <3>1 DEF Begin
      <3>4. /\ \A t \in Tokens : rows[t] # None => rows[t].family # v.family
            /\ \A o \in Reqs : req[o].family # v.family
        BY <3>1 DEF FoundedOK
      <3>. QED BY <2>m, <3>1, <3>2, <3>3, <3>4 DEF BeginOK, familyStart
    <2>7. CASE PresentShape(r, v)
      BY <2>1, <2>7 DEF PresentShape, history, Rotating, Replacing
    <2>. QED BY <1>2, <2>2, <2>3, <2>4, <2>5, <2>6, <2>7 DEF BusyShape
  <1>. QED BY <1>1, <1>2, StepCases

(* The invariant of what is stored and granted holds at the start ...      *)
LEMMA InitCapInv == Init => CapInv
  <1>. SUFFICES ASSUME Init PROVE CapInv
    OBVIOUS
  <1>1. ForkInv /\ TypeInv
    BY InitForkInv DEF ForkInv
  <1>2. /\ \A r \in Reqs : req[r].pc = "idle" /\ req[r].family = None
        /\ \A n \in Nodes, t \in Tokens : grace[n][t].succ = None
        /\ minted = LegacyTokens /\ founded = {}
    BY DEF Init, Idle, NoEntry
  <1>3. \A t \in Tokens : rows[t] # None =>
          /\ rows[t].family = None
          /\ rows[t].familyCreated \in {0, 1} /\ rows[t].created \in {0, 1}
    BY DEF Init, LegacyRows
  <1>4. None \notin Families
    BY FamiliesAssumption DEF FamilyIDs
  <1>5. FoundedOK
    BY <1>1, <1>2, <1>3, <1>4 DEF FoundedOK, TypeInv, RowsOK
  <1>6. BeginOK
    BY <1>2, <1>3 DEF BeginOK, familyStart, Rotating, Replacing
  <1>. QED BY <1>1, <1>2, <1>5, <1>6 DEF CapInv, OwnerOK, GraceOK

(* ... and is inductive.                                                   *)
LEMMA NextCapInv == CapInv /\ [Next]_vars => CapInv' /\ StepShape
  <1>. SUFFICES ASSUME CapInv, [Next]_vars PROVE CapInv' /\ StepShape
    OBVIOUS
  <1>1. ForkInv /\ ForkInv' /\ StepShape
    BY NextForkInv DEF CapInv
  <1>2. TypeInv /\ DrawnOK /\ SpentOK
    BY <1>1 DEF ForkInv
  <1>. QED BY <1>1, <1>2, StepOwnerOK, StepGraceOK, StepFoundedOK, StepBeginOK DEF CapInv

(* Only the client a token was issued to can spend it, with either store:  *)
(* the pre-check of refreshTokenGrant keeps another client_id from burning *)
(* it although it is not atomic with ConsumeRefreshToken.                  *)
THEOREM OnlyOwnersSpend == Spec => SpentByOwner
  <1>1. ASSUME CapInv, StepShape, NEW t \in Tokens, spentAt[t] = 0, spentAt'[t] # 0
        PROVE  \E r \in Reqs : req[r].pc = "consume" /\ req[r].tok = t
                                 /\ req[r].client = rows[t].client
    <2>1. ~CalmShape
      BY <1>1 DEF CalmShape
    <2>2. PICK r \in Reqs, v \in LocalState : Moves(r, v) /\ BusyShape(r, v)
      BY <1>1, <2>1, StepCases
    <2>3. ConsumeShape(r, v)
      BY <1>1, <2>2 DEF BusyShape, MintShape, SaveShape, RememberShape, LoginShape, PresentShape, history
    <2>4. req[r].pc = "consume" /\ req[r].tok = t /\ rows[t] # None
      BY <1>1, <2>3 DEF ConsumeShape, StampShape
    <2>. QED BY <1>1, <2>4 DEF CapInv, OwnerOK
  <1>2. CapInv /\ StepShape =>
          [\A t \in Tokens :
             spentAt[t] = 0 /\ spentAt'[t] # 0 =>
               \E r \in Reqs : req[r].pc = "consume" /\ req[r].tok = t
                                 /\ req[r].client = rows[t].client]_vars
    BY <1>1
  <1>. QED BY <1>2, InitCapInv, NextCapInv, PTL DEF Spec, SpentByOwner

(* Rotation never carries a session past the absolute lifetime of its      *)
(* login, neither in the expiries stored nor in what is granted.           *)
THEOREM LifetimeIsCapped == Spec => []AbsoluteCap
  <1>1. CapInv => AbsoluteCap
    <2>. SUFFICES ASSUME CapInv PROVE AbsoluteCap
      OBVIOUS
    <2>1. None \notin Families
      BY FamiliesAssumption DEF FamilyIDs
    <2>. QED BY <2>1 DEF CapInv, BeginOK, Begin, AbsoluteCap, Replacing
  <1>. QED BY <1>1, InitCapInv, NextCapInv, PTL DEF Spec

(* What is rotated out of a row that older code wrote without a family     *)
(* carries one, and is capped from the oldest timestamp of that row.       *)
THEOREM LegacyFailsClosed == Spec => []FamilylessFailsClosed
  <1>1. CapInv => FamilylessFailsClosed
    BY DEF CapInv, ForkInv, TypeInv, RowsOK, BeginOK, Begin, FamilylessFailsClosed
  <1>. QED BY <1>1, InitCapInv, NextCapInv, PTL DEF Spec

(* The grace cache answers a duplicate only within the window anchored at  *)
(* the first use, and only with the successor that was handed out.         *)
THEOREM GraceStaysNarrow == Spec => []GraceIsNarrow
  <1>1. CapInv => GraceIsNarrow
    BY DEF CapInv, GraceOK, GraceIsNarrow
  <1>. QED BY <1>1, InitCapInv, NextCapInv, PTL DEF Spec

-----------------------------------------------------------------------------
(* SingleLiveToken.                                                        *)

(* A step after which no token has become live and no rotation has begun   *)
(* leaves every family with one head.                                      *)
LEMMA HeadFrame ==
  ASSUME OneHead, LegacyUnused,
         \A t \in Tokens : rows'[t] # None =>
           /\ rows[t] # None /\ rows'[t].family = rows[t].family
           /\ rows'[t].consumed = 0 => rows[t].consumed = 0,
         \A o \in Reqs : req'[o].pc \in Rotating =>
           req[o].pc \in Rotating /\ req'[o].family = req[o].family
  PROVE  OneHead' /\ LegacyUnused'
  <1>1. \A t \in Tokens : \A f : Live(t, f)' => Live(t, f)
    BY DEF Live
  <1>2. \A o \in Reqs : \A f : Holds(o, f)' => Holds(o, f)
    BY DEF Holds
  <1>3. OneHead'
    BY <1>1, <1>2 DEF OneHead
  <1>4. LegacyUnused'
    BY <1>2, TokensAssumption DEF LegacyUnused
  <1>. QED BY <1>3, <1>4

(* Every step leaves every family with at most one head.                   *)
LEMMA StepOneHead ==
  ASSUME CapInv, OneHead, LegacyUnused, StepShape
  PROVE  OneHead' /\ LegacyUnused'
  <1>0. TypeInv /\ TimeOK /\ SpentOK /\ FoundedOK /\ LegacyTokens \subseteq Tokens
    BY TokensAssumption DEF CapInv, ForkInv
  <1>1. CASE CalmShape
    <2>1. \A o \in Reqs : req'[o].pc \in Rotating => req'[o] = req[o]
      BY <1>1, IdleFields DEF CalmShape, ReadShape, Rotating
    <2>2. \A t \in Tokens : rows'[t] # None => rows'[t] = rows[t]
      BY <1>1 DEF CalmShape
    <2>. QED BY <2>1, <2>2, HeadFrame
  <1>2. ASSUME NEW r \in Reqs, NEW v \in LocalState, Moves(r, v), BusyShape(r, v)
        PROVE  OneHead' /\ LegacyUnused'
    <2>m. req'[r] = v /\ \A o \in Reqs : o # r => req'[o] = req[o]
      BY <1>2 DEF Moves
    <2>1. ASSUME rows' = rows,
                 v.pc \in Rotating => req[r].pc \in Rotating /\ v.family = req[r].family
          PROVE  OneHead' /\ LegacyUnused'
      BY <2>1, <2>m, HeadFrame
    <2>2. CASE ConsumeShape(r, v)
      <3>. DEFINE t == req[r].tok
                  f == v.family
      <3>1. /\ t \in Tokens /\ req[r].pc = "consume" /\ req[r].now \in Nat
            /\ StampShape(t, req[r].now)
        BY <2>2 DEF ConsumeShape, TypeInv, TypeOK, LocalState, CapInv, ForkInv
      <3>2. req[r].now > 0
        BY <1>0, <3>1, TokensAssumption DEF TimeOK
      <3>3. /\ rows'[t] # None => rows'[t].consumed # 0
            /\ \A s \in Tokens : s # t => rows'[s] = rows[s]
        <4>1. CASE rows[t] # None /\ rows'[t] = [rows[t] EXCEPT !.consumed = req[r].now]
          <5>1. rows[t] \in Row
            BY <1>0, <3>1, <4>1 DEF TypeInv, TypeOK
          <5>2. rows'[t].consumed = req[r].now
            BY <3>1, <4>1, <5>1, StampedRow
          <5>. QED BY <3>1, <3>2, <5>2 DEF StampShape
        <4>2. CASE (rows[t] = None \/ rows[t].consumed # 0) /\ rows'[t] = rows[t]
          BY <3>1, <4>2 DEF StampShape
        <4>. QED BY <3>1, <4>1, <4>2 DEF StampShape
      <3>4. \A s \in Tokens : rows'[s] # None => rows[s] # None /\ rows'[s].family = rows[s].family
        BY <1>0, <3>1, StampFields
      <3>5. CASE v.pc \notin Rotating
        BY <2>m, <3>3, <3>4, <3>5, HeadFrame
      <3>6. CASE v.pc \in Rotating
        <4>1. /\ rows[t] # None /\ rows[t].consumed = 0 /\ f \in FamilyIDs
              /\ f = familyToRevoke(rows[t], t)
          BY <2>2, <3>6, IdleFields DEF ConsumeShape, JudgeShape, Rotating
        <4>2. /\ \A o \in Reqs : ~Holds(o, f)
              /\ \A s \in Tokens : s # t => ~Live(s, f)
              /\ \A s \in LegacyTokens : (/\ s # t /\ rows[s] # None /\ rows[s].family = None
                                          /\ rows[s].consumed = 0) => f # legacyFamilyID(s)
          <5>1. CASE rows[t].family # None /\ f = rows[t].family
            <6>1. Live(t, f)
              BY <4>1, <5>1 DEF Live
            <6>. QED BY <3>1, <4>1, <5>1, <6>1 DEF OneHead, LegacyUnused
          <5>2. CASE rows[t].family = None /\ t \in LegacyTokens /\ f = legacyFamilyID(t)
            BY <4>1, <5>2 DEF LegacyUnused, Live, legacyFamilyID
          <5>. QED BY <1>0, <3>1, <4>1, <5>1, <5>2, JudgedFamily
        <4>3. \A s \in Tokens : \A g : Live(s, g)' => s # t /\ Live(s, g)
          BY <3>3 DEF Live
        <4>4. \A o \in Reqs : \A g : Holds(o, g)' => (o # r /\ Holds(o, g)) \/ (o = r /\ g = f)
          BY <2>m DEF Holds
        <4>. HIDE DEF t, f
        <4>5. OneHead'
          BY <4>2, <4>3, <4>4 DEF OneHead
        <4>6. LegacyUnused'
          <5>. SUFFICES ASSUME NEW s \in LegacyTokens, rows'[s] # None, rows'[s].family = None,
                               rows'[s].consumed = 0
                        PROVE  /\ \A u \in Tokens : rows'[u] # None => rows'[u].family # legacyFamilyID(s)
                               /\ \A o \in Reqs : ~Holds(o, legacyFamilyID(s))'
            BY DEF LegacyUnused
          <5>1. s # t /\ rows[s] # None /\ rows[s].family = None /\ rows[s].consumed = 0
            BY <1>0, <3>3
          <5>2. /\ \A u \in Tokens : rows[u] # None => rows[u].family # legacyFamilyID(s)
                /\ \A o \in Reqs : ~Holds(o, legacyFamilyID(s))
            BY <5>1 DEF LegacyUnused
          <5>3. f # legacyFamilyID(s)
            BY <4>2, <5>1
          <5>. QED BY <3>4, <4>4, <5>2, <5>3
        <4>. QED BY <4>5, <4>6
      <3>. QED BY <3>5, <3>6
    <2>3. CASE MintShape(r, v)
      BY <2>1, <2>3 DEF MintShape, Rotating
    <2>4. CASE SaveShape(r, v)
      <3>. DEFINE s == req[r].succ
                  f == req[r].family
      <3>1. /\ req[r].pc = "save" /\ v.pc \notin Rotating
            /\ rows'[s].family = f
            /\ \A t \in Tokens : t # s => rows'[t] = rows[t]
        BY <2>4, IdleFields DEF SaveShape, TokenRow, Rotating
      <3>2. Holds(r, f) /\ f \in FamilyIDs /\ f # None
        BY <1>0, <3>1, FamiliesAssumption DEF Holds, Rotating, TypeInv, LocalsOK, LocalOK
      <3>3. /\ \A t \in Tokens : ~Live(t, f)
            /\ \A o \in Reqs : o # r => ~Holds(o, f)
        BY <3>2 DEF OneHead
      <3>4. \A t \in Tokens : \A g : Live(t, g)' => Live(t, g) \/ (t = s /\ g = f)
        BY <3>1 DEF Live
      <3>5. \A o \in Reqs : \A g : Holds(o, g)' => Holds(o, g) /\ o # r
        BY <2>m, <3>1 DEF Holds
      <3>6. \A t \in LegacyTokens : (/\ rows'[t] # None /\ rows'[t].family = None
                                     /\ rows'[t].consumed = 0) =>
              /\ rows[t] # None /\ rows[t].family = None /\ rows[t].consumed = 0
              /\ f # legacyFamilyID(t)
        BY <1>0, <3>1, <3>2 DEF LegacyUnused
      <3>. HIDE DEF s, f
      <3>7. OneHead'
        BY <3>3, <3>4, <3>5 DEF OneHead
      <3>8. LegacyUnused'
        BY <3>1, <3>5, <3>6 DEF LegacyUnused
      <3>. QED BY <3>7, <3>8
    <2>5. CASE RememberShape(r, v)
      BY <2>1, <2>5, IdleFields DEF RememberShape, Rotating
    <2>6. CASE LoginShape(r, v)
      <3>1. v.family \in Families \ founded /\ rows' = rows
        BY <2>6 DEF LoginShape
      <3>2. /\ \A t \in Tokens : rows[t] # None => rows[t].family # v.family
            /\ \A o \in Reqs : req[o].family # v.family
        BY <1>0, <3>1 DEF FoundedOK
      <3>3. \A t \in Tokens : \A g : Live(t, g)' => Live(t, g) /\ g # v.family
        BY <3>1, <3>2 DEF Live
      <3>4. \A o \in Reqs : \A g : Holds(o, g)' =>
              (o # r /\ Holds(o, g) /\ g # v.family) \/ (o = r /\ g = v.family)
        BY <2>m, <3>2 DEF Holds
      <3>5. OneHead'
        BY <3>3, <3>4 DEF OneHead
      <3>6. \A t \in LegacyTokens : legacyFamilyID(t) # v.family
        BY <3>1, FamiliesAssumption
      <3>7. LegacyUnused'
        BY <3>1, <3>4, <3>6 DEF LegacyUnused
      <3>. QED BY <3>5, <3>7
    <2>7. CASE PresentShape(r, v)
      BY <2>1, <2>7 DEF PresentShape, Rotating
    <2>. QED BY <1>2, <2>2, <2>3, <2>4, <2>5, <2>6, <2>7 DEF BusyShape
  <1>. QED BY <1>1, <1>2, StepCases

(* The invariant of a family's head holds when the servers start ...       *)
LEMMA InitHeadInv == Init => HeadInv
  <1>. SUFFICES ASSUME Init PROVE HeadInv
    OBVIOUS
  <1>1. /\ \A r \in Reqs : req[r].pc = "idle"
        /\ \A t \in Tokens : rows[t] # None => rows[t].family = None
    BY DEF Init, Idle, LegacyRows
  <1>2. \A f \in FamilyIDs : f # None
    BY FamiliesAssumption
  <1>3. \A t \in LegacyTokens : legacyFamilyID(t) # None
    BY <1>2 DEF FamilyIDs
  <1>. QED BY <1>1, <1>2, <1>3, InitCapInv DEF HeadInv, OneHead, LegacyUnused, Live, Holds, Rotating

(* ... and is inductive.                                                   *)
LEMMA NextHeadInv == HeadInv /\ [Next]_vars => HeadInv'
  BY NextCapInv, StepOneHead DEF HeadInv

(* A family has at most one unused token in the store at any time, with    *)
(* either store, for families that logins found and for those derived from *)
(* familyless rows: a stolen token cannot be forked into two chains.       *)
THEOREM OneLiveToken == Spec => []SingleLiveToken
  <1>1. HeadInv => SingleLiveToken
    <2>. SUFFICES ASSUME HeadInv, NEW t \in Tokens, NEW s \in Tokens,
                         rows[t] # None, rows[s] # None, rows[t].family = rows[s].family,
                         rows[t].family # None, rows[t].consumed = 0, rows[s].consumed = 0
                  PROVE  t = s
      BY DEF SingleLiveToken
    <2>1. rows[t].family \in FamilyIDs
      BY DEF HeadInv, CapInv, ForkInv, TypeInv, TypeOK, Row
    <2>. QED BY <2>1 DEF HeadInv, OneHead, Live
  <1>. QED BY <1>1, InitHeadInv, NextHeadInv, PTL DEF Spec

-----------------------------------------------------------------------------
(* GraceBounded.                                                           *)

Held(n) == {t \in Tokens : grace[n][t].succ # None}

BoundInv == TypeInv /\ \A n \in Nodes : IsFiniteSet(Held(n)) /\ Cardinality(Held(n)) <= MaxGraceEntries

(* Only rememberSuccessor adds to a cache.                                 *)
LEMMA GraceGrows ==
  ASSUME TypeInv, [Next]_vars
  PROVE  GraceFades \/ \E r \in Reqs : Remember(r)
  <1>q. grace' = grace => GraceFades
    BY DEF GraceFades
  <1>1. ASSUME NEW r \in Reqs, Recall(r)
        PROVE  GraceFades
    <2>1. req[r].node \in Nodes /\ req[r].tok \in Tokens
      BY <1>1 DEF Recall, TypeInv, TypeOK, LocalsOK, LocalOK
    <2>2. CASE grace' = [grace EXCEPT ![req[r].node][req[r].tok] = NoEntry]
      BY <2>1, <2>2 DEF GraceFades, TypeInv, TypeOK
    <2>. QED BY <1>1, <1>q, <2>2 DEF Recall
  <1>2. ASSUME NEW n \in Nodes, Crash(n)
        PROVE  GraceFades
    BY <1>2 DEF Crash, GraceFades, TypeInv, TypeOK
  <1>3. ASSUME NEW r \in Reqs, Handle(r) \/ StoreFault(r), ~Recall(r), ~Remember(r)
        PROVE  grace' = grace
    BY <1>3 DEF Handle, Bind, Consume, Peek, PeekFails, Mint, Save, Reread, Revoke, RevokeScan,
          RevokeCommit, RevokeUserCommit, StoreFault, Fails
  <1>4. ASSUME NEW r \in Reqs, NEW n \in Nodes, NEW c \in Clients,
               (\E u \in Users : Login(r, n, c, u)) \/ \E t \in Tokens : Present(r, n, t, c)
        PROVE  grace' = grace
    BY <1>4 DEF Login, Present
  <1>6. ASSUME NEW r \in Reqs, NEW n \in Nodes, NEW u \in Leavers, RevokeUserScan(r, n, u)
        PROVE  grace' = grace
    BY <1>6 DEF RevokeUserScan
  <1>5. (\E n \in Nodes : Purge(n)) \/ (\E u \in Leavers : RevokeUser(u)) \/ Tick \/ UNCHANGED vars
          => grace' = grace
    BY DEF Purge, RevokeUser, Tick, vars, program
  <1>. QED BY <1>q, <1>1, <1>2, <1>3, <1>4, <1>5, <1>6 DEF Next

(* There is room for the new entry among those that rememberSuccessor      *)
(* keeps, whatever the cache held.                                         *)
LEMMA SurvivorsLeaveRoom ==
  ASSUME NEW entries, NEW now,
         IsFiniteSet({t \in Tokens : entries[t].succ # None}),
         NEW S \in Survivors(entries, now)
  PROVE  IsFiniteSet(S) /\ Cardinality(S) + 1 <= MaxGraceEntries
  <1>. DEFINE H == {t \in Tokens : entries[t].succ # None}
              Kept == IF Cardinality(H) >= MaxGraceEntries
                      THEN {t \in H : now <= entries[t].until} ELSE H
              Excess == IF Cardinality(Kept) >= MaxGraceEntries
                        THEN Cardinality(Kept) - (MaxGraceEntries - 1) ELSE 0
  <1>1. Kept \in SUBSET H /\ IsFiniteSet(H)
    OBVIOUS
  <1>2. IsFiniteSet(Kept)
    BY <1>1, FS_Subset
  <1>3. S \in SUBSET Kept /\ Cardinality(Kept \ S) = Excess
    BY DEF Survivors
  <1>. HIDE DEF Kept
  <1>4. IsFiniteSet(S) /\ Cardinality(S) \in Nat /\ Cardinality(Kept) \in Nat
    BY <1>2, <1>3, FS_Subset, FS_CardinalityType
  <1>5. Kept \cap S = S
    BY <1>3
  <1>6. Cardinality(Kept \ S) = Cardinality(Kept) - Cardinality(S)
    BY <1>2, <1>5, FS_Difference
  <1>. QED BY <1>3, <1>4, <1>6, CacheAssumption

(* The bound on the caches is inductive.                                   *)
LEMMA NextBoundInv == BoundInv /\ [Next]_vars => BoundInv'
  <1>. SUFFICES ASSUME BoundInv, [Next]_vars PROVE BoundInv'
    OBVIOUS
  <1>0. TypeInv /\ TypeInv' /\ MaxGraceEntries \in Nat
    BY NextTypeInv, CacheAssumption DEF BoundInv
  <1>1. ASSUME NEW n \in Nodes, Held(n)' \subseteq Held(n)
        PROVE  IsFiniteSet(Held(n)') /\ Cardinality(Held(n)') <= MaxGraceEntries
    <2>1. /\ IsFiniteSet(Held(n)') /\ Cardinality(Held(n)') <= Cardinality(Held(n))
          /\ Cardinality(Held(n)') \in Nat /\ Cardinality(Held(n)) \in Nat
      BY <1>1, FS_Subset, FS_CardinalityType DEF BoundInv
    <2>. QED BY <1>0, <2>1 DEF BoundInv
  <1>2. CASE GraceFades
    <2>1. \A n \in Nodes : Held(n)' \subseteq Held(n)
      BY <1>2 DEF GraceFades, Held, NoEntry
    <2>. QED BY <1>0, <1>1, <2>1 DEF BoundInv
  <1>3. ASSUME NEW r \in Reqs, Remember(r)
        PROVE  BoundInv'
    <2>0. PICK m \in Nodes : m = req[r].node
      BY <1>0, <1>3 DEF Remember, TypeInv, LocalsOK, LocalOK
    <2>1. CASE grace' = grace
      BY <1>0, <2>1 DEF BoundInv, Held
    <2>2. ASSUME NEW S \in Survivors(grace[req[r].node], req[r].at),
                 grace' = [grace EXCEPT ![req[r].node] =
                   [t \in Tokens |-> IF t = req[r].tok
                                     THEN [succ |-> req[r].succ, until |-> req[r].at + GracePeriod]
                                     ELSE IF t \in S THEN grace[req[r].node][t] ELSE NoEntry]]
          PROVE  BoundInv'
      <3>1. IsFiniteSet(S) /\ Cardinality(S) + 1 <= MaxGraceEntries /\ Cardinality(S) \in Nat
        <4>1. IsFiniteSet({t \in Tokens : grace[req[r].node][t].succ # None})
          BY <2>0 DEF BoundInv, Held
        <4>2. IsFiniteSet(S) /\ Cardinality(S) + 1 <= MaxGraceEntries
          BY <4>1, SurvivorsLeaveRoom
        <4>. QED BY <4>2, FS_CardinalityType
      <3>2. PICK K : K = S \cup {req[r].tok}
        OBVIOUS
      <3>3. IsFiniteSet(K) /\ Cardinality(K) <= MaxGraceEntries /\ Cardinality(K) \in Nat
        <4>1. IsFiniteSet(K) /\ Cardinality(K) \in {Cardinality(S), Cardinality(S) + 1}
          BY <3>1, <3>2, FS_AddElement
        <4>. QED BY <1>0, <3>1, <4>1
      <3>4. \A t \in Tokens : grace'[m][t].succ # None => t \in K
        BY <1>0, <2>0, <2>2, <3>2 DEF TypeInv, TypeOK, NoEntry
      <3>5. Held(m)' \subseteq K
        BY <3>4 DEF Held
      <3>6. IsFiniteSet(Held(m)') /\ Cardinality(Held(m)') <= MaxGraceEntries
        <4>1. /\ IsFiniteSet(Held(m)') /\ Cardinality(Held(m)') <= Cardinality(K)
              /\ Cardinality(Held(m)') \in Nat
          BY <3>3, <3>5, FS_Subset, FS_CardinalityType
        <4>. QED BY <1>0, <3>3, <4>1
      <3>7. \A n \in Nodes : n # m => Held(n)' = Held(n)
        BY <1>0, <2>0, <2>2 DEF Held, TypeInv, TypeOK
      <3>8. \A n \in Nodes : IsFiniteSet(Held(n)') /\ Cardinality(Held(n)') <= MaxGraceEntries
        <4>. TAKE n \in Nodes
        <4>1. CASE n = m
          BY <3>6, <4>1, Zenon
        <4>2. CASE n # m
          BY <1>1, <3>7, <4>2
        <4>. QED BY <4>1, <4>2
      <3>. QED BY <1>0, <3>8 DEF BoundInv
    <2>. QED BY <1>3, <2>1, <2>2 DEF Remember
  <1>. QED BY <1>0, <1>2, <1>3, GraceGrows

(* No instance ever remembers more than maxGraceEntries rotations, however *)
(* many tokens rotate within a grace period and however large the table.   *)
THEOREM CacheIsBounded == Spec => []GraceBounded
  <1>1. Init => BoundInv
    <2>. SUFFICES ASSUME Init PROVE BoundInv
      OBVIOUS
    <2>1. \A n \in Nodes : Held(n) = {}
      BY DEF Init, Held, NoEntry
    <2>. QED BY <2>1, InitTypeInv, FS_EmptySet, CacheAssumption DEF BoundInv
  <1>2. BoundInv => GraceBounded
    BY DEF BoundInv, Held, GraceBounded
  <1>. QED BY <1>1, <1>2, NextBoundInv, PTL DEF Spec
=============================================================================
