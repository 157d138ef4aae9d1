------------------------- MODULE RefreshGrantProofs -------------------------
(***************************************************************************)
(* Proofs about RefreshGrant, for every number of nodes, requests, tokens, *)
(* families, clients and users and every setting of the lifetimes.         *)
(***************************************************************************)
EXTENDS RefreshGrant, TLAPS

Rotating == {"mint", "save"}
Issuing == {"save", "reread", "remember"}

(* What the locals q of a request hold at each step.                       *)
LocalOK(q) ==
    /\ q.pc # "idle" => q.node \in Nodes
    /\ q.pc \notin {"idle", "logout"} => q.client \in Clients
    /\ q.pc \in {"bind", "consume", "recall", "peek", "reread", "undo", "remember"} =>
         q.tok \in issued
    /\ q.pc \in Rotating => /\ q.user \in Users
                            /\ q.family \in FamilyIDs
                            /\ q.tok \in issued \cup {None}
    /\ q.pc \in {"recall", "peek", "revoke", "deleting", "reread", "undo", "remember"} =>
         q.family \in FamilyIDs
    /\ q.pc \in Issuing => q.succ \in minted /\ lineage[q.succ].family = q.family
    /\ q.pc \in {"deleting", "logout"} => ~AtomicRevoke

LocalsOK == \A r \in Reqs : LocalOK(req[r])

(* A row belongs to a token that was drawn, and carries its family; only   *)
(* rows written by older code carry none.                                  *)
RowsOK ==
    /\ issued \subseteq minted
    /\ \A t \in Tokens : rows[t] # None =>
         /\ t \in minted
         /\ rows[t].family = None => t \in LegacyTokens
         /\ rows[t].family # None => lineage[t].family = rows[t].family
    /\ \A t \in LegacyTokens : t \in minted /\ lineage[t].family \notin Families

TypeInv == TypeOK /\ LocalsOK /\ RowsOK

-----------------------------------------------------------------------------
(* A family in use was founded by a login, and all its tokens are its      *)
(* user's.                                                                 *)
OriginOK ==
    /\ \A t \in Tokens : rows[t] # None /\ rows[t].family \in Families =>
         rows[t].family \in founded /\ rows[t].user = origin[rows[t].family].user
    /\ \A r \in Reqs : req[r].family \in Families =>
         /\ req[r].family \in founded
         /\ req[r].pc \in Rotating => req[r].user = origin[req[r].family].user
    /\ \A f \in revoked : f \in Families => f \in founded

(* A login whose token is not stored yet has its family to itself.         *)
LoginOK ==
    \A r \in Reqs : req[r].pc \in Rotating /\ req[r].tok = None =>
      /\ req[r].family \in Families
      /\ req[r].family \notin revoked
      /\ \A t \in Tokens : rows[t] # None => rows[t].family # req[r].family
      /\ \A o \in Reqs : req[o].family = req[r].family => o = r

(* A rotation stays in the family of the token it rotates, its successor   *)
(* is its own until it is handed out, and once the re-read has confirmed   *)
(* the family only a revocation that also deletes the successor can        *)
(* intervene.                                                              *)
RotationOK ==
    \A r \in Reqs :
      /\ (/\ req[r].pc \in {"mint", "save", "reread", "remember"}
          /\ req[r].tok # None /\ req[r].family \in Families) =>
           lineage[req[r].tok].family = req[r].family
      /\ req[r].pc \in Issuing =>
           /\ req[r].succ \notin issued
           /\ \A o \in Reqs : req[o].pc \in Issuing /\ req[o].succ = req[r].succ => o = r
      /\ req[r].pc = "remember" /\ req[r].family \in Families /\ req[r].family \in revoked =>
           rows[req[r].succ] = None

DeadInv == TypeInv /\ OriginOK /\ LoginOK /\ RotationOK /\ RevokedStaysDead

-----------------------------------------------------------------------------
(* The idle request and the rows of older code have their types.           *)
LEMMA IdleType == Idle \in LocalState
  BY DEF Idle, LocalState, Steps

(* The rows older code left are rows (scanRefreshToken).                   *)
LEMMA LegacyRowsType == LegacyRows \subseteq Row
  BY TimesAssumption DEF LegacyRows, Row

(* The family that familyToRevoke yields is a family ID.                   *)
LEMMA FamilyType ==
  ASSUME TypeOK, RowsOK, NEW t \in Tokens, rows[t] # None
  PROVE  familyToRevoke(rows[t], t) \in FamilyIDs
  <1>1. rows[t] \in Row
    BY DEF TypeOK
  <1>2. CASE rows[t].family = None
    BY <1>2 DEF RowsOK, familyToRevoke, FamilyIDs
  <1>3. CASE rows[t].family # None
    BY <1>1, <1>3 DEF Row, familyToRevoke
  <1>. QED BY <1>2, <1>3

(* issueTokenPair's row is a row.                                          *)
LEMMA TokenRowType ==
  ASSUME NEW q \in LocalState, q.client \in Clients, q.user \in Users,
         q.family \in FamilyIDs, NEW now \in Nat
  PROVE  TokenRow(q, now) \in Row
  BY TimesAssumption DEF TokenRow, Row, LocalState

(* Deleting rows (a revocation, a purge) keeps the table a table.          *)
LEMMA WithoutType ==
  ASSUME TypeOK, NEW T
  PROVE  Without(T) \in [Tokens -> Row \cup {None}]
  BY DEF Without, TypeOK

(* An instance's clock, skewed or not, reads a time.                       *)
LEMMA NowType ==
  ASSUME TypeOK, NEW n \in Nodes
  PROVE  Now(n) \in Nat
  BY TimesAssumption DEF Now, TypeOK

(* The type invariant holds when the servers start.                        *)
LEMMA InitTypeInv == Init => TypeInv
  <1>. SUFFICES ASSUME Init PROVE TypeInv
    OBVIOUS
  <1>. USE DEF Init
  <1>1. rows \in [Tokens -> Row \cup {None}]
    BY LegacyRowsType
  <1>2. req \in [Reqs -> LocalState]
    BY IdleType
  <1>3. TypeOK
    BY <1>1, <1>2, TokensAssumption DEF TypeOK, NoEntry, FamilyIDs
  <1>4. LocalsOK
    BY DEF LocalsOK, LocalOK, Idle, Rotating, Issuing
  <1>5. RowsOK
    <2>1. \A t \in Tokens : rows[t] # None => rows[t].family = None /\ t \in LegacyTokens
      BY DEF LegacyRows
    <2>. QED BY <2>1, TokensAssumption, FamiliesAssumption DEF RowsOK
  <1>. QED BY <1>3, <1>4, <1>5 DEF TypeInv

(* A step of one request leaves the locals of the others alone.            *)
LEMMA BecomeEffect ==
  ASSUME TypeOK, NEW r \in Reqs, NEW v \in LocalState, Become(r, v)
  PROVE  /\ req' \in [Reqs -> LocalState]
         /\ req'[r] = v
         /\ \A o \in Reqs : o # r => req'[o] = req[o]
  BY DEF TypeOK, Become

(* Locals stay well formed while `issued' and `minted' grow.               *)
LEMMA LocalsStep ==
  ASSUME TypeOK, LocalsOK, issued \subseteq issued', minted \subseteq minted',
         \A t \in minted : lineage'[t] = lineage[t],
         NEW r \in Reqs, NEW v \in LocalState, Become(r, v), LocalOK(v)'
  PROVE  LocalsOK'
  <1>1. \A o \in Reqs : o # r => LocalOK(req[o])'
    BY BecomeEffect DEF LocalsOK, LocalOK
  <1>. QED BY <1>1, BecomeEffect DEF LocalsOK

(* A request that has been answered has well-formed locals.                *)
LEMMA IdleLocal == LocalOK(Idle)'
  BY DEF LocalOK, Idle, Rotating, Issuing

(* The type of everything but the requests' locals.                        *)
DataOK ==
    /\ clock \in Nat
    /\ rows \in [Tokens -> Row \cup {None}]
    /\ grace \in [Nodes -> [Tokens -> [succ : Tokens \cup {None}, until : Nat]]]
    /\ minted \subseteq Tokens /\ founded \subseteq Families
    /\ issued \subseteq Tokens /\ revoked \subseteq FamilyIDs
    /\ lineage \in [Tokens -> [parent : Tokens \cup {None}, family : FamilyIDs \cup {None}]]
    /\ spentAt \in [Tokens -> Nat]
    /\ origin \in [Families -> [at : Nat, user : Users \cup {None}]]

(* A step of request r keeps the type invariant when its new locals, the   *)
(* history and the rows do.                                                *)
LEMMA TypeStep ==
  ASSUME TypeInv, NEW r \in Reqs, NEW v \in LocalState, Become(r, v), LocalOK(v)',
         issued \subseteq issued', minted \subseteq minted',
         \A t \in minted : lineage'[t] = lineage[t], DataOK', RowsOK'
  PROVE  TypeInv'
  <1>1. LocalsOK'
    BY LocalsStep DEF TypeInv
  <1>2. req' \in [Reqs -> LocalState]
    BY BecomeEffect DEF TypeInv
  <1>. QED BY <1>1, <1>2 DEF TypeInv, TypeOK, DataOK

(* Steps that only read the store.                                         *)
LEMMA ReadStep ==
  ASSUME TypeInv, NEW r \in Reqs, NEW v \in LocalState, Become(r, v), LocalOK(v)',
         UNCHANGED <<clock, rows, minted, founded, history>>,
         (grace \in [Nodes -> [Tokens -> [succ : Tokens \cup {None}, until : Nat]]])'
  PROVE  TypeInv'
  <1>1. DataOK'
    BY DEF TypeInv, TypeOK, DataOK, history
  <1>2. RowsOK'
    BY DEF TypeInv, RowsOK, history
  <1>. QED BY <1>1, <1>2, TypeStep DEF history

(* The rows a step adds or removes leave RowsOK.                           *)
LEMMA RowsShrink ==
  ASSUME TypeInv, NEW T, rows' = Without(T), UNCHANGED <<minted, issued, lineage>>
  PROVE  RowsOK' /\ rows' \in [Tokens -> Row \cup {None}]
  <1>1. \A t \in Tokens : rows'[t] = None \/ rows'[t] = rows[t]
    BY DEF Without
  <1>2. RowsOK'
    BY <1>1 DEF TypeInv, RowsOK
  <1>. QED BY <1>2, WithoutType DEF TypeInv

(* Where Judge sends a request.                                            *)
LEMMA JudgeCases ==
  ASSUME TypeInv, NEW r \in Reqs, req[r].pc = "consume"
  PROVE  LET t == req[r].tok
             v == Judge(req[r], rows[t])
             f == familyToRevoke(rows[t], t)
         IN /\ t \in Tokens
            /\ \/ v = Idle
               \/ /\ rows[t] # None /\ f \in FamilyIDs
                  /\ \/ v = [req[r] EXCEPT !.pc = "recall", !.family = f]
                     \/ v = [req[r] EXCEPT !.pc = "revoke", !.family = f]
               \/ /\ rows[t] # None /\ f \in FamilyIDs /\ rows[t].consumed = 0
                  /\ req[r].now < rows[t].expires
                  /\ ~PastAbsoluteTTL(rows[t], req[r].now)
                  /\ rows[t].client = req[r].client
                  /\ v = [req[r] EXCEPT !.pc = "mint", !.user = rows[t].user,
                            !.start = familyStart(rows[t]), !.family = f]
  <1>1. req[r].tok \in Tokens
    BY DEF TypeInv, LocalsOK, LocalOK, TypeOK
  <1>2. CASE rows[req[r].tok] = None
    BY <1>1, <1>2 DEF Judge
  <1>3. CASE rows[req[r].tok] # None
    <2>1. familyToRevoke(rows[req[r].tok], req[r].tok) \in FamilyIDs
      BY <1>1, <1>3, FamilyType DEF TypeInv
    <2>2. /\ rows[req[r].tok].consumed \in Nat /\ rows[req[r].tok].expires \in Nat
          /\ req[r].now \in Nat
      BY <1>1, <1>3 DEF TypeInv, TypeOK, Row, LocalState
    <2>3. CASE rows[req[r].tok].consumed # 0
      BY <1>1, <1>3, <2>1, <2>3 DEF Judge
    <2>4. CASE rows[req[r].tok].consumed = 0
      BY <1>1, <1>3, <2>1, <2>2, <2>4 DEF Judge
    <2>. QED BY <2>3, <2>4
  <1>. QED BY <1>2, <1>3

(* ConsumeRefreshToken changes nothing of a row but its consumed_at.       *)
LEMMA StampedRow ==
  ASSUME NEW w \in Row, NEW n \in Nat
  PROVE  /\ [w EXCEPT !.consumed = n] \in Row
         /\ [w EXCEPT !.consumed = n].family = w.family
         /\ [w EXCEPT !.consumed = n].user = w.user
         /\ [w EXCEPT !.consumed = n].client = w.client
         /\ [w EXCEPT !.consumed = n].created = w.created
         /\ [w EXCEPT !.consumed = n].expires = w.expires
         /\ [w EXCEPT !.consumed = n].familyCreated = w.familyCreated
         /\ [w EXCEPT !.consumed = n].familyExpires = w.familyExpires
         /\ [w EXCEPT !.consumed = n].consumed = n
  BY DEF Row

(* The locals of a request Judge sends on.                                 *)
LEMMA JudgeEffect ==
  ASSUME TypeInv, NEW r \in Reqs, req[r].pc = "consume",
         NEW v, v = Judge(req[r], rows[req[r].tok])
  PROVE  /\ req[r].tok \in Tokens
         /\ v \in LocalState
         /\ \/ v = Idle
            \/ /\ rows[req[r].tok] # None
               /\ v.family = familyToRevoke(rows[req[r].tok], req[r].tok)
               /\ v.family \in FamilyIDs /\ v.node = req[r].node /\ v.tok = req[r].tok
               /\ v.client = req[r].client /\ v.now = req[r].now
               /\ \/ v.pc \in {"recall", "revoke"}
                  \/ /\ v.pc = "mint" /\ rows[req[r].tok].consumed = 0
                     /\ req[r].now < rows[req[r].tok].expires
                     /\ ~PastAbsoluteTTL(rows[req[r].tok], req[r].now)
                     /\ v.user = rows[req[r].tok].user /\ v.user \in Users
                     /\ v.start = familyStart(rows[req[r].tok])
  <1>0. req[r] \in LocalState /\ req[r].tok \in Tokens /\ Idle \in LocalState
    BY IdleType, JudgeCases DEF TypeInv, TypeOK
  <1>1. CASE v = Idle
    BY <1>0, <1>1
  <1>2. CASE v # Idle
    <2>1. /\ rows[req[r].tok] # None
          /\ familyToRevoke(rows[req[r].tok], req[r].tok) \in FamilyIDs
      BY <1>2, JudgeCases
    <2>2. PICK f \in FamilyIDs : f = familyToRevoke(rows[req[r].tok], req[r].tok)
      BY <2>1
    <2>3. PICK u \in Users, w \in Nat : /\ u = rows[req[r].tok].user
                                        /\ w = familyStart(rows[req[r].tok])
      BY <1>0, <2>1 DEF TypeInv, TypeOK, Row, familyStart
    <2>4. CASE \E pc \in {"recall", "revoke"} : v = [req[r] EXCEPT !.pc = pc, !.family = f]
      <3>1. PICK pc \in {"recall", "revoke"} : v = [req[r] EXCEPT !.pc = pc, !.family = f]
        BY <2>4
      <3>3. /\ v \in LocalState /\ v.pc = pc /\ v.family = f /\ v.node = req[r].node
            /\ v.tok = req[r].tok /\ v.client = req[r].client /\ v.now = req[r].now
        BY <1>0, <3>1 DEF LocalState, Steps
      <3>. QED BY <1>0, <2>1, <2>2, <3>1, <3>3
    <2>5. CASE v = [req[r] EXCEPT !.pc = "mint", !.user = u, !.start = w, !.family = f]
      <3>1. /\ v \in LocalState /\ v.pc = "mint" /\ v.family = f /\ v.node = req[r].node
            /\ v.tok = req[r].tok /\ v.client = req[r].client /\ v.now = req[r].now
            /\ v.user = u /\ v.start = w
        <4>1. v \in LocalState
          BY <1>0, <2>5 DEF LocalState, Steps
        <4>2. v.pc = "mint" /\ v.family = f /\ v.user = u /\ v.start = w
          BY <1>0, <2>5 DEF LocalState
        <4>3. /\ v.node = req[r].node /\ v.tok = req[r].tok
              /\ v.client = req[r].client /\ v.now = req[r].now
          BY <1>0, <2>5 DEF LocalState
        <4>. QED BY <4>1, <4>2, <4>3
      <3>2. /\ rows[req[r].tok].consumed = 0 /\ req[r].now < rows[req[r].tok].expires
            /\ ~PastAbsoluteTTL(rows[req[r].tok], req[r].now)
        <4>1. v # [req[r] EXCEPT !.pc = "recall", !.family = f]
          BY <1>0, <3>1 DEF LocalState
        <4>2. v # [req[r] EXCEPT !.pc = "revoke", !.family = f]
          BY <1>0, <3>1 DEF LocalState
        <4>. QED BY <1>2, <2>2, <4>1, <4>2, JudgeCases
      <3>. QED BY <1>0, <2>1, <2>2, <2>3, <3>1, <3>2
    <2>. QED BY <1>2, <2>2, <2>3, <2>4, <2>5, JudgeCases
  <1>. QED BY <1>1, <1>2

(* Consuming a token and judging it keeps the type invariant.              *)
LEMMA ConsumeTypeInv ==
  ASSUME TypeInv, NEW r \in Reqs, req[r].pc = "consume", Stamp(req[r].tok, req[r].now),
         Become(r, Judge(req[r], rows[req[r].tok])) \/ Answer(r),
         UNCHANGED <<clock, grace, minted, founded, issued, revoked, lineage, origin>>
  PROVE  TypeInv'
  <1>1. /\ req[r] \in LocalState /\ LocalOK(req[r]) /\ Idle \in LocalState
        /\ req[r].tok \in Tokens
    BY IdleType, JudgeCases DEF TypeInv, TypeOK, LocalsOK
  <1>2. PICK v \in LocalState : Become(r, v) /\ (v = Idle \/ v = Judge(req[r], rows[req[r].tok]))
    BY <1>1, JudgeEffect DEF Answer
  <1>3. LocalOK(v)'
    <2>1. CASE v = Idle
      BY <2>1, IdleLocal
    <2>2. CASE v # Idle
      <3>1. /\ v.pc \in {"recall", "revoke", "mint"} /\ v.family \in FamilyIDs
            /\ v.pc = "mint" => v.user \in Users
            /\ v.tok = req[r].tok /\ v.client = req[r].client /\ v.node = req[r].node
        BY <1>2, <2>2, JudgeEffect
      <3>. QED BY <1>1, <3>1 DEF LocalOK, Rotating, Issuing
    <2>. QED BY <2>1, <2>2
  <1>4. /\ rows' \in [Tokens -> Row \cup {None}]
        /\ spentAt' \in [Tokens -> Nat]
        /\ \A t \in Tokens : /\ rows'[t] = None <=> rows[t] = None
                             /\ rows[t] # None => rows'[t].family = rows[t].family
    <2>1. req[r].now \in Nat
      BY <1>1 DEF LocalState
    <2>2. CASE rows[req[r].tok] # None /\ rows[req[r].tok].consumed = 0
      <3>1. rows[req[r].tok] \in Row
        BY <1>1, <2>2 DEF TypeInv, TypeOK
      <3>2. PICK w \in Row : /\ w = [rows[req[r].tok] EXCEPT !.consumed = req[r].now]
                             /\ w.family = rows[req[r].tok].family
        BY <2>1, <3>1, StampedRow
      <3>3. rows' = [rows EXCEPT ![req[r].tok] = w]
        BY <2>2, <3>2 DEF Stamp
      <3>4. spentAt' = [spentAt EXCEPT ![req[r].tok] = req[r].now]
        BY <2>2 DEF Stamp
      <3>. QED BY <1>1, <2>1, <2>2, <3>2, <3>3, <3>4, RowAssumption DEF TypeInv, TypeOK
    <2>3. CASE ~(rows[req[r].tok] # None /\ rows[req[r].tok].consumed = 0)
      BY <2>3 DEF Stamp, TypeInv, TypeOK
    <2>. QED BY <2>2, <2>3
  <1>5. DataOK'
    BY <1>4 DEF TypeInv, TypeOK, DataOK
  <1>6. RowsOK'
    BY <1>4 DEF TypeInv, RowsOK
  <1>. QED BY <1>2, <1>3, <1>5, <1>6, TypeStep

(* Writing issueTokenPair's row keeps the type invariant.                  *)
LEMMA SaveTypeInv ==
  ASSUME TypeInv, NEW r \in Reqs, req[r].pc = "save",
         rows' = [rows EXCEPT ![req[r].succ] = TokenRow(req[r], req[r].at)],
         NEW v \in LocalState, Become(r, v), LocalOK(v)',
         issued' \in {issued, issued \cup {req[r].succ}},
         UNCHANGED <<clock, grace, minted, founded, revoked, lineage, spentAt, origin>>
  PROVE  TypeInv'
  <1>1. /\ req[r] \in LocalState /\ LocalOK(req[r])
        /\ req[r].succ \in minted /\ req[r].succ \in Tokens
        /\ lineage[req[r].succ].family = req[r].family
    BY DEF TypeInv, TypeOK, LocalsOK, LocalOK, Issuing
  <1>2. PICK w \in Row : w = TokenRow(req[r], req[r].at) /\ w.family = req[r].family
    <2>1. TokenRow(req[r], req[r].at) \in Row
      BY <1>1, TokenRowType DEF LocalState, LocalOK, Rotating
    <2>. QED BY <2>1 DEF TokenRow
  <1>3. w.family # None
    BY <1>1, <1>2, FamiliesAssumption DEF LocalOK, Rotating
  <1>4. rows' = [rows EXCEPT ![req[r].succ] = w]
    BY <1>2
  <1>5. DataOK'
    BY <1>1, <1>4 DEF TypeInv, TypeOK, DataOK
  <1>6. RowsOK'
    BY <1>1, <1>2, <1>3, <1>4 DEF TypeInv, TypeOK, RowsOK
  <1>. QED BY <1>5, <1>6, TypeStep

(* The invariant is preserved by a request's steps ...                     *)
LEMMA HandleTypeInv ==
  ASSUME TypeInv, NEW r \in Reqs, Handle(r) \/ StoreFault(r)
  PROVE  TypeInv'
  <1>0. /\ req[r] \in LocalState /\ LocalOK(req[r])
        /\ Idle \in LocalState
        /\ grace \in [Nodes -> [Tokens -> [succ : Tokens \cup {None}, until : Nat]]]
    BY IdleType DEF TypeInv, TypeOK, LocalsOK
  <1>r. ASSUME Answer(r), UNCHANGED <<clock, rows, grace, minted, founded, history>>
        PROVE  TypeInv'
    BY <1>0, <1>r, IdleLocal, ReadStep DEF Answer
  <1>g. ASSUME NEW pc \in Steps, Goto(r, pc), req[r].pc \in {"bind", "peek", "reread"},
               req[r].pc = "bind" => pc = "consume",
               req[r].pc = "peek" => pc = "revoke",
               req[r].pc = "reread" => pc \in {"remember", "undo"},
               UNCHANGED <<clock, rows, grace, minted, founded, history>>
        PROVE  TypeInv'
    <2>1. PICK v \in LocalState : v = [req[r] EXCEPT !.pc = pc]
      BY <1>0, <1>g DEF LocalState
    <2>2. LocalOK(v)'
      BY <1>0, <1>g, <2>1 DEF LocalOK, LocalState, Rotating, Issuing, history
    <2>. QED BY <1>0, <1>g, <2>1, <2>2, ReadStep DEF Goto
  <1>1. CASE Bind(r)
    BY <1>1, <1>r, <1>g DEF Bind, Steps
  <1>2. CASE Consume(r)
    BY <1>2, ConsumeTypeInv DEF Consume
  <1>3. CASE Recall(r)
    <2>1. CASE Answer(r) /\ grace' = grace
      BY <1>3, <1>r, <2>1 DEF Recall
    <2>2. CASE Answer(r) /\ grace' = [grace EXCEPT ![req[r].node][req[r].tok] = NoEntry]
      <3>1. grace' \in [Nodes -> [Tokens -> [succ : Tokens \cup {None}, until : Nat]]]
        BY <1>0, <2>2 DEF NoEntry
      <3>. QED BY <1>0, <1>3, <2>2, <3>1, IdleLocal, ReadStep DEF Answer, Recall
    <2>3. CASE /\ grace' = grace
               /\ Become(r, [req[r] EXCEPT !.pc = "peek",
                                           !.succ = grace[req[r].node][req[r].tok].succ])
      <3>1. PICK s \in Tokens \cup {None} : s = grace[req[r].node][req[r].tok].succ
        <4>1. req[r].node \in Nodes /\ req[r].tok \in Tokens
          BY <1>0, <1>3 DEF Recall, LocalOK, TypeInv, TypeOK
        <4>. QED BY <1>0, <4>1
      <3>2. PICK v \in LocalState : v = [req[r] EXCEPT !.pc = "peek", !.succ = s]
        BY <1>0 DEF LocalState, Steps
      <3>3. LocalOK(v)'
        BY <1>0, <1>3, <3>2 DEF Recall, LocalOK, LocalState, Rotating, Issuing, history
      <3>. QED BY <1>0, <1>3, <2>3, <3>1, <3>2, <3>3, ReadStep DEF Recall
    <2>. QED BY <1>3, <2>1, <2>2, <2>3 DEF Recall
  <1>4. CASE Peek(r)
    BY <1>4, <1>r, <1>g DEF Peek, Steps
  <1>5. CASE PeekFails(r)
    BY <1>5, <1>g DEF PeekFails, Steps
  <1>6. CASE Mint(r)
    <2>1. CASE Answer(r) /\ UNCHANGED <<minted, lineage>>
      BY <1>6, <1>r, <2>1 DEF Mint, history
    <2>2. ASSUME NEW s \in Tokens \ minted,
                 minted' = minted \cup {s},
                 lineage' = [lineage EXCEPT ![s] = [parent |-> req[r].tok, family |-> req[r].family]],
                 Become(r, [req[r] EXCEPT !.pc = "save", !.succ = s, !.at = Now(req[r].node)])
          PROVE  TypeInv'
      <3>1. req[r].node \in Nodes /\ req[r].tok \in Tokens \cup {None}
        BY <1>0, <1>6 DEF Mint, LocalOK, Rotating, TypeInv, TypeOK, LocalState
      <3>2. PICK w \in Nat : w = Now(req[r].node)
        BY <3>1, NowType DEF TypeInv
      <3>3. PICK v \in LocalState : v = [req[r] EXCEPT !.pc = "save", !.succ = s, !.at = w]
        BY <1>0, <2>2 DEF LocalState, Steps
      <3>4. PICK x \in [parent : Tokens \cup {None}, family : FamilyIDs \cup {None}] :
              x = [parent |-> req[r].tok, family |-> req[r].family]
        BY <1>0, <3>1 DEF LocalState
      <3>5. lineage' = [lineage EXCEPT ![s] = x]
        BY <2>2, <3>4
      <3>6. /\ lineage' \in [Tokens -> [parent : Tokens \cup {None}, family : FamilyIDs \cup {None}]]
            /\ lineage'[s].family = req[r].family
            /\ \A t \in Tokens : t # s => lineage'[t] = lineage[t]
        BY <2>2, <3>4, <3>5 DEF TypeInv, TypeOK
      <3>7. LocalOK(v)'
        <4>1. /\ v.pc = "save" /\ v.succ = s /\ v.node = req[r].node /\ v.client = req[r].client
              /\ v.tok = req[r].tok /\ v.user = req[r].user /\ v.family = req[r].family
          BY <1>0, <3>3 DEF LocalState
        <4>2. s \in minted' /\ lineage'[v.succ].family = v.family
          BY <2>2, <3>6, <4>1
        <4>3. /\ req[r].node \in Nodes /\ req[r].client \in Clients /\ req[r].user \in Users
              /\ req[r].family \in FamilyIDs /\ req[r].tok \in issued' \cup {None}
          BY <1>0, <1>6 DEF Mint, LocalOK, Rotating
        <4>. QED BY <4>1, <4>2, <4>3 DEF LocalOK, Rotating, Issuing
      <3>8. DataOK'
        BY <1>6, <2>2, <3>6 DEF Mint, TypeInv, TypeOK, DataOK
      <3>9. RowsOK'
        <4>1. \A t \in minted : lineage'[t] = lineage[t]
          BY <2>2, <3>6 DEF TypeInv, TypeOK
        <4>. QED BY <1>6, <2>2, <4>1 DEF Mint, TypeInv, RowsOK
      <3>. QED BY <1>6, <2>2, <3>2, <3>3, <3>6, <3>7, <3>8, <3>9, TypeStep DEF Mint, TypeInv, TypeOK
    <2>. QED BY <1>6, <2>1, <2>2 DEF Mint
  <1>7. CASE Save(r)
    <2>1. CASE Answer(r) /\ issued' = issued \cup {req[r].succ}
      BY <1>0, <1>7, <2>1, IdleLocal, SaveTypeInv DEF Save, Answer
    <2>2. CASE req[r].tok # None /\ Goto(r, "reread") /\ issued' = issued
      <3>1. PICK v \in LocalState : v = [req[r] EXCEPT !.pc = "reread"]
        BY <1>0 DEF LocalState, Steps
      <3>2. LocalOK(v)'
        BY <1>0, <1>7, <2>2, <3>1 DEF Save, LocalOK, LocalState, Rotating, Issuing
      <3>. QED BY <1>7, <2>2, <3>1, <3>2, SaveTypeInv DEF Save, Goto
    <2>. QED BY <1>7, <2>1, <2>2 DEF Save
  <1>8. CASE Reread(r)
    BY <1>8, <1>g DEF Reread, Steps
  <1>9. CASE Remember(r)
    <2>1. req[r].succ \in Tokens /\ req[r].succ \in minted
      BY <1>0, <1>9 DEF Remember, LocalOK, Issuing, TypeInv, TypeOK
    <2>2. grace' \in [Nodes -> [Tokens -> [succ : Tokens \cup {None}, until : Nat]]]
      <3>. DEFINE E == [succ : Tokens \cup {None}, until : Nat]
      <3>1. req[r].at + GracePeriod \in Nat
        BY <1>0, TimesAssumption DEF LocalState
      <3>2. [succ |-> req[r].succ, until |-> req[r].at + GracePeriod] \in E /\ NoEntry \in E
        BY <2>1, <3>1 DEF NoEntry
      <3>3. req[r].node \in Nodes
        BY <1>0, <1>9 DEF Remember, LocalOK
      <3>. HIDE DEF E
      <3>5. grace \in [Nodes -> [Tokens -> E]]
        BY <1>0 DEF E
      <3>6. grace' \in [Nodes -> [Tokens -> E]]
        <4>1. CASE grace' = grace
          BY <3>5, <4>1
        <4>2. ASSUME NEW K, grace' = [grace EXCEPT ![req[r].node] =
                 [t \in Tokens |-> IF t = req[r].tok
                                   THEN [succ |-> req[r].succ, until |-> req[r].at + GracePeriod]
                                   ELSE IF t \in K THEN grace[req[r].node][t] ELSE NoEntry]]
              PROVE  grace' \in [Nodes -> [Tokens -> E]]
          <5>1. PICK e \in E : e = [succ |-> req[r].succ, until |-> req[r].at + GracePeriod]
            BY <3>2
          <5>2. PICK z \in E : z = NoEntry
            BY <3>2
          <5>3. PICK g \in [Tokens -> E] : g = [t \in Tokens |->
                  IF t = req[r].tok THEN e ELSE IF t \in K THEN grace[req[r].node][t] ELSE z]
            BY <3>3, <3>5
          <5>4. grace' = [grace EXCEPT ![req[r].node] = g]
            BY <4>2, <5>1, <5>2, <5>3
          <5>. QED BY <3>5, <5>4
        <4>. QED BY <1>9, <4>1, <4>2 DEF Remember
      <3>. QED BY <3>6 DEF E
    <2>3. DataOK'
      BY <1>9, <2>1, <2>2 DEF Remember, TypeInv, TypeOK, DataOK
    <2>4. RowsOK'
      BY <1>9, <2>1 DEF Remember, TypeInv, RowsOK
    <2>. QED BY <1>0, <1>9, <2>3, <2>4, IdleLocal, TypeStep DEF Remember, Answer
  <1>a. ASSUME NEW T, rows' = Without(T), revoked' = revoked \cup {req[r].family}, Answer(r),
               req[r].pc \in {"revoke", "undo", "deleting"},
               UNCHANGED <<clock, grace, minted, founded, issued, lineage, spentAt, origin>>
        PROVE  TypeInv'
    <2>1. RowsOK' /\ rows' \in [Tokens -> Row \cup {None}]
      BY <1>a, RowsShrink
    <2>2. DataOK'
      BY <1>0, <1>a, <2>1 DEF TypeInv, TypeOK, DataOK, LocalOK
    <2>. QED BY <1>0, <1>a, <2>1, <2>2, IdleLocal, TypeStep DEF Answer
  <1>10. CASE Revoke(r)
    BY <1>10, <1>a DEF Revoke
  <1>11. CASE RevokeScan(r)
    <2>1. PICK V \in SUBSET Tokens : V = FamilyRows(req[r].family)
      BY DEF FamilyRows
    <2>2. PICK v \in LocalState : v = [req[r] EXCEPT !.pc = "deleting", !.victims = V]
      BY <1>0 DEF LocalState, Steps
    <2>3. LocalOK(v)'
      BY <1>0, <1>11, <2>2 DEF RevokeScan, LocalOK, LocalState, Rotating, Issuing, history
    <2>. QED BY <1>0, <1>11, <2>1, <2>2, <2>3, ReadStep DEF RevokeScan
  <1>12. CASE RevokeCommit(r)
    BY <1>12, <1>a DEF RevokeCommit
  <1>14. CASE RevokeUserCommit(r)
    <2>1. RowsOK' /\ rows' \in [Tokens -> Row \cup {None}]
      BY <1>14, RowsShrink DEF RevokeUserCommit
    <2>2. revoked' \subseteq FamilyIDs
      BY <1>14 DEF RevokeUserCommit, TypeInv, TypeOK
    <2>3. DataOK'
      BY <1>14, <2>1, <2>2 DEF RevokeUserCommit, TypeInv, TypeOK, DataOK
    <2>. QED BY <1>0, <1>14, <2>1, <2>3, IdleLocal, TypeStep DEF RevokeUserCommit, Answer
  <1>13. CASE StoreFault(r)
    <2>1. CASE \E call \in {"get", "consume", "save", "revoke", "undo"} : Fails(r, call)
      BY <1>r, <2>1 DEF Fails
    <2>2. CASE /\ req[r].pc = "consume" /\ Stamp(req[r].tok, req[r].now) /\ Answer(r)
               /\ UNCHANGED <<clock, grace, minted, founded, issued, revoked, lineage, origin>>
      BY <2>2, ConsumeTypeInv
    <2>3. CASE /\ req[r].pc = "save" /\ Answer(r)
               /\ rows' = [rows EXCEPT ![req[r].succ] = TokenRow(req[r], req[r].at)]
               /\ UNCHANGED <<clock, grace, minted, founded, history>>
      BY <1>0, <2>3, IdleLocal, SaveTypeInv DEF Answer, history
    <2>. QED BY <1>13, <2>1, <2>2, <2>3 DEF StoreFault
  <1>. QED BY <1>1, <1>2, <1>3, <1>4, <1>5, <1>6, <1>7, <1>8, <1>9, <1>10, <1>11, <1>12, <1>13,
          <1>14 DEF Handle

(* ... by the arrival of requests and by the environment.                  *)
LEMMA NextTypeInv == TypeInv /\ [Next]_vars => TypeInv'
  <1>. SUFFICES ASSUME TypeInv, [Next]_vars PROVE TypeInv'
    OBVIOUS
  <1>0. Idle \in LocalState
    BY IdleType
  <1>1. ASSUME NEW r \in Reqs, Handle(r) \/ StoreFault(r)
        PROVE  TypeInv'
    BY <1>1, HandleTypeInv
  <1>2. ASSUME NEW r \in Reqs, NEW n \in Nodes, NEW c \in Clients, NEW u \in Users,
               Login(r, n, c, u)
        PROVE  TypeInv'
    <2>1. PICK w \in Nat : w = Now(n)
      BY NowType DEF TypeInv
    <2>2. PICK f \in Families \ founded :
            /\ founded' = founded \cup {f}
            /\ origin' = [origin EXCEPT ![f] = [at |-> w, user |-> u]]
            /\ Become(r, [Idle EXCEPT !.pc = "mint", !.node = n, !.client = c, !.user = u,
                                      !.family = f, !.start = w])
      BY <1>2, <2>1 DEF Login
    <2>3. f \in FamilyIDs
      BY DEF FamilyIDs
    <2>4. PICK v \in LocalState :
            v = [Idle EXCEPT !.pc = "mint", !.node = n, !.client = c, !.user = u,
                             !.family = f, !.start = w]
      BY <1>0, <2>3 DEF LocalState, Steps
    <2>5. LocalOK(v)'
      BY <2>3, <2>4 DEF LocalOK, Idle, Rotating, Issuing
    <2>6. DataOK'
      BY <1>2, <2>2 DEF Login, TypeInv, TypeOK, DataOK
    <2>7. RowsOK'
      BY <1>2 DEF Login, TypeInv, RowsOK
    <2>. QED BY <1>2, <2>2, <2>4, <2>5, <2>6, <2>7, TypeStep DEF Login
  <1>3. ASSUME NEW r \in Reqs, NEW n \in Nodes, NEW c \in Clients, NEW t \in Tokens,
               Present(r, n, t, c)
        PROVE  TypeInv'
    <2>1. PICK w \in Nat : w = Now(n)
      BY NowType DEF TypeInv
    <2>2. PICK v \in LocalState :
            v = [Idle EXCEPT !.pc = "bind", !.node = n, !.tok = t, !.client = c, !.now = w]
      BY <1>0 DEF LocalState, Steps
    <2>3. LocalOK(v)'
      BY <1>3, <2>2 DEF Present, LocalOK, Idle, Rotating, Issuing, history
    <2>. QED BY <1>3, <2>1, <2>2, <2>3, ReadStep DEF Present, TypeInv, TypeOK
  <1>4. ASSUME UNCHANGED <<req, issued, minted, lineage>>, DataOK', RowsOK'
        PROVE  TypeInv'
    BY <1>4 DEF TypeInv, TypeOK, DataOK, LocalsOK, LocalOK
  <1>5. ASSUME NEW n \in Nodes, Purge(n)
        PROVE  TypeInv'
    <2>1. RowsOK' /\ rows' \in [Tokens -> Row \cup {None}]
      BY <1>5, RowsShrink DEF Purge, history
    <2>2. DataOK'
      BY <1>5, <2>1 DEF Purge, TypeInv, TypeOK, DataOK, history
    <2>. QED BY <1>4, <1>5, <2>1, <2>2 DEF Purge, history
  <1>10. ASSUME NEW r \in Reqs, NEW n \in Nodes, NEW u \in Users, RevokeUserScan(r, n, u)
        PROVE  TypeInv'
    <2>1. PICK V \in SUBSET Tokens : V = UserRows(u)
      BY DEF UserRows
    <2>2. PICK v \in LocalState :
            v = [Idle EXCEPT !.pc = "logout", !.node = n, !.user = u, !.victims = V]
      BY <1>0 DEF LocalState, Steps
    <2>3. LocalOK(v)'
      BY <1>10, <2>2 DEF RevokeUserScan, LocalOK, Idle, Rotating, Issuing, history
    <2>. QED BY <1>10, <2>1, <2>2, <2>3, ReadStep DEF RevokeUserScan, TypeInv, TypeOK
  <1>6. ASSUME NEW u \in Users, RevokeUser(u)
        PROVE  TypeInv'
    <2>1. RowsOK' /\ rows' \in [Tokens -> Row \cup {None}]
      BY <1>6, RowsShrink DEF RevokeUser
    <2>2. revoked' \subseteq FamilyIDs
      BY <1>6, FamilyType DEF RevokeUser, UserRows, TypeInv, TypeOK
    <2>3. DataOK'
      BY <1>6, <2>1, <2>2 DEF RevokeUser, TypeInv, TypeOK, DataOK
    <2>. QED BY <1>4, <1>6, <2>1, <2>3 DEF RevokeUser
  <1>7. ASSUME NEW n \in Nodes, Crash(n)
        PROVE  TypeInv'
    <2>1. grace' \in [Nodes -> [Tokens -> [succ : Tokens \cup {None}, until : Nat]]]
      BY <1>7 DEF Crash, NoEntry, TypeInv, TypeOK
    <2>2. DataOK'
      BY <1>7, <2>1 DEF Crash, TypeInv, TypeOK, DataOK, history
    <2>3. RowsOK'
      BY <1>7 DEF Crash, TypeInv, RowsOK, history
    <2>4. req' \in [Reqs -> LocalState] /\ \A r \in Reqs : req'[r] = Idle \/ req'[r] = req[r]
      BY <1>0, <1>7 DEF Crash, TypeInv, TypeOK
    <2>5. LocalsOK'
      <3>1. \A r \in Reqs : LocalOK(req[r])
        BY DEF TypeInv, LocalsOK
      <3>2. \A r \in Reqs : LocalOK(req'[r])
        BY <2>4, <3>1 DEF LocalOK, Idle, Rotating, Issuing
      <3>. QED BY <1>7, <3>2 DEF Crash, LocalsOK, LocalOK, history
    <2>. QED BY <2>2, <2>3, <2>4, <2>5 DEF TypeInv, TypeOK, DataOK
  <1>8. CASE Tick
    <2>1. DataOK'
      BY <1>8 DEF Tick, TypeInv, TypeOK, DataOK, history
    <2>2. RowsOK'
      BY <1>8 DEF Tick, TypeInv, RowsOK, history
    <2>. QED BY <1>4, <1>8, <2>1, <2>2 DEF Tick, history
  <1>9. CASE UNCHANGED vars
    <2>1. DataOK' /\ RowsOK'
      BY <1>9 DEF vars, program, history, TypeInv, TypeOK, DataOK, RowsOK
    <2>. QED BY <1>4, <1>9, <2>1 DEF vars, program, history
  <1>. QED BY <1>1, <1>2, <1>3, <1>5, <1>6, <1>7, <1>8, <1>9, <1>10, LeaversAssumption DEF Next

(* Type correctness of the refresh grant, the grace caches and the table.  *)
THEOREM TypeCorrect == Spec => []TypeOK
  <1>1. TypeInv => TypeOK
    BY DEF TypeInv
  <1>. QED BY <1>1, InitTypeInv, NextTypeInv, PTL DEF Spec

-----------------------------------------------------------------------------
(* Rows only disappear or are stamped.                                     *)
RowsFade ==
    \A t \in Tokens : \/ rows'[t] = None
                      \/ /\ rows[t] # None
                         /\ rows'[t].family = rows[t].family
                         /\ rows'[t].user = rows[t].user

(* The inductive invariant of revocation holds when the servers start.     *)
LEMMA InitDeadInv == Init => DeadInv
  <1>. SUFFICES ASSUME Init PROVE DeadInv
    OBVIOUS
  <1>1. TypeInv
    BY InitTypeInv
  <1>2. /\ \A r \in Reqs : req[r].pc = "idle" /\ req[r].family = None
        /\ \A t \in Tokens : rows[t] # None => rows[t].family = None
        /\ revoked = {}
    BY DEF Init, Idle, LegacyRows
  <1>3. None \notin Families
    BY FamiliesAssumption DEF FamilyIDs
  <1>. QED BY <1>1, <1>2, <1>3 DEF DeadInv, OriginOK, LoginOK, RotationOK, RevokedStaysDead, Rotating, Issuing

(* A step of one request that hands nothing out and revokes nothing.       *)
LEMMA DeadFrame ==
  ASSUME DeadInv, TypeInv', NEW r \in Reqs, NEW v \in LocalState, Become(r, v), RowsFade,
         UNCHANGED <<minted, founded, issued, revoked, lineage, origin>>,
         v.family \in Families => v.family \in founded,
         v.family # None => \A o \in Reqs : req[o].pc \in Rotating /\ req[o].tok = None =>
                              req[o].family # v.family,
         v.pc \in Rotating => v.tok # None /\ (v.family \in Families => v.user = origin[v.family].user),
         (v.pc \in {"mint", "save", "reread", "remember"} /\ v.family \in Families) =>
           lineage[v.tok].family = v.family,
         v.pc \in Issuing => req[r].pc \in Issuing /\ v.succ = req[r].succ,
         (v.pc = "remember" /\ v.family \in Families) => v.family \notin revoked
  PROVE  DeadInv'
  <1>1. /\ req'[r] = v
        /\ \A o \in Reqs : o # r => req'[o] = req[o]
    BY BecomeEffect DEF DeadInv, TypeInv
  <1>2. OriginOK'
    BY <1>1 DEF DeadInv, OriginOK, RowsFade
  <1>3. LoginOK'
    BY <1>1, FamiliesAssumption DEF DeadInv, LoginOK, RowsFade, FamilyIDs
  <1>4. RotationOK'
    <2>. SUFFICES ASSUME NEW o \in Reqs
                  PROVE  /\ (/\ req'[o].pc \in {"mint", "save", "reread", "remember"}
                             /\ req'[o].tok # None /\ req'[o].family \in Families) =>
                              lineage[req'[o].tok].family = req'[o].family
                         /\ req'[o].pc \in Issuing =>
                              /\ req'[o].succ \notin issued
                              /\ \A p \in Reqs : req'[p].pc \in Issuing /\ req'[p].succ = req'[o].succ => p = o
                         /\ req'[o].pc = "remember" /\ req'[o].family \in Families /\ req'[o].family \in revoked =>
                              rows'[req'[o].succ] = None
      BY DEF RotationOK
    <2>1. \A p \in Reqs : req'[p].pc \in Issuing =>
            req[p].pc \in Issuing /\ req'[p].succ = req[p].succ /\ req[p].succ \in Tokens
      BY <1>1 DEF DeadInv, TypeInv, TypeOK, LocalsOK, LocalOK
    <2>2. req'[o].pc \in Issuing =>
            /\ req'[o].succ \notin issued
            /\ \A p \in Reqs : req'[p].pc \in Issuing /\ req'[p].succ = req'[o].succ => p = o
      BY <2>1 DEF DeadInv, RotationOK
    <2>3. (/\ req'[o].pc \in {"mint", "save", "reread", "remember"}
           /\ req'[o].tok # None /\ req'[o].family \in Families) =>
            lineage[req'[o].tok].family = req'[o].family
      BY <1>1 DEF DeadInv, RotationOK
    <2>4. req'[o].pc = "remember" /\ req'[o].family \in Families /\ req'[o].family \in revoked =>
            rows'[req'[o].succ] = None
      BY <1>1, <2>1 DEF DeadInv, RotationOK, RowsFade, Issuing
    <2>. QED BY <2>2, <2>3, <2>4
  <1>5. RevokedStaysDead'
    BY DEF DeadInv, RevokedStaysDead, RowsFade, TypeInv, TypeOK
  <1>. QED BY <1>2, <1>3, <1>4, <1>5 DEF DeadInv

(* A step of the environment that only drops rows and requests.            *)
LEMMA DeadEnv ==
  ASSUME DeadInv, TypeInv', RowsFade, \A o \in Reqs : req'[o] = req[o] \/ req'[o] = Idle,
         UNCHANGED <<minted, founded, issued, revoked, lineage, origin>>
  PROVE  DeadInv'
  <1>0. None \notin Families
    BY FamiliesAssumption DEF FamilyIDs
  <1>1. OriginOK'
    BY <1>0 DEF DeadInv, OriginOK, RowsFade, Idle, Rotating
  <1>2. LoginOK'
    BY <1>0 DEF DeadInv, LoginOK, RowsFade, Idle, Rotating
  <1>3. RotationOK'
    <2>. SUFFICES ASSUME NEW o \in Reqs, req'[o] = req[o]
                  PROVE  /\ req'[o].pc \in Issuing =>
                              /\ req'[o].succ \notin issued
                              /\ \A p \in Reqs : req'[p].pc \in Issuing /\ req'[p].succ = req'[o].succ => p = o
                         /\ req'[o].pc = "remember" /\ req'[o].family \in Families /\ req'[o].family \in revoked =>
                              rows'[req'[o].succ] = None
      BY <1>0 DEF DeadInv, RotationOK, Idle, Issuing
    <2>1. \A p \in Reqs : req'[p].pc \in Issuing => req'[p] = req[p] /\ req[p].succ \in Tokens
      BY DEF DeadInv, TypeInv, TypeOK, LocalsOK, LocalOK, Idle, Issuing
    <2>2. req'[o].pc \in Issuing =>
            /\ req'[o].succ \notin issued
            /\ \A p \in Reqs : req'[p].pc \in Issuing /\ req'[p].succ = req'[o].succ => p = o
      BY <2>1 DEF DeadInv, RotationOK
    <2>3. req'[o].pc = "remember" /\ req'[o].family \in Families /\ req'[o].family \in revoked =>
            rows'[req'[o].succ] = None
      BY <2>1 DEF DeadInv, RotationOK, RowsFade, Issuing
    <2>. QED BY <2>2, <2>3
  <1>4. RevokedStaysDead'
    BY DEF DeadInv, RevokedStaysDead, RowsFade, TypeInv, TypeOK
  <1>. QED BY <1>1, <1>2, <1>3, <1>4 DEF DeadInv

(* Consuming a token brings no row into a family.                          *)
LEMMA StampFades ==
  ASSUME TypeInv, NEW t \in Tokens, NEW now \in Nat, Stamp(t, now)
  PROVE  RowsFade
  <1>1. CASE rows[t] # None /\ rows[t].consumed = 0
    <2>1. rows[t] \in Row
      BY <1>1 DEF TypeInv, TypeOK
    <2>2. PICK w \in Row : /\ w = [rows[t] EXCEPT !.consumed = now]
                           /\ w.family = rows[t].family /\ w.user = rows[t].user
      BY <2>1, StampedRow
    <2>3. rows' = [rows EXCEPT ![t] = w]
      BY <1>1, <2>2 DEF Stamp
    <2>. QED BY <1>1, <2>2, <2>3 DEF RowsFade, TypeInv, TypeOK
  <1>2. CASE ~(rows[t] # None /\ rows[t].consumed = 0)
    BY <1>2 DEF Stamp, RowsFade
  <1>. QED BY <1>1, <1>2

(* Deleting rows brings no row into a family.                              *)
LEMMA WithoutFades ==
  ASSUME NEW T, rows' = Without(T)
  PROVE  RowsFade
  BY DEF Without, RowsFade

(* Every step of a handler, and every Store failure, keeps the inductive   *)
(* invariant of revocation when a family is deleted atomically.            *)
LEMMA HandleDeadInv ==
  ASSUME AtomicRevoke, DeadInv, TypeInv', NEW r \in Reqs, Handle(r) \/ StoreFault(r)
  PROVE  DeadInv'
  <1>0. /\ req[r] \in LocalState /\ LocalOK(req[r]) /\ Idle \in LocalState
        /\ TypeInv /\ None \notin Families
    BY IdleType, FamiliesAssumption DEF DeadInv, TypeInv, TypeOK, LocalsOK, FamilyIDs
  <1>i. ASSUME Answer(r), RowsFade, UNCHANGED <<minted, founded, issued, revoked, lineage, origin>>
        PROVE  DeadInv'
    <2>1. PICK v \in LocalState : v = Idle
      BY <1>0
    <2>2. v.pc = "idle" /\ v.family = None
      BY <2>1 DEF Idle
    <2>. QED BY <1>0, <1>i, <2>1, <2>2, DeadFrame DEF Answer, Rotating, Issuing
  <1>s. rows' = rows => RowsFade
    BY DEF RowsFade
  <1>g. ASSUME NEW pc \in Steps, NEW v \in LocalState, Become(r, v), v.pc = pc,
               v.family = req[r].family, v.tok = req[r].tok,
               req[r].pc \in {"bind", "recall", "peek", "reread"},
               pc \in {"consume", "peek", "revoke", "undo", "remember"},
               pc = "remember" => req[r].pc = "reread" /\ rows[req[r].tok] # None
                                    /\ v.succ = req[r].succ,
               UNCHANGED <<rows, minted, founded, history>>
        PROVE  DeadInv'
    <2>1. v.family # None => \A o \in Reqs : req[o].pc \in Rotating /\ req[o].tok = None =>
                               req[o].family # v.family
      BY <1>g DEF DeadInv, LoginOK, Rotating
    <2>2. v.family \in Families => v.family \in founded
      BY <1>g DEF DeadInv, OriginOK
    <2>3. pc = "remember" /\ v.family \in Families =>
            lineage[v.tok].family = v.family /\ v.family \notin revoked
      <3>1. pc = "remember" => req[r].tok \in issued /\ req[r].tok # None
        BY <1>0, <1>g, TokensAssumption DEF LocalOK, TypeInv, TypeOK
      <3>. QED BY <1>g, <3>1 DEF DeadInv, RotationOK, RevokedStaysDead
    <2>. QED BY <1>g, <1>s, <2>1, <2>2, <2>3, DeadFrame DEF Rotating, Issuing, history
  <1>1. CASE Bind(r)
    <2>1. PICK v \in LocalState : v = [req[r] EXCEPT !.pc = "consume"]
      BY <1>0 DEF LocalState, Steps
    <2>2. v.pc = "consume" /\ v.family = req[r].family /\ v.tok = req[r].tok
      BY <1>0, <2>1 DEF LocalState
    <2>. QED BY <1>1, <1>i, <1>s, <1>g, <2>1, <2>2 DEF Bind, Goto, Steps, history
  <1>2. CASE Consume(r)
    <2>1. PICK v \in LocalState : v = Judge(req[r], rows[req[r].tok])
      BY <1>0, <1>2, JudgeEffect DEF Consume
    <2>2. RowsFade
      BY <1>0, <1>2, StampFades, JudgeEffect DEF Consume, LocalState
    <2>3. CASE v = Idle
      BY <1>2, <1>i, <2>1, <2>2, <2>3 DEF Consume, Answer
    <2>4. CASE v # Idle
      <3>. DEFINE t == req[r].tok
      <3>1. /\ t \in Tokens /\ rows[t] # None /\ v.tok = t /\ t # None
            /\ v.family = familyToRevoke(rows[t], t) /\ v.family \in FamilyIDs
            /\ v.pc \in {"recall", "revoke", "mint"}
            /\ v.pc = "mint" => v.user = rows[t].user
        BY <1>0, <1>2, <2>1, <2>4, JudgeEffect, TokensAssumption DEF Consume
      <3>2. v.family \in Families => rows[t].family = v.family
        BY <1>0, <3>1, FamiliesAssumption DEF familyToRevoke, TypeInv, RowsOK
      <3>3. v.family \in Families => /\ v.family \in founded
                                     /\ lineage[t].family = v.family
                                     /\ rows[t].user = origin[v.family].user
        BY <1>0, <3>1, <3>2 DEF DeadInv, OriginOK, TypeInv, RowsOK
      <3>4. \A o \in Reqs : req[o].pc \in Rotating /\ req[o].tok = None =>
                              req[o].family # v.family
        BY <3>1, <3>2 DEF DeadInv, LoginOK
      <3>5. v.pc \notin Issuing /\ (v.pc \in Rotating => v.pc = "mint")
        BY <3>1 DEF Issuing, Rotating
      <3>. HIDE DEF t
      <3>. QED BY <1>2, <2>1, <2>2, <3>1, <3>3, <3>4, <3>5, DeadFrame DEF Consume
    <2>. QED BY <2>3, <2>4
  <1>3. CASE Recall(r)
    <2>1. CASE Answer(r)
      BY <1>3, <1>i, <1>s, <2>1 DEF Recall, history
    <2>2. CASE Become(r, [req[r] EXCEPT !.pc = "peek",
                                        !.succ = grace[req[r].node][req[r].tok].succ])
      <3>0. grace[req[r].node][req[r].tok].succ \in Tokens \cup {None}
        <4>1. req[r].node \in Nodes /\ req[r].tok \in Tokens
          BY <1>0, <1>3 DEF Recall, LocalOK, TypeInv, TypeOK
        <4>. QED BY <1>0, <4>1 DEF TypeInv, TypeOK
      <3>1. PICK s \in Tokens \cup {None} : s = grace[req[r].node][req[r].tok].succ
        BY <3>0
      <3>2. PICK v \in LocalState : v = [req[r] EXCEPT !.pc = "peek", !.succ = s]
        BY <1>0 DEF LocalState, Steps
      <3>3. v.pc = "peek" /\ v.family = req[r].family /\ v.tok = req[r].tok
        BY <1>0, <3>2 DEF LocalState
      <3>. QED BY <1>3, <1>g, <2>2, <3>1, <3>2, <3>3 DEF Recall, Steps
    <2>. QED BY <1>3, <2>1, <2>2 DEF Recall
  <1>4. CASE Peek(r) \/ PeekFails(r)
    <2>1. PICK v \in LocalState : v = [req[r] EXCEPT !.pc = "revoke"]
      BY <1>0 DEF LocalState, Steps
    <2>2. v.pc = "revoke" /\ v.family = req[r].family /\ v.tok = req[r].tok
      BY <1>0, <2>1 DEF LocalState
    <2>. QED BY <1>4, <1>i, <1>s, <1>g, <2>1, <2>2 DEF Peek, PeekFails, Goto, Steps, history
  <1>5. CASE Mint(r)
    <2>1. CASE Answer(r) /\ UNCHANGED <<minted, lineage>>
      BY <1>5, <1>i, <1>s, <2>1 DEF Mint
    <2>2. ASSUME NEW s \in Tokens \ minted,
                 minted' = minted \cup {s},
                 lineage' = [lineage EXCEPT ![s] = [parent |-> req[r].tok, family |-> req[r].family]],
                 Become(r, [req[r] EXCEPT !.pc = "save", !.succ = s, !.at = Now(req[r].node)])
          PROVE  DeadInv'
      <3>0. req[r].pc = "mint" /\ req[r].node \in Nodes
        BY <1>0, <1>5 DEF Mint, LocalOK
      <3>1. PICK a \in Nat : a = Now(req[r].node)
        BY <1>0, <3>0, NowType DEF TypeInv
      <3>2. PICK v \in LocalState : v = [req[r] EXCEPT !.pc = "save", !.succ = s, !.at = a]
        BY <1>0 DEF LocalState, Steps
      <3>3. /\ v.pc = "save" /\ v.family = req[r].family /\ v.tok = req[r].tok
            /\ v.succ = s /\ v.user = req[r].user
        BY <1>0, <3>2 DEF LocalState
      <3>4. Become(r, v)
        BY <2>2, <3>1, <3>2
      <3>5. req'[r] = v /\ \A o \in Reqs : o # r => req'[o] = req[o]
        BY <1>0, <3>4, BecomeEffect DEF TypeInv
      <3>6. /\ rows' = rows /\ founded' = founded /\ issued' = issued
            /\ revoked' = revoked /\ origin' = origin
        BY <1>5 DEF Mint
      <3>7. \A t \in minted : lineage'[t] = lineage[t] /\ t # s
        BY <1>0, <2>2 DEF TypeInv, TypeOK
      <3>8. OriginOK'
        BY <3>0, <3>3, <3>5, <3>6 DEF DeadInv, OriginOK, Rotating
      <3>9. LoginOK'
        BY <3>0, <3>3, <3>5, <3>6 DEF DeadInv, LoginOK, Rotating
      <3>10. RotationOK'
        <4>1. \A o \in Reqs : o # r /\ req[o].pc \in Issuing => req[o].succ \in minted
          BY <1>0 DEF TypeInv, LocalsOK, LocalOK
        <4>2. s \notin issued
          BY <1>0, <2>2 DEF TypeInv, RowsOK
        <4>3. \A o \in Reqs : req'[o].pc \in Issuing =>
                /\ req'[o].succ \notin issued'
                /\ \A p \in Reqs : req'[p].pc \in Issuing /\ req'[p].succ = req'[o].succ => p = o
          BY <3>3, <3>5, <3>6, <3>7, <4>1, <4>2 DEF DeadInv, RotationOK
        <4>4. \A o \in Reqs :
                (/\ req'[o].pc \in {"mint", "save", "reread", "remember"} /\ req'[o].tok # None) =>
                  /\ req'[o].tok \in minted
                  /\ req[o].pc \in {"mint", "save", "reread", "remember"}
                  /\ req'[o].tok = req[o].tok /\ req'[o].family = req[o].family
          BY <1>0, <3>0, <3>3, <3>5 DEF TypeInv, RowsOK, LocalsOK, LocalOK, Rotating
        <4>5. \A o \in Reqs :
                (/\ req'[o].pc \in {"mint", "save", "reread", "remember"}
                 /\ req'[o].tok # None /\ req'[o].family \in Families) =>
                  lineage'[req'[o].tok].family = req'[o].family
          BY <3>7, <4>4 DEF DeadInv, RotationOK
        <4>6. \A o \in Reqs :
                req'[o].pc = "remember" /\ req'[o].family \in Families /\ req'[o].family \in revoked' =>
                  rows'[req'[o].succ] = None
          BY <3>3, <3>5, <3>6 DEF DeadInv, RotationOK
        <4>. QED BY <4>3, <4>5, <4>6 DEF RotationOK
      <3>11. RevokedStaysDead'
        BY <1>0, <3>6, <3>7 DEF DeadInv, RevokedStaysDead, TypeInv, RowsOK
      <3>. QED BY <3>8, <3>9, <3>10, <3>11 DEF DeadInv
    <2>. QED BY <1>5, <2>1, <2>2 DEF Mint
  <1>6. ASSUME req[r].pc = "save", rows' = [rows EXCEPT ![req[r].succ] = TokenRow(req[r], req[r].at)],
               UNCHANGED <<minted, founded, revoked, lineage, origin>>,
               NEW v \in LocalState, Become(r, v),
               \/ v = Idle /\ issued' = issued
               \/ v = Idle /\ issued' = issued \cup {req[r].succ} /\ req[r].tok = None
               \/ v.pc = "reread" /\ v.family = req[r].family /\ v.tok = req[r].tok
                    /\ v.succ = req[r].succ /\ issued' = issued /\ req[r].tok # None
        PROVE  DeadInv'
    <2>. DEFINE s == req[r].succ
                f == req[r].family
    <2>1. /\ s \in minted /\ s \in Tokens /\ s \notin issued /\ lineage[s].family = f
          /\ f \in FamilyIDs
          /\ \A o \in Reqs : req[o].pc \in Issuing /\ req[o].succ = s => o = r
      BY <1>0, <1>6 DEF LocalOK, TypeInv, TypeOK, DeadInv, RotationOK, Issuing, Rotating
    <2>2. /\ rows'[s].family = f /\ rows'[s].user = req[r].user
          /\ \A t \in Tokens : t # s => rows'[t] = rows[t]
      BY <1>0, <1>6, <2>1 DEF TypeInv, TypeOK, TokenRow
    <2>3. req'[r] = v /\ \A o \in Reqs : o # r => req'[o] = req[o]
      BY <1>0, <1>6, BecomeEffect DEF TypeInv
    <2>4. f \in Families => f \in founded /\ req[r].user = origin[f].user
      BY <1>6 DEF DeadInv, OriginOK, Rotating
    <2>5. Idle.pc = "idle" /\ Idle.family = None
      BY DEF Idle
    <2>6. v.pc \in {"idle", "reread"} /\ (v.family = None \/ v.family = f)
      BY <1>6, <2>5
    <2>. HIDE DEF s
    <2>7. \A o \in Reqs : o # r /\ req[o].pc \in Rotating /\ req[o].tok = None =>
            req[o].family # f
      BY DEF DeadInv, LoginOK
    <2>8. OriginOK'
      <3>1. \A t \in Tokens : rows'[t] # None /\ rows'[t].family \in Families =>
              rows'[t].family \in founded /\ rows'[t].user = origin[rows'[t].family].user
        BY <2>2, <2>4 DEF DeadInv, OriginOK
      <3>2. \A o \in Reqs : req'[o].family \in Families =>
              /\ req'[o].family \in founded
              /\ req'[o].pc \in Rotating => req'[o].user = origin[req'[o].family].user
        BY <1>0, <2>3, <2>4, <2>6 DEF DeadInv, OriginOK, Rotating
      <3>. QED BY <1>6, <3>1, <3>2 DEF DeadInv, OriginOK
    <2>9. LoginOK'
      <3>. SUFFICES ASSUME NEW o \in Reqs, req'[o].pc \in Rotating, req'[o].tok = None
                    PROVE  /\ req'[o].family \in Families
                           /\ req'[o].family \notin revoked
                           /\ \A t \in Tokens : rows'[t] # None => rows'[t].family # req'[o].family
                           /\ \A p \in Reqs : req'[p].family = req'[o].family => p = o
        BY <1>6 DEF LoginOK
      <3>1. o # r /\ req'[o] = req[o]
        BY <2>3, <2>6 DEF Rotating
      <3>2. /\ req[o].family \in Families /\ req[o].family \notin revoked
            /\ \A t \in Tokens : rows[t] # None => rows[t].family # req[o].family
            /\ \A p \in Reqs : req[p].family = req[o].family => p = o
        BY <3>1 DEF DeadInv, LoginOK
      <3>. QED BY <1>0, <2>2, <2>3, <2>6, <2>7, <3>1, <3>2
    <2>10. RotationOK'
      <3>. SUFFICES ASSUME NEW o \in Reqs
                    PROVE  /\ (/\ req'[o].pc \in {"mint", "save", "reread", "remember"}
                               /\ req'[o].tok # None /\ req'[o].family \in Families) =>
                                lineage[req'[o].tok].family = req'[o].family
                           /\ req'[o].pc \in Issuing =>
                                /\ req'[o].succ \notin issued'
                                /\ \A p \in Reqs : req'[p].pc \in Issuing /\ req'[p].succ = req'[o].succ => p = o
                           /\ req'[o].pc = "remember" /\ req'[o].family \in Families /\ req'[o].family \in revoked =>
                                rows'[req'[o].succ] = None
        BY <1>6 DEF RotationOK
      <3>1. (/\ req'[o].pc \in {"mint", "save", "reread", "remember"}
             /\ req'[o].tok # None /\ req'[o].family \in Families) =>
              lineage[req'[o].tok].family = req'[o].family
        BY <1>6, <2>3, <2>5 DEF DeadInv, RotationOK
      <3>2. \A p \in Reqs : req'[p].pc \in Issuing =>
              req[p].pc \in Issuing /\ req'[p].succ = req[p].succ
        BY <1>6, <2>3, <2>5 DEF Issuing
      <3>3. req'[o].pc \in Issuing => req'[o].succ \notin issued'
        <4>1. CASE o = r
          BY <1>6, <2>1, <2>3, <2>5, <4>1 DEF Issuing, s
        <4>2. CASE o # r
          BY <1>6, <2>1, <2>3, <4>2 DEF DeadInv, RotationOK, s
        <4>. QED BY <4>1, <4>2
      <3>4. \A p \in Reqs : req'[o].pc \in Issuing /\ req'[p].pc \in Issuing
                              /\ req'[p].succ = req'[o].succ => p = o
        BY <3>2 DEF DeadInv, RotationOK
      <3>5. req'[o].pc = "remember" /\ req'[o].family \in Families /\ req'[o].family \in revoked =>
              rows'[req'[o].succ] = None
        <4>. SUFFICES ASSUME req'[o].pc = "remember", req'[o].family \in Families, req'[o].family \in revoked
                      PROVE  rows'[req'[o].succ] = None
          OBVIOUS
        <4>1. o # r /\ req'[o] = req[o]
          BY <2>3, <2>6
        <4>2. req[o].succ # s /\ req[o].succ \in Tokens
          BY <1>0, <2>1, <4>1 DEF Issuing, TypeInv, TypeOK, LocalsOK, LocalOK
        <4>. QED BY <2>2, <4>1, <4>2 DEF DeadInv, RotationOK
      <3>. QED BY <3>1, <3>3, <3>4, <3>5
    <2>11. RevokedStaysDead'
      <3>1. req[r].tok = None => f \notin revoked
        BY <1>6 DEF DeadInv, LoginOK, Rotating
      <3>2. \A t \in issued : t \in Tokens /\ t # s
        BY <1>0, <2>1 DEF TypeInv, TypeOK
      <3>3. \A t \in issued' : t \in issued \/ (t = s /\ req[r].tok = None)
        BY <1>6 DEF s
      <3>. QED BY <1>6, <2>1, <2>2, <3>1, <3>2, <3>3 DEF DeadInv, RevokedStaysDead
    <2>. QED BY <2>8, <2>9, <2>10, <2>11 DEF DeadInv
  <1>7. CASE Save(r)
    <2>1. PICK v \in LocalState : v = [req[r] EXCEPT !.pc = "reread"]
      BY <1>0 DEF LocalState, Steps
    <2>2. v.pc = "reread" /\ v.family = req[r].family /\ v.tok = req[r].tok /\ v.succ = req[r].succ
      BY <1>0, <2>1 DEF LocalState
    <2>3. /\ req[r].pc = "save" /\ rows' = [rows EXCEPT ![req[r].succ] = TokenRow(req[r], req[r].at)]
          /\ UNCHANGED <<minted, founded, revoked, lineage, origin>>
      BY <1>7 DEF Save
    <2>4. CASE req[r].tok # None /\ Goto(r, "reread") /\ issued' = issued
      BY <1>6, <2>1, <2>2, <2>3, <2>4 DEF Goto
    <2>5. CASE req[r].tok = None /\ Answer(r) /\ issued' = issued \cup {req[r].succ}
      BY <1>0, <1>6, <2>3, <2>5 DEF Answer
    <2>. QED BY <1>7, <2>4, <2>5 DEF Save
  <1>8. CASE Reread(r)
    <2>0. PICK pc \in {"remember", "undo"} :
            pc = IF rows[req[r].tok] # None THEN "remember" ELSE "undo"
      OBVIOUS
    <2>1. PICK v \in LocalState : v = [req[r] EXCEPT !.pc = pc]
      BY <1>0 DEF LocalState, Steps
    <2>2. v.pc = pc /\ v.family = req[r].family /\ v.tok = req[r].tok /\ v.succ = req[r].succ
      BY <1>0, <2>1 DEF LocalState
    <2>. QED BY <1>8, <1>g, <2>0, <2>1, <2>2 DEF Reread, Goto, Steps
  <1>9. CASE Remember(r)
    <2>1. /\ req[r].pc = "remember" /\ issued' = issued \cup {req[r].succ} /\ Answer(r)
          /\ rows' = rows /\ UNCHANGED <<minted, founded, revoked, lineage, origin>>
      BY <1>9 DEF Remember
    <2>2. /\ req[r].succ \in minted /\ lineage[req[r].succ].family = req[r].family
          /\ \A o \in Reqs : req[o].pc \in Issuing /\ req[o].succ = req[r].succ => o = r
          /\ req[r].family \in Families /\ req[r].family \in revoked => rows[req[r].succ] = None
      BY <1>0, <2>1 DEF LocalOK, DeadInv, RotationOK, Issuing
    <2>3. /\ req'[r].pc = "idle" /\ req'[r].family = None
          /\ \A o \in Reqs : o # r => req'[o] = req[o]
      BY <1>0, <2>1, BecomeEffect DEF TypeInv, Answer, Idle
    <2>4. OriginOK'
      BY <1>0, <2>1, <2>3 DEF DeadInv, OriginOK, Rotating
    <2>5. LoginOK'
      BY <1>0, <2>1, <2>3 DEF DeadInv, LoginOK, Rotating
    <2>6. RotationOK'
      BY <1>0, <2>1, <2>2, <2>3 DEF DeadInv, RotationOK, Issuing
    <2>7. RevokedStaysDead'
      BY <2>1, <2>2 DEF DeadInv, RevokedStaysDead
    <2>. QED BY <2>4, <2>5, <2>6, <2>7 DEF DeadInv
  <1>10. CASE Revoke(r)
    <2>. DEFINE f == req[r].family
    <2>1. /\ req[r].pc \in {"revoke", "undo"} /\ rows' = Without(FamilyRows(f))
          /\ revoked' = revoked \cup {f} /\ Answer(r)
          /\ UNCHANGED <<minted, founded, issued, lineage, origin>>
      BY <1>10 DEF Revoke
    <2>2. /\ req'[r].pc = "idle" /\ req'[r].family = None
          /\ \A o \in Reqs : o # r => req'[o] = req[o]
      BY <1>0, <2>1, BecomeEffect DEF TypeInv, Answer, Idle
    <2>3. \A t \in Tokens : rows'[t] = None \/ (rows'[t] = rows[t] /\ rows[t].family # f)
      BY <2>1 DEF Without, FamilyRows
    <2>4. \A t \in Tokens : rows'[t] # None /\ f \in Families => lineage[t].family # f
      BY <1>0, <2>3 DEF TypeInv, RowsOK
    <2>5. \A o \in Reqs : req[o].pc \in Rotating /\ req[o].tok = None => req[o].family # f
      BY <2>1 DEF DeadInv, LoginOK, Rotating
    <2>6. OriginOK'
      BY <1>0, <2>1, <2>2, <2>3 DEF DeadInv, OriginOK, Rotating
    <2>7. LoginOK'
      BY <1>0, <2>1, <2>2, <2>3, <2>5 DEF DeadInv, LoginOK, Rotating
    <2>8. RotationOK'
      <3>1. \A o \in Reqs : req'[o].pc # "idle" => o # r /\ req'[o] = req[o]
        BY <2>2
      <3>2. \A o \in Reqs : req[o].pc = "remember" =>
              req[o].succ \in Tokens /\ lineage[req[o].succ].family = req[o].family
        BY <1>0 DEF TypeInv, TypeOK, LocalsOK, LocalOK, Issuing
      <3>3. \A o \in Reqs :
              req'[o].pc = "remember" /\ req'[o].family \in Families /\ req'[o].family \in revoked' =>
                rows'[req'[o].succ] = None
        BY <2>1, <2>3, <2>4, <3>1, <3>2 DEF DeadInv, RotationOK
      <3>4. \A o \in Reqs : req'[o].pc \in Issuing =>
              /\ req'[o].succ \notin issued'
              /\ \A p \in Reqs : req'[p].pc \in Issuing /\ req'[p].succ = req'[o].succ => p = o
        BY <2>1, <3>1 DEF DeadInv, RotationOK, Issuing
      <3>5. \A o \in Reqs :
              (/\ req'[o].pc \in {"mint", "save", "reread", "remember"}
               /\ req'[o].tok # None /\ req'[o].family \in Families) =>
                lineage'[req'[o].tok].family = req'[o].family
        BY <2>1, <3>1 DEF DeadInv, RotationOK
      <3>. QED BY <3>3, <3>4, <3>5 DEF RotationOK
    <2>9. RevokedStaysDead'
      BY <1>0, <2>1, <2>3, <2>4 DEF DeadInv, RevokedStaysDead, TypeInv, TypeOK
    <2>. QED BY <2>6, <2>7, <2>8, <2>9 DEF DeadInv
  <1>11. CASE StoreFault(r)
    <2>1. CASE \E call : Fails(r, call)
      BY <1>i, <1>s, <2>1 DEF Fails, history
    <2>2. CASE /\ req[r].pc = "consume" /\ Stamp(req[r].tok, req[r].now) /\ Answer(r)
               /\ UNCHANGED <<clock, grace, minted, founded, issued, revoked, lineage, origin>>
      <3>1. RowsFade
        BY <1>0, <2>2, StampFades, JudgeCases DEF LocalState
      <3>. QED BY <1>i, <2>2, <3>1
    <2>3. CASE /\ req[r].pc = "save" /\ rows' = [rows EXCEPT ![req[r].succ] = TokenRow(req[r], req[r].at)]
               /\ Answer(r) /\ UNCHANGED <<clock, grace, minted, founded, history>>
      BY <1>0, <1>6, <2>3 DEF Answer, history
    <2>. QED BY <1>11, <2>1, <2>2, <2>3 DEF StoreFault
  <1>12. CASE RevokeScan(r) \/ RevokeCommit(r) \/ RevokeUserCommit(r)
    BY <1>0, <1>12 DEF RevokeScan, RevokeCommit, RevokeUserCommit, LocalOK
  <1>. QED BY <1>1, <1>2, <1>3, <1>4, <1>5, <1>7, <1>8, <1>9, <1>10, <1>11, <1>12 DEF Handle

(* So does every step of the system.                                       *)
LEMMA NextDeadInv == AtomicRevoke /\ DeadInv /\ [Next]_vars => DeadInv'
  <1>. SUFFICES ASSUME AtomicRevoke, DeadInv, [Next]_vars PROVE DeadInv'
    OBVIOUS
  <1>0. /\ TypeInv /\ TypeInv' /\ None \notin Families /\ Idle \in LocalState
        /\ \A n \in Nodes : Now(n) \in Nat
    BY NextTypeInv, IdleType, NowType, FamiliesAssumption DEF DeadInv, TypeInv, FamilyIDs
  <1>1. ASSUME NEW r \in Reqs, NEW n \in Nodes, NEW c \in Clients, NEW u \in Users, Login(r, n, c, u)
        PROVE  DeadInv'
    <2>1. PICK f \in Families \ founded :
            /\ founded' = founded \cup {f}
            /\ origin' = [origin EXCEPT ![f] = [at |-> Now(n), user |-> u]]
            /\ Become(r, [Idle EXCEPT !.pc = "mint", !.node = n, !.client = c, !.user = u,
                                      !.family = f, !.start = Now(n)])
      BY <1>1 DEF Login
    <2>2. PICK a \in Nat : a = Now(n)
      BY <1>0
    <2>3. PICK v \in LocalState :
            v = [Idle EXCEPT !.pc = "mint", !.node = n, !.client = c, !.user = u,
                             !.family = f, !.start = a]
      BY <1>0 DEF LocalState, Steps, FamilyIDs
    <2>4. v.pc = "mint" /\ v.tok = None /\ v.family = f /\ v.user = u
      BY <2>3 DEF Idle
    <2>5. req'[r] = v /\ \A o \in Reqs : o # r => req'[o] = req[o]
      BY <1>0, <2>1, <2>2, <2>3, BecomeEffect DEF TypeInv
    <2>6. /\ \A g \in Families : g # f => origin'[g] = origin[g]
          /\ origin'[f].user = u
      BY <1>0, <2>1 DEF TypeInv, TypeOK
    <2>7. /\ rows' = rows /\ issued' = issued /\ revoked' = revoked /\ lineage' = lineage
          /\ req[r].pc = "idle"
      BY <1>1 DEF Login
    <2>8. /\ f \notin revoked
          /\ \A t \in Tokens : rows[t] # None => rows[t].family # f
          /\ \A o \in Reqs : req[o].family # f
      BY DEF DeadInv, OriginOK
    <2>9. OriginOK'
      <3>1. \A t \in Tokens : rows'[t] # None /\ rows'[t].family \in Families =>
              rows'[t].family \in founded' /\ rows'[t].user = origin'[rows'[t].family].user
        BY <2>1, <2>6, <2>7, <2>8 DEF DeadInv, OriginOK
      <3>2. \A o \in Reqs : req'[o].family \in Families =>
              /\ req'[o].family \in founded'
              /\ req'[o].pc \in Rotating => req'[o].user = origin'[req'[o].family].user
        BY <2>1, <2>4, <2>5, <2>6, <2>8 DEF DeadInv, OriginOK
      <3>. QED BY <2>1, <2>7, <3>1, <3>2 DEF DeadInv, OriginOK
    <2>10. LoginOK'
      BY <2>4, <2>5, <2>7, <2>8 DEF DeadInv, LoginOK
    <2>11. RotationOK'
      BY <2>4, <2>5, <2>7 DEF DeadInv, RotationOK, Issuing
    <2>12. RevokedStaysDead'
      BY <2>7 DEF DeadInv, RevokedStaysDead
    <2>. QED BY <1>0, <2>9, <2>10, <2>11, <2>12 DEF DeadInv
  <1>2. ASSUME NEW r \in Reqs, NEW n \in Nodes, NEW c \in Clients, NEW t \in Tokens, Present(r, n, t, c)
        PROVE  DeadInv'
    <2>1. PICK a \in Nat : a = Now(n)
      BY <1>0
    <2>2. PICK v \in LocalState :
            v = [Idle EXCEPT !.pc = "bind", !.node = n, !.tok = t, !.client = c, !.now = a]
      BY <1>0 DEF LocalState, Steps
    <2>3. v.pc = "bind" /\ v.family = None
      BY <2>2 DEF Idle
    <2>4. /\ Become(r, v) /\ RowsFade
          /\ UNCHANGED <<minted, founded, issued, revoked, lineage, origin>>
      BY <1>2, <2>1, <2>2 DEF Present, RowsFade, history
    <2>. QED BY <1>0, <2>3, <2>4, DeadFrame DEF Rotating, Issuing
  <1>3. ASSUME NEW r \in Reqs, Handle(r) \/ StoreFault(r)
        PROVE  DeadInv'
    BY <1>0, <1>3, HandleDeadInv
  <1>4. ASSUME NEW n \in Nodes, Purge(n)
        PROVE  DeadInv'
    <2>1. PICK T : rows' = Without(T)
      BY <1>4 DEF Purge
    <2>. QED BY <1>0, <1>4, <2>1, WithoutFades, DeadEnv DEF Purge, history
  <1>5. ASSUME NEW n \in Nodes, Crash(n)
        PROVE  DeadInv'
    BY <1>0, <1>5, DeadEnv DEF Crash, history, RowsFade, TypeInv, TypeOK
  <1>6. ASSUME NEW u \in Users, RevokeUser(u)
        PROVE  DeadInv'
    <2>. DEFINE Theirs == {t \in Tokens : rows[t] # None /\ rows[t].user = u}
                Gone == {familyToRevoke(rows[t], t) : t \in Theirs}
    <2>1. /\ rows' = Without(Theirs) /\ revoked' = revoked \cup Gone /\ req' = req
          /\ UNCHANGED <<minted, founded, issued, lineage, origin>>
      BY <1>6 DEF RevokeUser, UserRows
    <2>2. \A t \in Tokens : rows'[t] = None \/ (rows'[t] = rows[t] /\ rows[t].user # u)
      BY <2>1 DEF Without
    <2>3. \A f \in Gone : f \in Families =>
            /\ f \in founded /\ origin[f].user = u
            /\ \E t \in Tokens : rows[t] # None /\ rows[t].family = f
      <3>. SUFFICES ASSUME NEW t \in Theirs, familyToRevoke(rows[t], t) \in Families
                    PROVE  LET f == familyToRevoke(rows[t], t) IN
                             /\ f \in founded /\ origin[f].user = u
                             /\ \E s \in Tokens : rows[s] # None /\ rows[s].family = f
        OBVIOUS
      <3>1. rows[t].family = familyToRevoke(rows[t], t)
        BY <1>0, FamiliesAssumption DEF familyToRevoke, TypeInv, RowsOK
      <3>. QED BY <3>1 DEF DeadInv, OriginOK
    <2>. HIDE DEF Theirs, Gone
    <2>4. \A t \in Tokens : rows'[t] # None /\ lineage[t].family \in Families =>
            lineage[t].family \notin Gone
      <3>. SUFFICES ASSUME NEW t \in Tokens, rows'[t] # None, lineage[t].family \in Families
                    PROVE  lineage[t].family \notin Gone
        OBVIOUS
      <3>1. rows[t] # None /\ rows[t].user # u /\ rows[t].family = lineage[t].family
        BY <1>0, <2>2 DEF TypeInv, RowsOK
      <3>2. rows[t].user = origin[lineage[t].family].user
        BY <3>1 DEF DeadInv, OriginOK
      <3>. QED BY <2>3, <3>1, <3>2
    <2>5. OriginOK'
      BY <2>1, <2>2, <2>3 DEF DeadInv, OriginOK
    <2>6. LoginOK'
      <3>1. \A o \in Reqs : req[o].pc \in Rotating /\ req[o].tok = None => req[o].family \notin Gone
        BY <2>3 DEF DeadInv, LoginOK
      <3>. QED BY <2>1, <2>2, <3>1 DEF DeadInv, LoginOK
    <2>7. RotationOK'
      <3>1. \A o \in Reqs : req[o].pc = "remember" =>
              req[o].succ \in Tokens /\ lineage[req[o].succ].family = req[o].family
        BY <1>0 DEF TypeInv, TypeOK, LocalsOK, LocalOK, Issuing
      <3>2. \A o \in Reqs :
              req'[o].pc = "remember" /\ req'[o].family \in Families /\ req'[o].family \in revoked' =>
                rows'[req'[o].succ] = None
        BY <2>1, <2>2, <2>4, <3>1 DEF DeadInv, RotationOK
      <3>. QED BY <2>1, <3>2 DEF DeadInv, RotationOK
    <2>8. RevokedStaysDead'
      BY <1>0, <2>1, <2>2, <2>4 DEF DeadInv, RevokedStaysDead, TypeInv, TypeOK
    <2>. QED BY <1>0, <2>5, <2>6, <2>7, <2>8 DEF DeadInv
  <1>7. CASE Tick
    BY <1>0, <1>7, DeadEnv DEF Tick, history, RowsFade
  <1>8. CASE UNCHANGED vars
    BY <1>0, <1>8, DeadEnv DEF vars, program, history, RowsFade
  <1>9. ASSUME NEW r \in Reqs, NEW n \in Nodes, NEW u \in Leavers, RevokeUserScan(r, n, u)
        PROVE  FALSE
    BY <1>9 DEF RevokeUserScan
  <1>. QED BY <1>1, <1>2, <1>3, <1>4, <1>5, <1>6, <1>7, <1>8, <1>9, LeaversAssumption DEF Next

(* Revocation is final (memstore's revocation, under the store's mutex):   *)
(* once reuse, the absolute lifetime or the application has revoked a      *)
(* family, no token of it that a client holds is ever in the store again,  *)
(* however many rotations were in flight, failed or crashed.               *)
THEOREM RevocationIsFinal == ASSUME AtomicRevoke PROVE Spec => []RevokedStaysDead
  <1>1. Init => DeadInv
    BY InitDeadInv
  <1>2. DeadInv /\ [Next]_vars => DeadInv'
    BY NextDeadInv
  <1>3. DeadInv => RevokedStaysDead
    BY DEF DeadInv
  <1>. QED BY <1>1, <1>2, <1>3, PTL DEF Spec
=============================================================================
