------------------------ MODULE RefreshLedgerProofs ------------------------
(***************************************************************************)
(* What the refresh grant guarantees about whole families, for every value *)
(* of the constants: no family is revoked without evidence                 *)
(* (RevocationNeedsEvidence), and no part of a family is forgotten before  *)
(* the rest (LedgerComplete).                                              *)
(***************************************************************************)
EXTENDS RefreshTokenProofs

(* Requests that have judged their token.                                  *)
Judged == Steps \ {"idle", "bind", "consume"}

(* A successor's family is its predecessor's, and no row is written twice. *)
KinOK ==
    /\ \A s \in minted : lineage[s].parent # None =>
         lineage[lineage[s].parent].family = lineage[s].family
    /\ \A t \in LegacyTokens : lineage[t].family = legacyFamilyID(t)
    /\ \A r \in Reqs : req[r].pc \in Judged /\ req[r].tok # None =>
         req[r].tok \in minted /\ lineage[req[r].tok].family = req[r].family
    /\ \A r \in Reqs : req[r].pc \in {"revoke", "deleting"} => req[r].tok # None
    /\ \A r \in Reqs : req[r].pc = "deleting" =>
         \A t \in req[r].victims : t \in minted /\ lineage[t].family = req[r].family
    /\ \A r \in Reqs : req[r].pc = "save" => rows[req[r].succ] = None

KinInv == CapInv /\ KinOK

Ended(f) == f \in revoked \/ Lapsed(f)

(* A token that was stored and is gone fell with its family.               *)
GoneOK ==
    /\ \A t \in issued : rows[t] = None /\ lineage[t].family \in Families => Ended(lineage[t].family)
    /\ \A r \in Reqs : (/\ req[r].pc \in {"reread", "remember"} /\ req[r].family \in Families
                        /\ rows[req[r].succ] = None) => Ended(req[r].family)

EvidenceInv == KinInv /\ GoneOK /\ RevocationNeedsEvidence

(* A family's tokens have one user, and only its login adds the first.     *)
UserOK ==
    /\ \A t \in Tokens : rows[t] # None /\ rows[t].family \in Families =>
         rows[t].user = origin[rows[t].family].user
    /\ \A r \in Reqs : req[r].pc \in Rotating /\ req[r].family \in Families =>
         req[r].user = origin[req[r].family].user
    /\ \A r \in Reqs : req[r].pc \in Rotating /\ req[r].tok = None =>
         /\ req[r].family \in Families
         /\ \A o \in Reqs : req[o].family = req[r].family => o = r
         /\ \A t \in minted : lineage[t].family = req[r].family => req[r].pc = "save" /\ t = req[r].succ

(* A family's tokens live and die together.                                *)
TogetherOK ==
    /\ \A t, s \in issued :
         (/\ lineage[t].family = lineage[s].family /\ lineage[t].family \in Families
          /\ rows[t] # None) => rows[s] # None
    /\ \A r \in Reqs : (/\ req[r].pc \in {"reread", "remember"} /\ req[r].family \in Families
                        /\ rows[req[r].tok] # None) => rows[req[r].succ] # None
    /\ \A r \in Reqs : (/\ req[r].pc = "remember" /\ req[r].family \in Families
                        /\ rows[req[r].succ] # None) => rows[req[r].tok] # None

LedgerInv == KinInv /\ UserOK /\ TogetherOK

-----------------------------------------------------------------------------
(* The history of a family.                                                *)

(* The family of every row that is not familyless is its token's.          *)
LEMMA RowKin ==
  ASSUME TypeInv, KinOK, NEW t \in Tokens, rows[t] # None
  PROVE  /\ t \in minted /\ familyToRevoke(rows[t], t) = lineage[t].family
         /\ rows[t].family \in FamilyIDs => rows[t].family = lineage[t].family
         /\ lineage[t].family \in Families => rows[t].family = lineage[t].family
  BY FamiliesAssumption DEF TypeInv, RowsOK, KinOK, familyToRevoke

(* Every step keeps successors in the family of their predecessors.        *)
LEMMA StepKinOK ==
  ASSUME CapInv, KinOK, StepShape
  PROVE  KinOK'
  <1>0. /\ TypeInv /\ DrawnOK /\ SpentOK
        /\ minted \subseteq Tokens /\ issued \subseteq minted /\ LegacyTokens \subseteq minted
        /\ None \notin Tokens
        /\ \A o \in Reqs : req[o].pc \in Issuing => req[o].succ \in minted
    BY TokensAssumption DEF CapInv, ForkInv, TypeInv, TypeOK, RowsOK, LocalsOK, LocalOK
  <1>1. CASE CalmShape
    <2>1. ASSUME NEW o \in Reqs
          PROVE  /\ req'[o].pc \in Judged => req[o].pc \in Judged /\ req'[o].tok = req[o].tok
                                              /\ req'[o].family = req[o].family
                 /\ req'[o].pc = "save" => req'[o] = req[o]
                 /\ req'[o].pc = "deleting" =>
                      \/ req'[o] = req[o]
                      \/ req'[o].victims = FamilyRows(req[o].family) /\ req'[o].family = req[o].family
                         /\ req[o].pc \in {"revoke", "undo"}
      BY <1>1, <2>1, IdleFields DEF CalmShape, ReadShape, Carries, Asks, Judged, Steps
    <2>2. ASSUME NEW o \in Reqs, req[o].pc \in {"revoke", "undo"}, NEW t \in FamilyRows(req[o].family)
          PROVE  t \in minted /\ lineage[t].family = req[o].family
      <3>1. req[o].family \in FamilyIDs /\ t \in Tokens /\ rows[t] # None /\ rows[t].family = req[o].family
        BY <1>0, <2>2 DEF FamilyRows, TypeInv, LocalsOK, LocalOK
      <3>. QED BY <1>0, <3>1, RowKin
    <2>3. \A o \in Reqs : req'[o].pc = "save" => rows'[req'[o].succ] = None
      BY <1>0, <1>1, <2>1 DEF CalmShape, KinOK, Issuing
    <2>4. \A o \in Reqs : req'[o].pc = "deleting" =>
            \A t \in req'[o].victims : t \in minted /\ lineage[t].family = req'[o].family
      BY <2>1, <2>2 DEF KinOK
    <2>5. minted' = minted /\ lineage' = lineage
      BY <1>1 DEF CalmShape
    <2>6. \A o \in Reqs : req'[o].pc \in {"revoke", "deleting"} => req'[o].tok # None
      <3>1. \A o \in Reqs : req'[o].pc \in {"revoke", "deleting"} =>
              /\ req[o].pc \in {"revoke", "deleting", "peek", "undo"}
              /\ req'[o].tok = req[o].tok
        BY <1>1, IdleFields DEF CalmShape, ReadShape, Carries, Asks
      <3>2. \A o \in Reqs : req[o].pc \in {"peek", "undo"} => req[o].tok # None
        BY <1>0 DEF TypeInv, LocalsOK, LocalOK
      <3>. QED BY <3>1, <3>2 DEF KinOK
    <2>. QED BY <2>1, <2>3, <2>4, <2>5, <2>6 DEF KinOK
  <1>2. ASSUME NEW r \in Reqs, NEW v \in LocalState, Moves(r, v), BusyShape(r, v)
        PROVE  KinOK'
    <2>m. req'[r] = v /\ \A o \in Reqs : o # r => req'[o] = req[o]
      BY <1>2 DEF Moves
    <2>1. ASSUME UNCHANGED <<minted, lineage>>,
                 \A t \in Tokens : rows[t] = None => rows'[t] = None,
                 v.pc \notin {"save", "deleting"}, v.pc = "revoke" => v.tok # None,
                 v.pc \in Judged /\ v.tok # None => v.tok \in minted /\ lineage[v.tok].family = v.family
          PROVE  KinOK'
      <3>1. \A o \in Reqs : req'[o].pc = "save" => rows'[req'[o].succ] = None
        BY <1>0, <2>1, <2>m DEF KinOK, Issuing
      <3>. QED BY <2>1, <2>m, <3>1 DEF KinOK
    <2>2. CASE ConsumeShape(r, v)
      <3>1. /\ req[r].tok \in Tokens /\ req[r].now \in Nat /\ StampShape(req[r].tok, req[r].now)
            /\ UNCHANGED <<minted, lineage>>
        BY <1>0, <2>2 DEF ConsumeShape, TypeInv, TypeOK, LocalState
      <3>2. \A t \in Tokens : rows[t] = None => rows'[t] = None
        BY <1>0, <3>1, StampFields
      <3>3. /\ v.pc \notin {"save", "deleting"}
            /\ v.pc = "revoke" => v.tok = req[r].tok
            /\ v # Idle => /\ rows[req[r].tok] # None /\ v.tok = req[r].tok
                           /\ v.family = familyToRevoke(rows[req[r].tok], req[r].tok)
        BY <2>2, IdleFields DEF ConsumeShape, JudgeShape, Asks
      <3>. QED BY <1>0, <2>1, <3>1, <3>2, <3>3, RowKin, IdleFields DEF Judged
    <2>3. CASE MintShape(r, v)
      <3>. DEFINE s == v.succ
      <3>1. /\ s \in Tokens \ minted /\ minted' = minted \cup {s}
            /\ lineage'[s].parent = req[r].tok /\ lineage'[s].family = req[r].family
            /\ v.tok = req[r].tok /\ v.family = req[r].family /\ v.pc = "save" /\ req[r].pc = "mint"
            /\ \A t \in minted : lineage'[t] = lineage[t]
            /\ rows' = rows
        BY <1>0, <2>3 DEF MintShape, Asks
      <3>2. rows[s] = None
        BY <1>0, <3>1 DEF TypeInv, RowsOK
      <3>3. req[r].tok # None => req[r].tok \in minted /\ lineage[req[r].tok].family = req[r].family
        BY <3>1 DEF KinOK, Judged, Steps
      <3>4. \A u \in minted : lineage[u].parent # None => lineage[u].parent \in minted
        BY <1>0 DEF SpentOK, TypeInv, TypeOK
      <3>5. \A u \in minted' : lineage'[u].parent # None =>
              lineage'[lineage'[u].parent].family = lineage'[u].family
        BY <3>1, <3>3, <3>4 DEF KinOK
      <3>6. \A o \in Reqs : req'[o].pc = "deleting" => o # r
        BY <2>m, <3>1
      <3>. HIDE DEF s
      <3>7. \A o \in Reqs : req'[o].pc \in Judged /\ req'[o].tok # None =>
              req'[o].tok \in minted' /\ lineage'[req'[o].tok].family = req'[o].family
        BY <2>m, <3>1, <3>3 DEF KinOK
      <3>8. \A o \in Reqs : req'[o].pc = "save" => rows'[req'[o].succ] = None
        BY <2>m, <3>1, <3>2 DEF KinOK, s
      <3>9. \A o \in Reqs : req'[o].pc = "deleting" =>
              \A t \in req'[o].victims : t \in minted' /\ lineage'[t].family = req'[o].family
        BY <2>m, <3>1, <3>6 DEF KinOK
      <3>10. \A o \in Reqs : req'[o].pc \in {"revoke", "deleting"} => req'[o].tok # None
        BY <2>m, <3>1 DEF KinOK
      <3>. QED BY <1>0, <3>1, <3>5, <3>7, <3>8, <3>9, <3>10 DEF KinOK
    <2>4. CASE SaveShape(r, v)
      <3>1. /\ req[r].pc = "save" /\ UNCHANGED <<minted, lineage>>
            /\ \A t \in Tokens : t # req[r].succ => rows'[t] = rows[t]
            /\ v.pc \notin {"save", "deleting", "revoke"}
            /\ v.pc # "idle" => v.tok = req[r].tok /\ v.family = req[r].family
        BY <2>4, IdleFields DEF SaveShape, Carries, Asks
      <3>2. v.pc \in Judged /\ v.tok # None => v.tok \in minted /\ lineage[v.tok].family = v.family
        BY <3>1 DEF KinOK, Judged, Steps
      <3>3. \A o \in Reqs : req'[o].pc = "save" =>
              o # r /\ req'[o] = req[o] /\ req[o].succ # req[r].succ /\ req[o].succ \in Tokens
        BY <1>0, <2>m, <3>1 DEF DrawnOK, Issuing
      <3>4. \A o \in Reqs : req'[o].pc = "save" => rows'[req'[o].succ] = None
        BY <3>1, <3>3 DEF KinOK
      <3>. QED BY <2>m, <3>1, <3>2, <3>4 DEF KinOK
    <2>5. CASE RememberShape(r, v)
      BY <2>1, <2>5, IdleFields DEF RememberShape, Judged
    <2>6. CASE LoginShape(r, v)
      BY <2>1, <2>6 DEF LoginShape
    <2>7. CASE PresentShape(r, v)
      BY <2>1, <2>7 DEF PresentShape, history, Judged
    <2>. QED BY <1>2, <2>2, <2>3, <2>4, <2>5, <2>6, <2>7 DEF BusyShape
  <1>. QED BY <1>1, <1>2, StepCases

(* The invariant of a family's history holds at the start ...              *)
LEMMA InitKinInv == Init => KinInv
  <1>. SUFFICES ASSUME Init PROVE KinInv
    OBVIOUS
  <1>1. /\ \A r \in Reqs : req[r].pc = "idle"
        /\ \A t \in Tokens : lineage[t].parent = None
        /\ \A t \in LegacyTokens : lineage[t].family = legacyFamilyID(t)
        /\ minted \subseteq Tokens
    BY TokensAssumption DEF Init, Idle
  <1>. QED BY <1>1, InitCapInv DEF KinInv, KinOK, Judged

(* ... and is inductive.                                                   *)
LEMMA NextKinInv == KinInv /\ [Next]_vars => KinInv' /\ StepShape
  BY NextCapInv, StepKinOK DEF KinInv

-----------------------------------------------------------------------------
(* RevocationNeedsEvidence.                                                *)

(* A family that has ended stays so: revocations are not undone and no     *)
(* clock runs backwards.                                                   *)
LEMMA EndedStable ==
  ASSUME TypeInv, TypeInv', StepShape, NEW f \in founded, Ended(f)
  PROVE  Ended(f)'
  <1>0. f \in Families /\ clock \in Nat /\ clock' \in Nat /\ Skew \in [Nodes -> Nat]
        /\ origin[f].at + AbsoluteTTL \in Nat
    BY TimesAssumption DEF TypeInv, TypeOK
  <1>1. clock' \in {clock, clock + 1} /\ revoked \subseteq revoked' /\ origin'[f] = origin[f]
    <2>1. ASSUME NEW r \in Reqs, NEW v \in LocalState,
                 HandleShape(r, v) \/ LoginShape(r, v) \/ PresentShape(r, v)
          PROVE  clock' \in {clock, clock + 1} /\ revoked \subseteq revoked' /\ origin'[f] = origin[f]
      BY <1>0, <2>1 DEF HandleShape, AnswerShape, ReadShape, ConsumeShape, MintShape, SaveShape,
            RememberShape, RevokeShape, LoginShape, PresentShape, history
    <2>2. PurgeShape \/ RevokeUserShape \/ CrashShape \/ TickShape =>
            clock' \in {clock, clock + 1} /\ revoked \subseteq revoked' /\ origin'[f] = origin[f]
      BY DEF PurgeShape, RevokeUserShape, CrashShape, TickShape, history
    <2>. QED BY <2>1, <2>2 DEF StepShape
  <1>2. CASE f \in revoked
    BY <1>1, <1>2 DEF Ended
  <1>3. CASE Lapsed(f)
    <2>1. PICK n \in Nodes : clock + Skew[n] >= origin[f].at + AbsoluteTTL
      BY <1>3 DEF Lapsed, Now
    <2>2. clock' + Skew[n] >= origin'[f].at + AbsoluteTTL
      BY <1>0, <1>1, <2>1
    <2>. QED BY <2>2 DEF Ended, Lapsed, Now
  <1>. QED BY <1>2, <1>3 DEF Ended

(* A row disappears only with its family's revocation or lifetime.         *)
LEMMA RowLoss ==
  ASSUME KinInv, StepShape, NEW t \in Tokens, rows[t] # None, rows'[t] = None,
         lineage[t].family \in Families
  PROVE  Ended(lineage[t].family)'  /\ CalmShape
  <1>. DEFINE f == lineage[t].family
  <1>0. /\ TypeInv /\ KinOK /\ BeginOK /\ None \notin Row /\ f = rows[t].family
        /\ familyToRevoke(rows[t], t) = f
    BY RowAssumption, RowKin DEF KinInv, CapInv, ForkInv
  <1>1. ASSUME NEW r \in Reqs, NEW v \in LocalState, BusyShape(r, v)
        PROVE  FALSE
    <2>1. CASE ConsumeShape(r, v)
      BY <1>0, <2>1, StampFields DEF ConsumeShape, TypeInv, TypeOK, LocalState
    <2>2. CASE SaveShape(r, v)
      BY <1>0, <2>2 DEF SaveShape
    <2>. QED BY <1>1, <2>1, <2>2 DEF BusyShape, MintShape, RememberShape, LoginShape, PresentShape
  <1>2. ASSUME NEW r \in Reqs, NEW v \in LocalState, HandleShape(r, v)
        PROVE  f \in revoked' /\ lineage' = lineage
    <2>1. RevokeShape(r, v)
      BY <1>1, <1>2 DEF HandleShape, BusyShape, AnswerShape, ReadShape
    <2>2. CASE req[r].pc = "logout"
      BY <1>0, <2>1, <2>2 DEF RevokeShape, Deleted, FamilyIDs
    <2>3. CASE req[r].pc # "logout"
      <3>1. req[r].family = f
        BY <1>0, <2>1, <2>3 DEF RevokeShape, Deleted, FamilyRows, KinOK
      <3>. QED BY <2>1, <2>3, <3>1 DEF RevokeShape
    <2>. QED BY <2>2, <2>3
  <1>3. CASE PurgeShape
    <2>1. PICK n \in Nodes : rows[t].familyExpires < Now(n) /\ UNCHANGED <<clock, lineage, origin>>
      BY <1>3 DEF PurgeShape, Deleted, history
    <2>2. rows[t].familyExpires = origin[f].at + AbsoluteTTL
      BY <1>0, FamiliesAssumption DEF BeginOK, Begin, FamilyIDs
    <2>3. origin[f].at + AbsoluteTTL \in Nat /\ Now(n) \in Nat
      BY <1>0, NowType, TimesAssumption DEF TypeInv, TypeOK
    <2>4. clock' + Skew[n] >= origin'[f].at + AbsoluteTTL /\ lineage' = lineage
      BY <2>1, <2>2, <2>3 DEF Now
    <2>. QED BY <1>1, <2>4, StepCases DEF Ended, Lapsed, Now
  <1>4. CASE RevokeUserShape
    <2>1. f \in revoked' /\ lineage' = lineage
      BY <1>0, <1>4 DEF RevokeUserShape, Deleted
    <2>. QED BY <1>1, <2>1, StepCases DEF Ended
  <1>5. CASE CrashShape \/ TickShape
    BY <1>5 DEF CrashShape, TickShape
  <1>6. ASSUME NEW r \in Reqs, NEW v \in LocalState, LoginShape(r, v) \/ PresentShape(r, v)
        PROVE  FALSE
    BY <1>1, <1>6 DEF BusyShape
  <1>7. CASE \E r \in Reqs, v \in LocalState : HandleShape(r, v)
    <2>1. f \in revoked' /\ lineage' = lineage
      BY <1>2, <1>7
    <2>. QED BY <1>1, <2>1, StepCases DEF Ended
  <1>. QED BY <1>3, <1>4, <1>5, <1>6, <1>7 DEF StepShape

(* Nothing that a step does to a row goes unnoticed: it is gone with its   *)
(* family, or it is the same but for its stamp.                            *)
LEMMA RowFate ==
  ASSUME KinInv, TypeInv', StepShape, NEW t \in minted, lineage[t].family \in Families
  PROVE  /\ lineage'[t] = lineage[t] /\ lineage[t].family \in founded
         /\ Ended(lineage[t].family) => Ended(lineage[t].family)'
         /\ rows[t] # None =>
              \/ rows'[t] = None /\ Ended(lineage[t].family)'
              \/ rows'[t] # None /\ rows'[t].expires = rows[t].expires
         /\ spentAt[t] # 0 => spentAt'[t] = spentAt[t]
  <1>0. /\ TypeInv /\ SpentOK /\ FoundedOK /\ KinOK /\ t \in Tokens
        /\ lineage[t].family \in founded
    BY DEF KinInv, CapInv, ForkInv, FoundedOK, TypeInv, TypeOK
  <1>1. lineage'[t] = lineage[t]
    BY <1>0, StepCases DEF CalmShape, BusyShape, ConsumeShape, MintShape, SaveShape, RememberShape,
          LoginShape, PresentShape, history
  <1>2. PICK f : f = lineage[t].family
    OBVIOUS
  <1>3. Ended(f) => Ended(f)'
    BY <1>0, <1>2, EndedStable
  <1>4. rows[t] # None /\ rows'[t] = None => Ended(f)'
    BY <1>0, <1>1, <1>2, RowLoss DEF Ended, Lapsed
  <1>5. rows[t] # None /\ rows'[t] # None => rows'[t].expires = rows[t].expires
    <2>1. CASE CalmShape
      BY <1>0, <2>1 DEF CalmShape
    <2>2. ASSUME NEW r \in Reqs, NEW v \in LocalState, BusyShape(r, v)
          PROVE  rows[t] # None /\ rows'[t] # None => rows'[t].expires = rows[t].expires
      <3>1. CASE ConsumeShape(r, v)
        BY <1>0, <3>1, StampFields DEF ConsumeShape, TypeInv, TypeOK, LocalState
      <3>2. CASE SaveShape(r, v)
        BY <1>0, <3>2 DEF SaveShape, KinOK
      <3>. QED BY <2>2, <3>1, <3>2 DEF BusyShape, MintShape, RememberShape, LoginShape, PresentShape
    <2>. QED BY <2>1, <2>2, StepCases
  <1>6. spentAt[t] # 0 => spentAt'[t] = spentAt[t]
    <2>1. CASE CalmShape
      BY <2>1 DEF CalmShape
    <2>2. ASSUME NEW r \in Reqs, NEW v \in LocalState, BusyShape(r, v)
          PROVE  spentAt[t] # 0 => spentAt'[t] = spentAt[t]
      <3>1. CASE ConsumeShape(r, v)
        BY <1>0, <3>1 DEF ConsumeShape, StampShape, SpentOK
      <3>. QED BY <2>2, <3>1 DEF BusyShape, MintShape, SaveShape, RememberShape, LoginShape,
             PresentShape, history
    <2>. QED BY <2>1, <2>2, StepCases
  <1>7. Ended(lineage[t].family)' = Ended(f)'
    BY <1>1, <1>2 DEF Ended, Lapsed
  <1>. QED BY <1>0, <1>1, <1>2, <1>3, <1>4, <1>5, <1>6, <1>7

(* Every step keeps the account of the tokens that are gone.               *)
LEMMA StepGoneOK ==
  ASSUME KinInv, TypeInv', GoneOK, StepShape
  PROVE  GoneOK'
  <1>0. /\ TypeInv /\ DrawnOK /\ issued \subseteq minted /\ minted \subseteq Tokens /\ None \notin Row
        /\ \A o \in Reqs : req[o].pc \in {"reread", "remember"} =>
             req[o].succ \in minted /\ lineage[req[o].succ].family = req[o].family
    BY RowAssumption DEF KinInv, CapInv, ForkInv, TypeInv, TypeOK, RowsOK, LocalsOK, LocalOK, Issuing
  <1>1. ASSUME NEW t \in minted, rows'[t] = None, lineage'[t].family \in Families,
               rows[t] = None /\ lineage[t].family \in Families => Ended(lineage[t].family)
        PROVE  Ended(lineage[t].family)' /\ lineage'[t] = lineage[t]
    <2>1. lineage'[t] = lineage[t]
      BY <1>0, StepCases DEF CalmShape, BusyShape, ConsumeShape, MintShape, SaveShape, RememberShape,
            LoginShape, PresentShape, history
    <2>. QED BY <1>1, <2>1, RowFate
  <1>2. ASSUME NEW t \in issued', rows'[t] = None, lineage'[t].family \in Families
        PROVE  Ended(lineage[t].family)'
    <2>1. t \in minted /\ (rows[t] = None /\ lineage[t].family \in Families => Ended(lineage[t].family))
      <3>1. CASE t \in issued
        BY <1>0, <3>1 DEF GoneOK
      <3>2. CASE t \notin issued
        <4>1. PICK r \in Reqs, v \in LocalState : SaveShape(r, v) \/ RememberShape(r, v)
          BY <1>2, <3>2, StepCases DEF CalmShape, BusyShape, ConsumeShape, MintShape, LoginShape,
                PresentShape, history
        <4>2. t = req[r].succ
          BY <1>2, <3>2, <4>1 DEF SaveShape, RememberShape
        <4>3. ~SaveShape(r, v)
          BY <1>0, <1>2, <4>2 DEF SaveShape
        <4>. QED BY <1>0, <4>1, <4>2, <4>3 DEF RememberShape, GoneOK
      <3>. QED BY <3>1, <3>2
    <2>. QED BY <1>1, <1>2, <2>1
  <1>3. ASSUME NEW o \in Reqs, req'[o].pc \in {"reread", "remember"}, req'[o].family \in Families,
               rows'[req'[o].succ] = None
        PROVE  Ended(req[o].family)' /\ req'[o].family = req[o].family
    <2>1. /\ req[o].pc \in {"reread", "remember"}
          /\ req'[o].family = req[o].family /\ req'[o].succ = req[o].succ
      <3>1. CASE CalmShape
        BY <1>3, <3>1, IdleFields DEF CalmShape, ReadShape, Carries
      <3>2. ASSUME NEW r \in Reqs, NEW v \in LocalState, Moves(r, v), BusyShape(r, v)
            PROVE  req'[o] = req[o]
        <4>1. CASE o = r
          <5>1. req'[o] = v
            BY <3>2, <4>1 DEF Moves
          <5>2. CASE SaveShape(r, v)
            BY <1>0, <1>3, <5>1, <5>2, <4>1, IdleFields DEF SaveShape
          <5>. QED BY <1>3, <3>2, <5>1, <5>2, IdleFields DEF BusyShape, ConsumeShape, JudgeShape,
                 MintShape, RememberShape, LoginShape, PresentShape
        <4>. QED BY <3>2, <4>1 DEF Moves
      <3>. QED BY <1>3, <3>1, <3>2, StepCases
    <2>2. PICK s \in minted : s = req[o].succ /\ lineage[s].family = req[o].family
      BY <1>0, <2>1
    <2>3. lineage'[s] = lineage[s]
      BY <1>3, <2>1, <2>2, RowFate
    <2>4. Ended(lineage[s].family)'
      BY <1>1, <1>3, <2>1, <2>2, <2>3 DEF GoneOK
    <2>. QED BY <2>1, <2>2, <2>3, <2>4 DEF Ended, Lapsed
  <1>4. \A o \in Reqs : (/\ req'[o].pc \in {"reread", "remember"} /\ req'[o].family \in Families
                         /\ rows'[req'[o].succ] = None) => Ended(req[o].family)'
    BY <1>3
  <1>. QED BY <1>2, <1>4 DEF GoneOK

(* The evidence that a revocation of token t's family f at time now has.   *)
Late(t, now) == spentAt[t] # 0 /\ now > spentAt[t] + GracePeriod
MovedOn(t, now) ==
    \E s \in minted : /\ lineage[s].parent = t
                      /\ spentAt[s] # 0 \/ (rows[s] # None /\ now >= rows[s].expires)
Evidence(t, now, f) == Ended(f) \/ Late(t, now) \/ MovedOn(t, now)

(* Evidence does not fade.                                                 *)
LEMMA EvidenceStable ==
  ASSUME KinInv, TypeInv', StepShape, NEW t \in minted, NEW now \in Nat,
         lineage[t].family \in Families, Evidence(t, now, lineage[t].family)
  PROVE  Evidence(t, now, lineage[t].family)'
  <1>0. /\ lineage'[t] = lineage[t] /\ None \notin Tokens /\ minted \subseteq Tokens
        /\ KinOK /\ StepShape
    BY RowFate, TokensAssumption DEF KinInv, CapInv, ForkInv, TypeInv, TypeOK
  <1>1. CASE Ended(lineage[t].family)
    BY <1>1, RowFate DEF Evidence
  <1>2. CASE Late(t, now)
    BY <1>2, RowFate DEF Late, Evidence
  <1>3. CASE MovedOn(t, now)
    <2>1. PICK s \in minted : /\ lineage[s].parent = t
                              /\ spentAt[s] # 0 \/ (rows[s] # None /\ now >= rows[s].expires)
      BY <1>3 DEF MovedOn
    <2>2. lineage[s].family = lineage[t].family
      BY <1>0, <2>1 DEF KinOK
    <2>3. /\ lineage'[s] = lineage[s]
          /\ rows[s] # None =>
               \/ rows'[s] = None /\ Ended(lineage[s].family)'
               \/ rows'[s] # None /\ rows'[s].expires = rows[s].expires
          /\ spentAt[s] # 0 => spentAt'[s] = spentAt[s]
      BY <2>2, RowFate
    <2>4. minted \subseteq minted'
      BY <1>0, StepCases DEF CalmShape, BusyShape, ConsumeShape, MintShape, SaveShape, RememberShape,
            LoginShape, PresentShape
    <2>5. CASE rows'[s] = None /\ Ended(lineage[s].family)'
      BY <1>0, <2>2, <2>3, <2>5 DEF Ended, Lapsed, Evidence
    <2>6. CASE spentAt'[s] # 0 \/ (rows'[s] # None /\ now >= rows'[s].expires)
      BY <2>1, <2>3, <2>4, <2>6 DEF Evidence, MovedOn
    <2>. QED BY <2>1, <2>3, <2>5, <2>6
  <1>. QED BY <1>1, <1>2, <1>3 DEF Evidence

(* A verdict that a family must be revoked has evidence: grace is on, so a *)
(* replay that is refused came after the window, for it came from the      *)
(* token's own client; a first use that is refused came after the absolute *)
(* lifetime of the login.                                                  *)
LEMMA JudgedEvidence ==
  ASSUME GracePeriod > 0, KinInv, NEW r \in Reqs, NEW v \in LocalState,
         ConsumeShape(r, v), v.pc = "revoke", v.family \in Families
  PROVE  /\ v.tok \in minted /\ v.family = lineage[v.tok].family
         /\ v.now = req[r].now /\ Evidence(v.tok, v.now, v.family)
         /\ spentAt[v.tok] # 0 \/ Ended(v.family)
  <1>. DEFINE t == req[r].tok
              row == rows[t]
  <1>0. /\ TypeInv /\ TimeOK /\ SpentOK /\ OwnerOK /\ FoundedOK /\ BeginOK /\ KinOK
        /\ t \in Tokens /\ req[r].pc = "consume" /\ None \notin Tokens
    BY TokensAssumption DEF KinInv, CapInv, ForkInv, ConsumeShape
  <1>1. /\ v.tok = t /\ v.now = req[r].now /\ v.client = req[r].client
        /\ v.family = familyToRevoke(row, t) /\ row # None
        /\ \/ row.consumed # 0 /\ ~GraceWindowOpen(row, req[r].client, req[r].now)
           \/ row.consumed = 0 /\ PastAbsoluteTTL(row, req[r].now)
    BY IdleFields DEF ConsumeShape, JudgeShape, Asks
  <1>2. t \in minted /\ v.family = lineage[t].family /\ row.family = v.family
    BY <1>0, <1>1, RowKin
  <1>3. req[r].now \in Nat /\ row \in Row /\ row.consumed \in Nat /\ GracePeriod \in Nat
        /\ AbsoluteTTL \in Nat /\ clock \in Nat
    BY <1>0, <1>1, TimesAssumption DEF TypeInv, TypeOK, LocalState, Row
  <1>4. CASE row.consumed # 0 /\ ~GraceWindowOpen(row, req[r].client, req[r].now)
    <2>1. row.client = req[r].client /\ row.consumed = spentAt[t]
      BY <1>0, <1>1 DEF OwnerOK, SpentOK
    <2>2. spentAt[t] # 0 /\ req[r].now > spentAt[t] + GracePeriod
      BY <1>3, <1>4, <2>1 DEF GraceWindowOpen
    <2>. QED BY <1>1, <1>2, <2>2 DEF Evidence, Late
  <1>5. CASE PastAbsoluteTTL(row, req[r].now)
    <2>1. v.family \in founded /\ None \notin Families
      BY <1>0, <1>1, <1>2, FamiliesAssumption DEF FoundedOK, FamilyIDs
    <2>2. row.familyCreated = origin[v.family].at /\ origin[v.family].at > 0 /\ origin[v.family].at \in Nat
      BY <1>0, <1>1, <1>2, <2>1 DEF BeginOK, Begin, FoundedOK, TypeInv, TypeOK
    <2>3. req[r].now >= origin[v.family].at + AbsoluteTTL
      BY <1>5, <2>2 DEF PastAbsoluteTTL, familyStart
    <2>4. req[r].now <= Now(req[r].node) /\ req[r].node \in Nodes
      BY <1>0 DEF TimeOK, TypeInv, LocalsOK, LocalOK
    <2>5. Now(req[r].node) \in Nat
      BY <1>0, <2>4, NowType DEF TypeInv
    <2>6. Lapsed(v.family)
      BY <1>3, <2>2, <2>3, <2>4, <2>5 DEF Lapsed
    <2>. QED BY <1>1, <1>2, <2>6 DEF Evidence, Ended
  <1>. QED BY <1>1, <1>4, <1>5

(* Every step leaves the revocations under way with evidence.              *)
LEMMA StepEvidence ==
  ASSUME GracePeriod > 0, "get" \notin Faults,
         KinInv, TypeInv', GoneOK, RevocationNeedsEvidence, StepShape
  PROVE  RevocationNeedsEvidence'
  <1>0. /\ TypeInv /\ TimeOK /\ SpentOK /\ GraceOK /\ KinOK
        /\ issued \subseteq minted /\ minted \subseteq Tokens /\ None \notin Tokens
    BY TokensAssumption DEF KinInv, CapInv, ForkInv, TypeInv, TypeOK, RowsOK
  <1>1. \A o \in Reqs : (req[o].pc \in {"revoke", "undo", "deleting"} /\ req[o].family \in Families) =>
          Evidence(req[o].tok, req[o].now, req[o].family)
    BY DEF RevocationNeedsEvidence, Evidence, Ended, Late, MovedOn
  <1>2. ASSUME NEW o \in Reqs, req'[o].pc \in {"revoke", "undo", "deleting"}, req'[o].family \in Families
        PROVE  \E t \in minted, n \in Nat :
                 /\ req'[o].tok = t /\ req'[o].now = n /\ req'[o].family = lineage[t].family
                 /\ Evidence(t, n, lineage[t].family)
    <2>1. CASE CalmShape
      <3>1. /\ req'[o].tok = req[o].tok /\ req'[o].now = req[o].now /\ req'[o].family = req[o].family
            /\ \/ req[o].pc \in {"revoke", "undo", "deleting"}
               \/ req[o].pc = "peek" /\ ~StillUnused(rows[req[o].succ], req[o].now)
               \/ req[o].pc = "reread" /\ rows[req[o].tok] = None
        BY <1>2, <2>1, IdleFields DEF CalmShape, ReadShape, Carries, Asks
      <3>2. /\ req[o].tok \in minted /\ req[o].family = lineage[req[o].tok].family
            /\ req[o].now \in Nat
            /\ (req[o].pc \in {"peek", "reread"} => req[o].tok \in issued)
        <4>1. req[o].tok # None
          BY <1>0, <3>1 DEF KinOK, TypeInv, LocalsOK, LocalOK
        <4>2. req[o].pc \in Judged
          BY <3>1 DEF Judged, Steps
        <4>3. req[o].pc \in {"peek", "reread"} => req[o].tok \in issued
          BY <1>0 DEF TypeInv, LocalsOK, LocalOK
        <4>. QED BY <1>0, <4>1, <4>2, <4>3 DEF KinOK, TypeInv, TypeOK, LocalState
      <3>3. PICK t \in minted, n \in Nat : t = req[o].tok /\ n = req[o].now
        BY <3>2
      <3>4. PICK f \in Families : f = req[o].family /\ f = lineage[t].family
        BY <1>2, <3>1, <3>2, <3>3
      <3>5. CASE req[o].pc \in {"revoke", "undo", "deleting"}
        <4>1. Evidence(t, n, f)
          BY <1>1, <3>3, <3>4, <3>5
        <4>. QED BY <3>1, <3>3, <3>4, <4>1
      <3>6. CASE req[o].pc = "peek" /\ ~StillUnused(rows[req[o].succ], req[o].now)
        <4>1. PICK s \in issued : s = req[o].succ /\ lineage[s].parent = t
          BY <1>0, <3>3, <3>6 DEF GraceOK
        <4>2. lineage[s].family = f /\ s \in minted
          BY <1>0, <3>4, <4>1 DEF KinOK
        <4>3. CASE rows[s] = None
          <5>1. Evidence(t, n, f)
            BY <4>1, <4>2, <4>3 DEF GoneOK, Evidence
          <5>. QED BY <3>1, <3>3, <3>4, <5>1
        <4>4. CASE rows[s] # None
          <5>1. rows[s] \in Row /\ rows[s].consumed = spentAt[s]
            BY <1>0, <4>2, <4>4 DEF SpentOK, TypeInv, TypeOK
          <5>2. spentAt[s] # 0 \/ n >= rows[s].expires
            BY <3>3, <3>6, <4>1, <4>4, <5>1 DEF StillUnused, Row
          <5>3. Evidence(t, n, f)
            BY <4>1, <4>2, <4>4, <5>2 DEF MovedOn, Evidence
          <5>. QED BY <3>1, <3>3, <3>4, <5>3
        <4>. QED BY <4>3, <4>4
      <3>7. CASE req[o].pc = "reread" /\ rows[req[o].tok] = None
        <4>1. Evidence(t, n, f)
          BY <3>2, <3>3, <3>4, <3>7 DEF GoneOK, Evidence
        <4>. QED BY <3>1, <3>3, <3>4, <4>1
      <3>. QED BY <3>1, <3>5, <3>6, <3>7
    <2>2. ASSUME NEW r \in Reqs, NEW v \in LocalState, Moves(r, v), BusyShape(r, v)
          PROVE  \E t \in minted, n \in Nat :
                   /\ req'[o].tok = t /\ req'[o].now = n /\ req'[o].family = lineage[t].family
                   /\ Evidence(t, n, lineage[t].family)
      <3>1. CASE o # r
        <4>1. req'[o] = req[o]
          BY <2>2, <3>1 DEF Moves
        <4>2. req[o].tok # None
          BY <1>0, <1>2, <4>1 DEF KinOK, TypeInv, LocalsOK, LocalOK
        <4>3. req[o].pc \in Judged /\ req[o].now \in Nat
          BY <1>0, <1>2, <4>1 DEF Judged, Steps, TypeInv, TypeOK, LocalState
        <4>. QED BY <1>0, <1>1, <1>2, <4>1, <4>2, <4>3 DEF KinOK
      <3>2. CASE o = r
        <4>1. req'[o] = v
          BY <2>2, <3>2 DEF Moves
        <4>2. ConsumeShape(r, v) /\ v.pc = "revoke" /\ v.family \in Families /\ v.now \in Nat
          BY <1>2, <2>2, <4>1, IdleFields DEF BusyShape, ConsumeShape, JudgeShape, MintShape, SaveShape,
                RememberShape, LoginShape, PresentShape, LocalState
        <4>. QED BY <4>1, <4>2, JudgedEvidence
      <3>. QED BY <3>1, <3>2
    <2>. QED BY <2>1, <2>2, StepCases
  <1>3. ASSUME NEW o \in Reqs, req'[o].pc \in {"revoke", "undo", "deleting"}, req'[o].family \in Families
        PROVE  Evidence(req[o].tok, req[o].now, req[o].family)'
    <2>1. PICK t \in minted, n \in Nat :
            /\ req'[o].tok = t /\ req'[o].now = n /\ req'[o].family = lineage[t].family
            /\ Evidence(t, n, lineage[t].family)
      BY <1>2, <1>3
    <2>2. PICK f \in Families : f = lineage[t].family
      BY <1>3, <2>1
    <2>3. lineage'[t].family = f
      BY <2>2, RowFate
    <2>4. Evidence(t, n, lineage[t].family)'
      BY <2>1, <2>2, EvidenceStable
    <2>. QED BY <2>1, <2>2, <2>3, <2>4 DEF Evidence, Ended, Lapsed, Late, MovedOn
  <1>. QED BY <1>3 DEF RevocationNeedsEvidence, Evidence, Ended, Late, MovedOn

(* A family that a login founded is revoked only on evidence of reuse or   *)
(* of its lifetime's end, with either store, whatever races, retries,      *)
(* restarts and failed writes there are.  Two settings are excluded, for   *)
(* in both the code revokes on less: with RefreshGracePeriod off any       *)
(* second use is reuse, and graceApplies takes a failed read for "used".   *)
THEOREM NoHastyRevocation ==
  ASSUME GracePeriod > 0, "get" \notin Faults
  PROVE  Spec => []RevocationNeedsEvidence
  <1>1. Init => EvidenceInv
    <2>. SUFFICES ASSUME Init PROVE EvidenceInv
      OBVIOUS
    <2>1. KinInv /\ TypeInv
      BY InitKinInv DEF KinInv, CapInv, ForkInv
    <2>2. /\ \A r \in Reqs : req[r].pc = "idle"
          /\ issued = LegacyTokens
      BY DEF Init, Idle
    <2>. QED BY <2>1, <2>2 DEF EvidenceInv, GoneOK, RevocationNeedsEvidence, TypeInv, RowsOK
  <1>2. EvidenceInv /\ [Next]_vars => EvidenceInv'
    <2>. SUFFICES ASSUME EvidenceInv, [Next]_vars PROVE EvidenceInv'
      OBVIOUS
    <2>1. KinInv /\ KinInv' /\ StepShape
      BY NextKinInv DEF EvidenceInv
    <2>2. TypeInv'
      BY <2>1 DEF KinInv, CapInv, ForkInv
    <2>. QED BY <2>1, <2>2, StepGoneOK, StepEvidence DEF EvidenceInv
  <1>3. EvidenceInv => RevocationNeedsEvidence
    BY DEF EvidenceInv
  <1>. QED BY <1>1, <1>2, <1>3, PTL DEF Spec

-----------------------------------------------------------------------------
(* LedgerComplete.                                                         *)

(* Every step keeps a family its user's, and a login's family its own.     *)
LEMMA StepUserOK ==
  ASSUME KinInv, UserOK, StepShape
  PROVE  UserOK'
  <1>0. /\ TypeInv /\ DrawnOK /\ FoundedOK /\ KinOK /\ None \notin Row /\ None \notin Families
        /\ issued \subseteq minted /\ minted \subseteq Tokens /\ None \notin Tokens
        /\ \A o \in Reqs : req[o].pc = "save" => req[o].succ \in minted
    BY RowAssumption, FamiliesAssumption, TokensAssumption
       DEF KinInv, CapInv, ForkInv, FamilyIDs, TypeInv, TypeOK, RowsOK, LocalsOK, LocalOK, Issuing
  <1>1. CASE CalmShape
    <2>1. \A o \in Reqs : req'[o].family \in {req[o].family, None}
      BY <1>1, IdleFields DEF CalmShape, ReadShape, Carries
    <2>2. \A o \in Reqs : req'[o].pc \in Rotating => req'[o] = req[o]
      BY <1>1, IdleFields DEF CalmShape, ReadShape, Rotating
    <2>3. UNCHANGED <<minted, lineage, origin>> /\ \A t \in Tokens : rows'[t] \in {None, rows[t]}
      BY <1>1 DEF CalmShape
    <2>. QED BY <1>0, <2>1, <2>2, <2>3 DEF UserOK
  <1>2. ASSUME NEW r \in Reqs, NEW v \in LocalState, Moves(r, v), BusyShape(r, v)
        PROVE  UserOK'
    <2>m. req'[r] = v /\ \A o \in Reqs : o # r => req'[o] = req[o]
      BY <1>2 DEF Moves
    <2>1. ASSUME UNCHANGED <<minted, lineage, origin>>, v.pc \notin Rotating,
                 v.family \in {req[r].family, None},
                 \A t \in Tokens : rows'[t] # None /\ rows'[t].family \in Families =>
                   rows'[t].user = origin[rows'[t].family].user
          PROVE  UserOK'
      BY <1>0, <2>1, <2>m DEF UserOK
    <2>2. CASE ConsumeShape(r, v)
      <3>1. /\ req[r].tok \in issued /\ req[r].tok \in Tokens /\ req[r].now \in Nat
            /\ StampShape(req[r].tok, req[r].now)
            /\ UNCHANGED <<minted, lineage, origin>>
        BY <1>0, <2>2 DEF ConsumeShape, TypeInv, TypeOK, LocalState, LocalsOK, LocalOK
      <3>2. \A t \in Tokens : rows'[t] # None =>
              rows[t] # None /\ rows'[t].family = rows[t].family /\ rows'[t].user = rows[t].user
        BY <1>0, <3>1, StampFields
      <3>3. CASE v = Idle
        BY <2>1, <3>1, <3>2, <3>3, IdleFields DEF UserOK, Rotating
      <3>4. CASE v # Idle
        <4>1. /\ rows[req[r].tok] # None /\ v.tok = req[r].tok
              /\ v.family = familyToRevoke(rows[req[r].tok], req[r].tok)
              /\ v.pc \in Rotating => v.user = rows[req[r].tok].user
          BY <2>2, <3>4 DEF ConsumeShape, JudgeShape, Asks, Rotating
        <4>2. v.family = lineage[req[r].tok].family
          BY <1>0, <3>1, <4>1, RowKin
        <4>3. v.family \in Families => rows[req[r].tok].family = v.family
          BY <1>0, <3>1, <4>1, <4>2, RowKin
        <4>4. ASSUME NEW o \in Reqs, o # r, req[o].pc \in Rotating, req[o].tok = None
              PROVE  v.family # req[o].family
          <5>1. req[o].pc = "save" => req[o].succ \notin issued
            BY <1>0 DEF DrawnOK, Issuing
          <5>. QED BY <1>0, <3>1, <4>2, <4>4, <5>1 DEF UserOK
        <4>5. v.pc \in Rotating /\ v.family \in Families => v.user = origin[v.family].user
          BY <3>1, <4>1, <4>3 DEF UserOK
        <4>6. v.tok # None
          BY <1>0, <3>1, <4>1
        <4>7. \A t \in Tokens : rows'[t] # None /\ rows'[t].family \in Families =>
                rows'[t].user = origin'[rows'[t].family].user
          BY <3>1, <3>2 DEF UserOK
        <4>8. \A o \in Reqs : req'[o].pc \in Rotating /\ req'[o].family \in Families =>
                req'[o].user = origin'[req'[o].family].user
          BY <2>m, <3>1, <4>5 DEF UserOK
        <4>9. \A o \in Reqs : req'[o].pc \in Rotating /\ req'[o].tok = None =>
                /\ req'[o].family \in Families
                /\ \A p \in Reqs : req'[p].family = req'[o].family => p = o
                /\ \A t \in minted' : lineage'[t].family = req'[o].family =>
                     req'[o].pc = "save" /\ t = req'[o].succ
          BY <2>m, <3>1, <4>4, <4>6 DEF UserOK
        <4>. QED BY <4>7, <4>8, <4>9 DEF UserOK
      <3>. QED BY <3>3, <3>4
    <2>3. CASE MintShape(r, v)
      <3>1. /\ v.succ \in Tokens \ minted /\ minted' = minted \cup {v.succ}
            /\ lineage'[v.succ].family = req[r].family /\ v.family = req[r].family
            /\ v.user = req[r].user /\ v.tok = req[r].tok /\ v.pc = "save" /\ req[r].pc = "mint"
            /\ \A t \in minted : lineage'[t] = lineage[t]
            /\ UNCHANGED <<rows, origin>>
        BY <1>0, <2>3 DEF MintShape, Asks
      <3>2. \A o \in Reqs : req'[o].family = req[o].family
        BY <2>m, <3>1
      <3>3. \A o \in Reqs : req'[o].pc \in Rotating /\ req'[o].family \in Families =>
              req'[o].user = origin[req'[o].family].user
        BY <2>m, <3>1 DEF UserOK, Rotating
      <3>4. ASSUME NEW o \in Reqs, req'[o].pc \in Rotating, req'[o].tok = None
            PROVE  /\ req'[o].family \in Families
                   /\ \A p \in Reqs : req'[p].family = req'[o].family => p = o
                   /\ \A t \in minted' : lineage'[t].family = req'[o].family =>
                        req'[o].pc = "save" /\ t = req'[o].succ
        <4>1. req[o].pc \in Rotating /\ req[o].tok = None
          BY <2>m, <3>1, <3>4 DEF Rotating
        <4>2. /\ req'[o].family \in Families
              /\ \A p \in Reqs : req'[p].family = req'[o].family => p = o
          BY <3>2, <4>1 DEF UserOK
        <4>3. CASE o = r
          BY <2>m, <3>1, <4>1, <4>2, <4>3 DEF UserOK
        <4>4. CASE o # r
          BY <2>m, <3>1, <4>1, <4>2, <4>4 DEF UserOK
        <4>. QED BY <4>2, <4>3, <4>4
      <3>. QED BY <3>1, <3>3, <3>4 DEF UserOK
    <2>4. CASE SaveShape(r, v)
      <3>1. /\ rows'[req[r].succ].family = req[r].family /\ rows'[req[r].succ].user = req[r].user
            /\ \A t \in Tokens : t # req[r].succ => rows'[t] = rows[t]
            /\ v.family \in {req[r].family, None} /\ v.pc \notin Rotating /\ req[r].pc = "save"
        BY <2>4, IdleFields DEF SaveShape, TokenRow, Carries, Rotating
      <3>2. \A t \in Tokens : rows'[t] # None /\ rows'[t].family \in Families =>
              rows'[t].user = origin[rows'[t].family].user
        BY <3>1 DEF UserOK, Rotating
      <3>. QED BY <2>1, <2>4, <3>1, <3>2 DEF SaveShape
    <2>5. CASE RememberShape(r, v)
      BY <2>1, <2>5, IdleFields DEF RememberShape, UserOK, Rotating
    <2>6. CASE LoginShape(r, v)
      <3>1. /\ v.family \in Families \ founded /\ v.pc = "mint"
            /\ origin'[v.family].user = v.user
            /\ \A f \in Families : f # v.family => origin'[f] = origin[f]
            /\ UNCHANGED <<rows, minted, lineage>>
        BY <2>6 DEF LoginShape
      <3>2. /\ \A o \in Reqs : req[o].family # v.family
            /\ \A t \in minted : lineage[t].family # v.family
            /\ \A t \in Tokens : rows[t] # None => rows[t].family # v.family
        BY <1>0, <3>1 DEF FoundedOK
      <3>. QED BY <2>m, <3>1, <3>2 DEF UserOK
    <2>7. CASE PresentShape(r, v)
      BY <2>1, <2>7 DEF PresentShape, history, UserOK, Rotating
    <2>. QED BY <1>2, <2>2, <2>3, <2>4, <2>5, <2>6, <2>7 DEF BusyShape
  <1>. QED BY <1>1, <1>2, StepCases

(* A deletion takes a family's tokens together: RevokeRefreshTokenFamily   *)
(* matches the family, PurgeExpired a deadline that its tokens share, and  *)
(* RevokeRefreshTokensForUser their user.                                  *)
LEMMA FamilyFalls ==
  ASSUME AtomicRevoke, KinInv, UserOK, StepShape, CalmShape,
         NEW t \in Tokens, NEW s \in Tokens, rows[t] # None, rows[s] # None,
         lineage[t].family = lineage[s].family, lineage[t].family \in Families, rows'[t] # None
  PROVE  rows'[s] # None
  <1>. DEFINE f == lineage[t].family
  <1>0. /\ TypeInv /\ KinOK /\ BeginOK /\ None \notin Row /\ None \notin Families
        /\ rows[t].family = f /\ rows[s].family = f /\ rows[t].user = rows[s].user
        /\ rows[t] \in Row /\ rows[s] \in Row
    <2>1. TypeInv /\ KinOK /\ BeginOK /\ None \notin Row /\ None \notin Families
      BY RowAssumption, FamiliesAssumption DEF KinInv, CapInv, ForkInv, FamilyIDs
    <2>2. rows[t].family = f /\ rows[s].family = f
      BY <2>1, RowKin
    <2>. QED BY <2>1, <2>2 DEF UserOK, TypeInv, TypeOK
  <1>1. rows'[t] = rows[t]
    BY DEF CalmShape
  <1>. HIDE DEF f
  <1>2. ASSUME NEW r \in Reqs, NEW v \in LocalState,
               HandleShape(r, v) \/ LoginShape(r, v) \/ PresentShape(r, v)
        PROVE  rows'[s] # None
    <2>1. CASE RevokeShape(r, v)
      BY <1>0, <2>1 DEF RevokeShape, Deleted, FamilyRows
    <2>2. CASE ConsumeShape(r, v)
      BY <1>0, <2>2, StampFields DEF ConsumeShape, TypeInv, TypeOK, LocalState
    <2>3. CASE SaveShape(r, v)
      BY <1>0, <2>3 DEF SaveShape
    <2>. QED BY <1>2, <2>1, <2>2, <2>3 DEF HandleShape, AnswerShape, ReadShape, MintShape,
           RememberShape, LoginShape, PresentShape
  <1>3. CASE PurgeShape
    <2>1. PICK n \in Nodes :
            Deleted({x \in Tokens : /\ rows[x] # None /\ rows[x].expires < Now(n)
                                    /\ rows[x].familyExpires < Now(n)})
      BY <1>3 DEF PurgeShape
    <2>2. /\ rows[t].familyExpires = rows[s].familyExpires
          /\ rows[t].expires <= rows[t].familyExpires
      BY <1>0, f \in Families DEF BeginOK, f
    <2>3. /\ rows[t].familyExpires \in Nat /\ rows[t].expires \in Nat /\ Now(n) \in Nat
      BY <1>0, NowType DEF Row, TypeInv
    <2>4. ~(rows[t].expires < Now(n) /\ rows[t].familyExpires < Now(n))
      BY <2>1 DEF Deleted
    <2>5. ~(rows[s].familyExpires < Now(n))
      BY <2>2, <2>3, <2>4
    <2>. QED BY <2>1, <2>5 DEF Deleted
  <1>4. CASE RevokeUserShape
    BY <1>0, <1>4 DEF RevokeUserShape, Deleted
  <1>5. CASE CrashShape \/ TickShape
    BY <1>5 DEF CrashShape, TickShape
  <1>. QED BY <1>2, <1>3, <1>4, <1>5 DEF StepShape

(* Every step keeps the tokens of a family in the store together.          *)
LEMMA StepTogetherOK ==
  ASSUME AtomicRevoke, KinInv, UserOK, TogetherOK, StepShape
  PROVE  TogetherOK'
  <1>0. /\ TypeInv /\ DrawnOK /\ SpentOK /\ KinOK /\ None \notin Row /\ None \notin Families
        /\ issued \subseteq minted /\ minted \subseteq Tokens /\ None \notin Tokens
        /\ \A o \in Reqs : req[o].pc \in Issuing =>
             /\ req[o].succ \in minted /\ lineage[req[o].succ].family = req[o].family
             /\ req[o].succ \notin issued
        /\ \A o \in Reqs : req[o].pc \in {"reread", "remember"} =>
             req[o].tok \in issued /\ lineage[req[o].tok].family = req[o].family
    <2>1. /\ TypeInv /\ DrawnOK /\ SpentOK /\ KinOK /\ None \notin Row /\ None \notin Families
          /\ issued \subseteq minted /\ minted \subseteq Tokens /\ None \notin Tokens
      BY RowAssumption, FamiliesAssumption, TokensAssumption
         DEF KinInv, CapInv, ForkInv, FamilyIDs, TypeInv, TypeOK, RowsOK
    <2>2. \A o \in Reqs : req[o].pc \in Issuing =>
             /\ req[o].succ \in minted /\ lineage[req[o].succ].family = req[o].family
             /\ req[o].succ \notin issued
      BY <2>1 DEF TypeInv, LocalsOK, LocalOK, DrawnOK
    <2>3. \A o \in Reqs : req[o].pc \in {"reread", "remember"} =>
             req[o].tok \in issued /\ lineage[req[o].tok].family = req[o].family
      BY <2>1 DEF TypeInv, LocalsOK, LocalOK, KinOK, Judged, Steps
    <2>. QED BY <2>1, <2>2, <2>3
  <1>1. CASE CalmShape
    <2>1. /\ \A t \in Tokens : rows'[t] # None => rows[t] # None
          /\ UNCHANGED <<minted, issued, lineage>>
      BY <1>1 DEF CalmShape
    <2>2. ASSUME NEW t \in Tokens, NEW s \in Tokens, lineage[t].family = lineage[s].family,
                 lineage[t].family \in Families, rows'[t] # None, rows[t] # None => rows[s] # None
          PROVE  rows'[s] # None
      BY <1>1, <2>1, <2>2, FamilyFalls
    <2>3. ASSUME NEW o \in Reqs, req'[o].pc \in {"reread", "remember"}
          PROVE  /\ req[o].pc \in {"reread", "remember"} /\ req'[o].family = req[o].family
                 /\ req'[o].tok = req[o].tok /\ req'[o].succ = req[o].succ
                 /\ req'[o].pc = "remember" => req[o].pc = "remember" \/ rows[req[o].tok] # None
      BY <1>1, <2>3, IdleFields DEF CalmShape, ReadShape, Carries, Asks
    <2>4. \A t, s \in issued' :
            (/\ lineage'[t].family = lineage'[s].family /\ lineage'[t].family \in Families
             /\ rows'[t] # None) => rows'[s] # None
      BY <1>0, <2>1, <2>2 DEF TogetherOK
    <2>5. ASSUME NEW o \in Reqs, req'[o].pc \in {"reread", "remember"}, req'[o].family \in Families,
                 rows'[req'[o].tok] # None
          PROVE  rows'[req'[o].succ] # None
      <3>1. /\ req[o].pc \in {"reread", "remember"} /\ req'[o].family = req[o].family
            /\ req'[o].tok = req[o].tok /\ req'[o].succ = req[o].succ
        BY <2>3, <2>5
      <3>2. /\ req[o].tok \in Tokens /\ req[o].succ \in Tokens
            /\ lineage[req[o].tok].family = lineage[req[o].succ].family
            /\ lineage[req[o].tok].family \in Families
        BY <1>0, <2>5, <3>1 DEF Issuing
      <3>3. rows[req[o].tok] # None => rows[req[o].succ] # None
        BY <2>5, <3>1 DEF TogetherOK
      <3>. QED BY <2>2, <2>5, <3>1, <3>2, <3>3
    <2>6. ASSUME NEW o \in Reqs, req'[o].pc = "remember", req'[o].family \in Families,
                 rows'[req'[o].succ] # None
          PROVE  rows'[req'[o].tok] # None
      <3>1. /\ req[o].pc \in {"reread", "remember"} /\ req'[o].family = req[o].family
            /\ req'[o].tok = req[o].tok /\ req'[o].succ = req[o].succ
            /\ req[o].pc = "remember" \/ rows[req[o].tok] # None
        BY <2>3, <2>6
      <3>2. /\ req[o].tok \in Tokens /\ req[o].succ \in Tokens
            /\ lineage[req[o].tok].family = lineage[req[o].succ].family
            /\ lineage[req[o].succ].family \in Families
        BY <1>0, <2>6, <3>1 DEF Issuing
      <3>3. rows[req[o].succ] # None => rows[req[o].tok] # None
        BY <2>6, <3>1 DEF TogetherOK
      <3>. QED BY <2>2, <2>6, <3>1, <3>2, <3>3
    <2>. QED BY <2>4, <2>5, <2>6 DEF TogetherOK
  <1>2. ASSUME NEW r \in Reqs, NEW v \in LocalState, Moves(r, v), BusyShape(r, v)
        PROVE  TogetherOK'
    <2>m. req'[r] = v /\ \A o \in Reqs : o # r => req'[o] = req[o]
      BY <1>2 DEF Moves
    <2>1. ASSUME UNCHANGED <<issued, lineage>>, v.pc \notin {"reread", "remember"},
                 \A t \in Tokens : rows'[t] # None <=> rows[t] # None
          PROVE  TogetherOK'
      <3>1. \A o \in Reqs : req'[o].pc \in {"reread", "remember"} =>
              /\ req'[o] = req[o] /\ req[o].tok \in Tokens /\ req[o].succ \in Tokens
        BY <1>0, <2>1, <2>m DEF Issuing
      <3>. QED BY <1>0, <2>1, <3>1 DEF TogetherOK
    <2>2. CASE ConsumeShape(r, v)
      <3>1. \A t \in Tokens : rows'[t] # None <=> rows[t] # None
        BY <1>0, <2>2, StampFields DEF ConsumeShape, TypeInv, TypeOK, LocalState
      <3>. QED BY <2>1, <2>2, <3>1, IdleFields DEF ConsumeShape, JudgeShape
    <2>3. CASE MintShape(r, v)
      <3>1. /\ v.pc = "save" /\ UNCHANGED <<rows, issued>>
            /\ \A t \in minted : lineage'[t] = lineage[t]
        BY <1>0, <2>3 DEF MintShape
      <3>. QED BY <1>0, <2>m, <3>1 DEF TogetherOK
    <2>4. CASE SaveShape(r, v)
      <3>. DEFINE x == req[r].succ
      <3>1. /\ req[r].pc = "save" /\ x \in minted /\ x \notin issued /\ rows'[x] # None
            /\ lineage[x].family = req[r].family
            /\ \A t \in Tokens : t # x => rows'[t] = rows[t]
            /\ UNCHANGED <<minted, lineage>>
        BY <1>0, <2>4 DEF SaveShape, Issuing
      <3>2. \A o \in Reqs : o # r /\ req[o].pc \in {"reread", "remember"} =>
              /\ req[o].succ # x /\ req[o].succ \in Tokens
              /\ req[o].tok # x /\ req[o].tok \in Tokens
        BY <1>0, <3>1 DEF DrawnOK, Issuing
      <3>3. issued' # issued =>
              /\ issued' = issued \cup {x}
              /\ \A t \in issued : lineage[t].family # lineage[x].family
        BY <1>0, <2>4, <3>1 DEF SaveShape, UserOK, Rotating
      <3>4. v.pc # "remember" /\ (v.pc = "reread" => v.succ = x)
        BY <2>4, IdleFields DEF SaveShape
      <3>. HIDE DEF x
      <3>5. \A t, s \in issued' :
              (/\ lineage'[t].family = lineage'[s].family /\ lineage'[t].family \in Families
               /\ rows'[t] # None) => rows'[s] # None
        BY <1>0, <3>1, <3>3 DEF TogetherOK
      <3>. QED BY <2>m, <3>1, <3>2, <3>4, <3>5 DEF TogetherOK
    <2>5. CASE RememberShape(r, v)
      <3>. DEFINE x == req[r].succ
                  p == req[r].tok
      <3>1. /\ req[r].pc = "remember" /\ issued' = issued \cup {x} /\ v.pc = "idle"
            /\ UNCHANGED <<rows, lineage>>
        BY <2>5, IdleFields DEF RememberShape
      <3>2. p \in issued /\ lineage[p].family = lineage[x].family
        BY <1>0, <3>1 DEF Issuing
      <3>3. lineage[x].family \in Families => (rows[x] # None <=> rows[p] # None)
        BY <1>0, <3>1 DEF TogetherOK, Issuing
      <3>. HIDE DEF x, p
      <3>4. \A t, s \in issued' :
              (/\ lineage[t].family = lineage[s].family /\ lineage[t].family \in Families
               /\ rows[t] # None) => rows[s] # None
        BY <3>1, <3>2, <3>3 DEF TogetherOK
      <3>. QED BY <2>m, <3>1, <3>4 DEF TogetherOK
    <2>6. CASE LoginShape(r, v)
      BY <2>1, <2>6 DEF LoginShape
    <2>7. CASE PresentShape(r, v)
      BY <2>1, <2>7 DEF PresentShape, history
    <2>. QED BY <1>2, <2>2, <2>3, <2>4, <2>5, <2>6, <2>7 DEF BusyShape
  <1>. QED BY <1>1, <1>2, StepCases

(* The ledger's invariant holds at the start ...                           *)
LEMMA InitLedgerInv == Init => LedgerInv
  <1>. SUFFICES ASSUME Init PROVE LedgerInv
    OBVIOUS
  <1>1. KinInv /\ TypeInv
    BY InitKinInv DEF KinInv, CapInv, ForkInv
  <1>2. /\ \A r \in Reqs : req[r].pc = "idle"
        /\ \A t \in Tokens : rows[t] # None => rows[t].family = None
        /\ issued = LegacyTokens /\ LegacyTokens \subseteq Tokens
        /\ \A t \in LegacyTokens : lineage[t].family \notin Families
    BY <1>1, TokensAssumption DEF Init, Idle, LegacyRows, TypeInv, RowsOK
  <1>. QED BY <1>1, <1>2, FamiliesAssumption DEF LedgerInv, UserOK, TogetherOK, Rotating, FamilyIDs

(* ... and is inductive.                                                   *)
LEMMA NextLedgerInv ==
  ASSUME AtomicRevoke
  PROVE  LedgerInv /\ [Next]_vars => LedgerInv' /\ StepShape
  <1>. SUFFICES ASSUME LedgerInv, [Next]_vars PROVE LedgerInv' /\ StepShape
    OBVIOUS
  <1>1. KinInv' /\ StepShape
    BY NextKinInv DEF LedgerInv
  <1>. QED BY <1>1, StepUserOK, StepTogetherOK DEF LedgerInv

(* With a store that revokes under its mutex the reuse ledger is complete: *)
(* while one token of a session that was handed out is in the store all    *)
(* the others are, and the rotated ones are stamped, so a replay is never  *)
(* taken for an unknown token while the session lives.  (pgstore's DELETE  *)
(* may leave the successor of a rotation in flight behind; see the run     *)
(* PostgresRevokeRace.)                                                    *)
THEOREM LedgerStaysComplete ==
  ASSUME AtomicRevoke
  PROVE  Spec => []LedgerComplete
  <1>1. LedgerInv => LedgerComplete
    <2>. SUFFICES ASSUME LedgerInv PROVE LedgerComplete
      OBVIOUS
    <2>1. /\ SpentOK /\ TogetherOK /\ issued \subseteq minted /\ minted \subseteq Tokens
          /\ None \notin Tokens
      BY TokensAssumption DEF LedgerInv, KinInv, CapInv, ForkInv, TypeInv, TypeOK, RowsOK
    <2>2. ASSUME NEW s \in issued, NEW c \in issued, lineage[c].parent = s, rows[s] # None
          PROVE  rows[s].consumed # 0
      BY <2>1, <2>2 DEF SpentOK
    <2>. QED BY <2>1, <2>2 DEF LedgerComplete, TogetherOK
  <1>. QED BY <1>1, InitLedgerInv, NextLedgerInv, PTL DEF Spec
=============================================================================
