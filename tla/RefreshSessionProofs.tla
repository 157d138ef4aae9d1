------------------------ MODULE RefreshSessionProofs ------------------------
(***************************************************************************)
(* The refresh grant with an atomic revocation implements Session, for     *)
(* every value of the constants: initial states map to initial states and  *)
(* every step to a step of Session or to a stutter.                        *)
(***************************************************************************)
EXTENDS RefreshSession, RefreshLedgerProofs

RefInv == LedgerInv /\ OneHead /\ LegacyUnused

(* The four phases, one at a time.                                         *)
PhaseFacts(f) ==
    /\ HandedOut(f) = {} => sessionPhase[f] = "unborn"
    /\ HandedOut(f) # {} /\ Over(f) => sessionPhase[f] = "over"
    /\ HandedOut(f) # {} /\ ~Over(f) /\ Usable(f) # {} => sessionPhase[f] = "held"
    /\ HandedOut(f) # {} /\ ~Over(f) /\ Usable(f) = {} => sessionPhase[f] = "spent"

(* sessionPhase tells the phases apart, before and after a step.           *)
LEMMA Phases ==
  ASSUME NEW f \in Families
  PROVE  PhaseFacts(f) /\ PhaseFacts(f)'
  <1>1. sessionPhase[f] = CASE HandedOut(f) = {} -> "unborn"
                            [] Over(f) -> "over"
                            [] Usable(f) # {} -> "held"
                            [] OTHER -> "spent"
    BY DEF sessionPhase
  <1>2. (HandedOut(f) = {} \/ Over(f) => Usable(f) = {}) /\ (Over(f) => HandedOut(f) # {})
    BY DEF Over, Usable
  <1>3. PhaseFacts(f)
    BY <1>1, <1>2 DEF PhaseFacts
  <1>4. sessionPhase'[f] = CASE HandedOut(f)' = {} -> "unborn"
                             [] Over(f)' -> "over"
                             [] Usable(f)' # {} -> "held"
                             [] OTHER -> "spent"
    BY DEF sessionPhase
  <1>5. (HandedOut(f) = {} \/ Over(f) => Usable(f) = {})' /\ (Over(f) => HandedOut(f) # {})'
    BY DEF Over, Usable
  <1>6. PhaseFacts(f)'
    BY <1>4, <1>5 DEF PhaseFacts
  <1>. QED BY <1>3, <1>6

(* A family whose handed-out tokens a step leaves alone looks the same.    *)
LEMMA SameFamily ==
  ASSUME NEW f \in Families, HandedOut(f)' = HandedOut(f),
         \A t \in HandedOut(f) : rows'[t] = rows[t]
  PROVE  sessionPhase'[f] = sessionPhase[f] /\ Usable(f)' = Usable(f)
  <1>1. Usable(f)' = Usable(f) /\ Over(f)' = Over(f)
    BY DEF Usable, Over
  <1>2. PhaseFacts(f) /\ PhaseFacts(f)'
    BY Phases
  <1>. QED BY <1>1, <1>2 DEF PhaseFacts

sessionCurrent == [f \in Families |-> Usable(f)]

(* A step that leaves all handed-out tokens alone is a stutter.            *)
LEMMA SessionStutter ==
  ASSUME \A f \in Families :
           HandedOut(f)' = HandedOut(f) /\ \A t \in HandedOut(f) : rows'[t] = rows[t],
         sessionUsed' = sessionUsed
  PROVE  UNCHANGED S!vars
  <1>1. \A f \in Families : sessionPhase'[f] = sessionPhase[f] /\ Usable(f)' = Usable(f)
    BY SameFamily
  <1>2. sessionPhase' = sessionPhase
    BY <1>1 DEF sessionPhase
  <1>3. sessionCurrent' = sessionCurrent
    BY <1>1 DEF sessionCurrent
  <1>. QED BY <1>2, <1>3 DEF S!vars, sessionCurrent

(* A rotated token: the handler's stamp is the session's Spend.            *)
LEMMA ConsumeIsSpend ==
  ASSUME RefInv, NEW r \in Reqs, NEW v \in LocalState, ConsumeShape(r, v)
  PROVE  [S!Next]_(S!vars)
  <1>t. PICK t : t = req[r].tok
    OBVIOUS
  <1>f. PICK f : f = lineage[t].family
    OBVIOUS
  <1>0. /\ TypeInv /\ TimeOK /\ KinOK /\ SpentOK /\ OneHead /\ None \notin Row
        /\ None \notin Tokens /\ FamilyIDs = FamilyIDs \cup Families
        /\ t \in issued /\ t \in Tokens /\ issued \subseteq Tokens
        /\ req[r].now \in Nat /\ req[r].now # 0 /\ StampShape(t, req[r].now)
        /\ f = lineage[t].family /\ UNCHANGED <<minted, issued, lineage>>
    <2>1. /\ TypeInv /\ TimeOK /\ KinOK /\ SpentOK /\ OneHead
          /\ None \notin Row /\ None \notin Tokens
      BY RowAssumption, TokensAssumption DEF RefInv, LedgerInv, KinInv, CapInv, ForkInv
    <2>2. t \in issued /\ t \in Tokens /\ issued \subseteq Tokens /\ req[r].now \in Nat
      BY <1>t, <2>1 DEF ConsumeShape, TypeInv, TypeOK, LocalsOK, LocalOK, LocalState
    <2>3. req[r].now # 0
      BY <1>t, <2>1, <2>2 DEF ConsumeShape, TimeOK
    <2>. QED BY <1>t, <1>f, <2>1, <2>2, <2>3 DEF ConsumeShape, FamilyIDs
  <1>1. \A g \in Families : HandedOut(g)' = HandedOut(g)
    BY <1>0 DEF HandedOut
  <1>2. ASSUME rows'[t] = rows[t], spentAt'[t] = spentAt[t]
        PROVE  UNCHANGED S!vars
    <2>1. \A g \in Families : \A s \in HandedOut(g) : rows'[s] = rows[s]
      BY <1>0, <1>2 DEF HandedOut, StampShape
    <2>2. sessionUsed' = sessionUsed
      BY <1>0, <1>2 DEF sessionUsed, StampShape
    <2>. QED BY <1>1, <2>1, <2>2, SessionStutter
  <1>3. ASSUME rows[t] # None, rows[t].consumed = 0,
               rows'[t] = [rows[t] EXCEPT !.consumed = req[r].now], spentAt'[t] = req[r].now
        PROVE  S!Next \/ UNCHANGED S!vars
    <2>0. rows[t] \in Row /\ rows'[t] # None /\ rows'[t].consumed # 0 /\ spentAt[t] = 0
      <3>1. rows[t] \in Row
        BY <1>0, <1>3 DEF TypeInv, TypeOK
      <3>. QED BY <1>0, <1>3, <3>1, StampFields, StampedRow DEF SpentOK
    <2>1. CASE f \notin Families
      <3>1. \A g \in Families : \A s \in HandedOut(g) : rows'[s] = rows[s]
        BY <1>0, <2>1 DEF HandedOut, StampShape
      <3>2. sessionUsed' = sessionUsed
        BY <1>0, <2>1 DEF sessionUsed, StampShape
      <3>. QED BY <1>1, <3>1, <3>2, SessionStutter
    <2>2. CASE f \in Families
      <3>1. rows[t].family = f
        BY <1>0, <1>3, <2>2, RowKin
      <3>2. Usable(f) = {t}
        <4>1. t \in Usable(f)
          BY <1>0, <1>3 DEF Usable, HandedOut
        <4>2. ASSUME NEW s \in Usable(f) PROVE s = t
          <5>1. s \in Tokens /\ rows[s] # None /\ rows[s].consumed = 0 /\ lineage[s].family = f
            BY <1>0 DEF Usable, HandedOut
          <5>2. rows[s].family = f
            BY <1>0, <2>2, <5>1, RowKin
          <5>. QED BY <1>0, <1>3, <2>2, <3>1, <5>1, <5>2 DEF OneHead, Live
        <4>. QED BY <4>1, <4>2
      <3>3. t \in HandedOut(f) /\ t \in HandedOut(f)' /\ ~Over(f) /\ ~Over(f)'
        BY <1>0, <1>1, <1>3, <2>0, <2>2 DEF HandedOut, Over
      <3>4. Usable(f)' = {}
        <4>1. ASSUME NEW s \in HandedOut(f), rows'[s] # None, rows'[s].consumed = 0 PROVE FALSE
          <5>1. s # t /\ s \in Tokens
            BY <1>0, <2>0, <4>1 DEF HandedOut
          <5>2. s \in Usable(f)
            BY <1>0, <4>1, <5>1 DEF Usable, StampShape
          <5>. QED BY <3>2, <5>1, <5>2
        <4>. QED BY <1>1, <2>2, <4>1 DEF Usable
      <3>5. sessionPhase[f] = "held" /\ sessionPhase'[f] = "spent"
        BY <2>2, <3>2, <3>3, <3>4, Phases DEF PhaseFacts
      <3>6. \A g \in Families : g # f =>
              sessionPhase'[g] = sessionPhase[g] /\ Usable(g)' = Usable(g)
        <4>1. \A g \in Families : g # f => \A s \in HandedOut(g) : rows'[s] = rows[s]
          BY <1>0 DEF HandedOut, StampShape
        <4>. QED BY <1>1, <4>1, SameFamily
      <3>7. sessionUsed' = sessionUsed \cup {t}
        <4>1. \A s \in issued : spentAt'[s] # 0 <=> spentAt[s] # 0 \/ s = t
          BY <1>0, <1>3 DEF StampShape
        <4>. QED BY <1>0, <2>2, <4>1 DEF sessionUsed
      <3>8. S!Spend(f)
        <4>1. sessionPhase' = [sessionPhase EXCEPT ![f] = "spent"]
          BY <3>5, <3>6 DEF sessionPhase
        <4>2. sessionCurrent' = [sessionCurrent EXCEPT ![f] = {}]
          BY <3>4, <3>6 DEF sessionCurrent
        <4>3. sessionUsed' = sessionUsed \cup sessionCurrent[f]
          BY <2>2, <3>2, <3>7 DEF sessionCurrent
        <4>. QED BY <3>5, <4>1, <4>2, <4>3 DEF S!Spend, sessionCurrent
      <3>. QED BY <2>2, <3>8 DEF S!Next
    <2>. QED BY <2>1, <2>2
  <1>. QED BY <1>0, <1>2, <1>3 DEF StampShape

(* A token x that is handed out, stored and unused takes the session f     *)
(* from a phase without a working token to "held".                         *)
LEMMA IssueIsHandOut ==
  ASSUME RefInv, NEW x \in Tokens, NEW f \in Families, NEW p,
         x \notin issued, issued' = issued \cup {x}, lineage[x].family = f, lineage' = lineage,
         spentAt' = spentAt, spentAt[x] = 0, rows'[x] # None, rows'[x].consumed = 0,
         \A t \in issued : rows'[t] = rows[t],
         Usable(f) = {}, sessionPhase[f] = p
  PROVE  S!HandOut(f, p)
  <1>0. issued \subseteq Tokens
    BY DEF RefInv, LedgerInv, KinInv, CapInv, ForkInv, TypeInv, TypeOK
  <1>1. HandedOut(f)' = HandedOut(f) \cup {x}
    BY DEF HandedOut
  <1>2. \A g \in Families : g # f =>
          HandedOut(g)' = HandedOut(g) /\ \A t \in HandedOut(g) : rows'[t] = rows[t]
    BY DEF HandedOut
  <1>3. Usable(f)' = {x}
    <2>1. \A t \in HandedOut(f) : t \in issued /\ ~(rows'[t] # None /\ rows'[t].consumed = 0)
      BY DEF Usable, HandedOut
    <2>. QED BY <1>1, <2>1 DEF Usable
  <1>4. sessionPhase'[f] = "held"
    <2>1. HandedOut(f)' # {} /\ ~Over(f)' /\ Usable(f)' # {}
      BY <1>1, <1>3 DEF Over
    <2>. QED BY <2>1, Phases DEF PhaseFacts
  <1>5. \A g \in Families : g # f => sessionPhase'[g] = sessionPhase[g] /\ Usable(g)' = Usable(g)
    BY <1>2, SameFamily
  <1>6. sessionUsed' = sessionUsed /\ x \notin sessionUsed
    BY DEF sessionUsed
  <1>7. \A g \in Families : x \notin sessionCurrent[g]
    BY DEF sessionCurrent, Usable, HandedOut
  <1>8. sessionPhase' = [sessionPhase EXCEPT ![f] = "held"]
    <2>1. /\ sessionPhase = [g \in Families |-> sessionPhase[g]]
          /\ sessionPhase' = [g \in Families |-> sessionPhase'[g]]
      BY DEF sessionPhase
    <2>. QED BY <1>4, <1>5, <2>1
  <1>9. sessionCurrent' = [sessionCurrent EXCEPT ![f] = {x}]
    BY <1>3, <1>5 DEF sessionCurrent
  <1>. QED BY <1>6, <1>7, <1>8, <1>9 DEF S!HandOut, S!Fresh, sessionCurrent

(* A login's answer opens its session; a rotation's write shows nothing.   *)
LEMMA SaveIsOpen ==
  ASSUME RefInv, NEW r \in Reqs, NEW v \in LocalState, SaveShape(r, v)
  PROVE  [S!Next]_(S!vars)
  <1>x. PICK x : x = req[r].succ
    OBVIOUS
  <1>f. PICK f : f = req[r].family
    OBVIOUS
  <1>0. /\ SpentOK /\ UserOK /\ None \notin Row /\ issued \subseteq minted /\ minted \subseteq Tokens
        /\ x \in minted /\ x \notin issued /\ lineage[x].family = f /\ req[r].pc = "save"
        /\ UNCHANGED <<lineage, spentAt>>
        /\ rows'[x] # None /\ rows'[x].consumed = 0
        /\ \A t \in issued : rows'[t] = rows[t]
    <2>1. /\ TypeInv /\ DrawnOK /\ SpentOK /\ UserOK /\ None \notin Row
      BY RowAssumption DEF RefInv, LedgerInv, KinInv, CapInv, ForkInv
    <2>2. issued \subseteq minted /\ minted \subseteq Tokens
      BY <2>1 DEF TypeInv, TypeOK, RowsOK
    <2>3. x \in minted /\ x \notin issued /\ lineage[x].family = f /\ req[r].pc = "save"
      BY <1>x, <1>f, <2>1 DEF SaveShape, DrawnOK, TypeInv, LocalsOK, LocalOK, Issuing
    <2>4. rows'[x] # None /\ rows'[x].consumed = 0 /\ UNCHANGED <<lineage, spentAt>>
      BY <1>x, <2>1 DEF SaveShape, TokenRow
    <2>5. \A t \in issued : rows'[t] = rows[t]
      BY <1>x, <2>2, <2>3 DEF SaveShape
    <2>. QED BY <2>1, <2>2, <2>3, <2>4, <2>5
  <1>1. CASE issued' = issued
    <2>1. \A g \in Families :
            HandedOut(g)' = HandedOut(g) /\ \A t \in HandedOut(g) : rows'[t] = rows[t]
      BY <1>0, <1>1 DEF HandedOut
    <2>2. sessionUsed' = sessionUsed
      BY <1>0, <1>1 DEF sessionUsed
    <2>. QED BY <2>1, <2>2, SessionStutter
  <1>2. CASE issued' # issued
    <2>1. req[r].tok = None /\ issued' = issued \cup {x}
      BY <1>x, <1>2 DEF SaveShape
    <2>2. f \in Families /\ HandedOut(f) = {}
      <3>1. f \in Families /\ \A t \in minted : lineage[t].family = f => t = x
        BY <1>x, <1>f, <1>0, <2>1 DEF UserOK, Rotating
      <3>. QED BY <1>0, <3>1 DEF HandedOut
    <2>3. Usable(f) = {} /\ sessionPhase[f] = "unborn"
      BY <2>2, Phases DEF PhaseFacts, Usable
    <2>4. spentAt[x] = 0 /\ x \in Tokens
      BY <1>0 DEF SpentOK
    <2>5. S!HandOut(f, "unborn")
      BY <1>0, <2>1, <2>2, <2>3, <2>4, IssueIsHandOut
    <2>. QED BY <2>2, <2>5 DEF S!Next, S!Open
  <1>. QED BY <1>1, <1>2

(* A rotation's answer renews the session, unless it is over: then the     *)
(* token that was handed out is as dead as the others.                     *)
LEMMA RememberIsRenew ==
  ASSUME RefInv, NEW r \in Reqs, NEW v \in LocalState, RememberShape(r, v)
  PROVE  [S!Next]_(S!vars)
  <1>x. PICK x : x = req[r].succ
    OBVIOUS
  <1>p. PICK t : t = req[r].tok
    OBVIOUS
  <1>f. PICK f : f = req[r].family
    OBVIOUS
  <1>0. /\ TypeInv /\ SpentOK /\ KinOK /\ TogetherOK /\ OneHead
        /\ issued \subseteq Tokens /\ x \in Tokens /\ x \notin issued /\ lineage[x].family = f
        /\ t \in issued /\ lineage[t].family = f /\ t # None
        /\ issued' = issued \cup {x} /\ UNCHANGED <<rows, lineage, spentAt>>
        /\ req[r].pc = "remember"
    <2>1. /\ TypeInv /\ DrawnOK /\ SpentOK /\ KinOK /\ TogetherOK /\ OneHead
      BY DEF RefInv, LedgerInv, KinInv, CapInv, ForkInv
    <2>2. issued \subseteq Tokens /\ minted \subseteq Tokens /\ req[r].pc = "remember"
      BY <2>1 DEF TypeInv, TypeOK, RememberShape
    <2>3. x \in minted /\ x \notin issued /\ lineage[x].family = f
      BY <1>x, <1>f, <2>1, <2>2 DEF DrawnOK, TypeInv, LocalsOK, LocalOK, Issuing
    <2>4. t \in issued /\ t # None
      BY <1>p, <2>1, <2>2, TokensAssumption DEF TypeInv, LocalsOK, LocalOK
    <2>5. lineage[t].family = f
      BY <1>p, <1>f, <2>1, <2>2, <2>4 DEF KinOK, Judged, Steps
    <2>. QED BY <1>x, <2>1, <2>2, <2>3, <2>4, <2>5 DEF RememberShape
  <1>u. spentAt[x] = 0
    BY <1>0 DEF SpentOK
  <1>1. sessionUsed' = sessionUsed
    BY <1>0, <1>u DEF sessionUsed
  <1>2. \A g \in Families : g # f => HandedOut(g)' = HandedOut(g)
    BY <1>0 DEF HandedOut
  <1>3. CASE f \notin Families
    <2>1. \A g \in Families :
            HandedOut(g)' = HandedOut(g) /\ \A s \in HandedOut(g) : rows'[s] = rows[s]
      BY <1>0, <1>2, <1>3
    <2>. QED BY <1>1, <2>1, SessionStutter
  <1>4. CASE f \in Families /\ rows[x] # None
    <2>1. rows[t] # None
      BY <1>x, <1>p, <1>f, <1>0, <1>4 DEF TogetherOK
    <2>2. rows[x].consumed = 0 /\ rows[x].family = f
      BY <1>0, <1>u, <1>4, RowKin DEF SpentOK
    <2>3. Usable(f) = {}
      <3>1. ASSUME NEW s \in Usable(f) PROVE FALSE
        <4>1. s \in issued /\ s \in Tokens /\ rows[s] # None /\ rows[s].consumed = 0 /\ lineage[s].family = f
          BY <1>0 DEF Usable, HandedOut
        <4>2. rows[s].family = f
          BY <1>0, <1>4, <4>1, RowKin
        <4>. QED BY <1>0, <1>4, <2>2, <4>1, <4>2 DEF OneHead, Live, FamilyIDs
      <3>. QED BY <3>1
    <2>4. t \in HandedOut(f) /\ ~Over(f)
      BY <1>0, <2>1 DEF HandedOut, Over
    <2>5. sessionPhase[f] = "spent"
      BY <1>4, <2>3, <2>4, Phases DEF PhaseFacts
    <2>6. S!HandOut(f, "spent")
      BY <1>0, <1>u, <1>4, <2>2, <2>3, <2>5, IssueIsHandOut
    <2>. QED BY <1>4, <2>6 DEF S!Next, S!Renew
  <1>5. CASE f \in Families /\ rows[x] = None
    <2>1. rows[t] = None
      BY <1>x, <1>p, <1>f, <1>0, <1>5 DEF TogetherOK
    <2>2. t \in HandedOut(f) /\ HandedOut(f)' = HandedOut(f) \cup {x}
      BY <1>0 DEF HandedOut
    <2>3. \A s \in HandedOut(f) : rows[s] = None
      BY <1>0, <1>5, <2>1 DEF HandedOut, TogetherOK
    <2>4. Over(f) /\ Over(f)' /\ Usable(f) = {} /\ Usable(f)' = {}
      BY <1>0, <1>5, <2>2, <2>3 DEF Over, Usable
    <2>5. sessionPhase'[f] = sessionPhase[f] /\ Usable(f)' = Usable(f)
      BY <1>5, <2>2, <2>4, Phases DEF PhaseFacts
    <2>6. \A g \in Families : g # f => sessionPhase'[g] = sessionPhase[g] /\ Usable(g)' = Usable(g)
      BY <1>0, <1>2, SameFamily
    <2>7. sessionPhase' = sessionPhase
      BY <2>5, <2>6 DEF sessionPhase
    <2>8. sessionCurrent' = sessionCurrent
      BY <2>5, <2>6 DEF sessionCurrent
    <2>. QED BY <1>1, <2>7, <2>8 DEF S!vars, sessionCurrent
  <1>. QED BY <1>3, <1>4, <1>5

(* Deletions end sessions; everything else that hands out, stamps and      *)
(* stores nothing is a stutter (End of no session).                        *)
LEMMA CalmIsEnd ==
  ASSUME AtomicRevoke, RefInv, StepShape, CalmShape
  PROVE  S!Next
  <1>. DEFINE F == {f \in Families : Over(f)'}
  <1>0. /\ KinInv /\ UserOK /\ TogetherOK /\ issued \subseteq Tokens
        /\ UNCHANGED <<issued, lineage, spentAt>>
        /\ \A t \in Tokens : rows'[t] \in {None, rows[t]}
    BY DEF RefInv, LedgerInv, KinInv, CapInv, ForkInv, TypeInv, TypeOK, CalmShape
  <1>1. sessionUsed' = sessionUsed
    BY <1>0 DEF sessionUsed
  <1>2. ASSUME NEW f \in Families
        PROVE  /\ sessionPhase'[f] = IF Over(f)' THEN "over" ELSE sessionPhase[f]
               /\ Usable(f)' = IF Over(f)' THEN {} ELSE Usable(f)
    <2>1. HandedOut(f)' = HandedOut(f)
      BY <1>0 DEF HandedOut
    <2>2. CASE Over(f)'
      <3>1. HandedOut(f)' # {} /\ Usable(f)' = {}
        BY <2>2 DEF Over, Usable
      <3>. QED BY <2>2, <3>1, Phases DEF PhaseFacts
    <2>3. CASE ~Over(f)'
      <3>1. ASSUME NEW t \in HandedOut(f) PROVE rows'[t] = rows[t]
        <4>1. PICK s \in HandedOut(f) : rows'[s] # None
          BY <2>1, <2>3, <3>1 DEF Over
        <4>2. /\ t \in issued /\ t \in Tokens /\ lineage[t].family = f
              /\ s \in issued /\ s \in Tokens /\ lineage[s].family = f
          BY <1>0, <3>1, <4>1 DEF HandedOut
        <4>3. rows[s] # None /\ rows[t] # None
          BY <1>0, <4>1, <4>2 DEF TogetherOK
        <4>4. rows'[t] # None
          BY <1>0, <4>1, <4>2, <4>3, FamilyFalls
        <4>. QED BY <1>0, <4>2, <4>4
      <3>. QED BY <2>1, <2>3, <3>1, SameFamily
    <2>. QED BY <2>2, <2>3
  <1>3. sessionPhase' = [f \in Families |-> IF f \in F THEN "over" ELSE sessionPhase[f]]
    BY <1>2 DEF sessionPhase
  <1>4. sessionCurrent' = [f \in Families |-> IF f \in F THEN {} ELSE sessionCurrent[f]]
    BY <1>2 DEF sessionCurrent
  <1>5. F \in SUBSET Families
    OBVIOUS
  <1>. HIDE DEF F
  <1>6. S!End(F)
    BY <1>1, <1>3, <1>4 DEF S!End, sessionCurrent
  <1>. QED BY <1>5, <1>6 DEF S!Next

(* Every step of the refresh grant is a step of Session or a stutter.      *)
LEMMA StepRefines ==
  ASSUME AtomicRevoke, RefInv, StepShape
  PROVE  [S!Next]_(S!vars)
  <1>0. /\ issued \subseteq minted /\ minted \subseteq Tokens
    BY DEF RefInv, LedgerInv, KinInv, CapInv, ForkInv, TypeInv, TypeOK, RowsOK
  <1>1. CASE CalmShape
    BY <1>1, CalmIsEnd
  <1>2. ASSUME NEW r \in Reqs, NEW v \in LocalState, BusyShape(r, v)
        PROVE  [S!Next]_(S!vars)
    <2>1. ASSUME UNCHANGED <<rows, issued, spentAt>>, \A t \in minted : lineage'[t] = lineage[t]
          PROVE  UNCHANGED S!vars
      <3>1. \A g \in Families :
              HandedOut(g)' = HandedOut(g) /\ \A t \in HandedOut(g) : rows'[t] = rows[t]
        BY <1>0, <2>1 DEF HandedOut
      <3>2. sessionUsed' = sessionUsed
        BY <1>0, <2>1 DEF sessionUsed
      <3>. QED BY <3>1, <3>2, SessionStutter
    <2>2. CASE ConsumeShape(r, v)
      BY <2>2, ConsumeIsSpend
    <2>3. CASE MintShape(r, v)
      BY <1>0, <2>1, <2>3 DEF MintShape
    <2>4. CASE SaveShape(r, v)
      BY <2>4, SaveIsOpen
    <2>5. CASE RememberShape(r, v)
      BY <2>5, RememberIsRenew
    <2>6. CASE LoginShape(r, v) \/ PresentShape(r, v)
      BY <2>1, <2>6 DEF LoginShape, PresentShape, history
    <2>. QED BY <1>2, <2>2, <2>3, <2>4, <2>5, <2>6 DEF BusyShape
  <1>. QED BY <1>1, <1>2, StepCases

(* Before the first request no session exists.                             *)
LEMMA InitRefines == Init => S!Init
  <1>. SUFFICES ASSUME Init PROVE S!Init
    OBVIOUS
  <1>1. /\ issued = LegacyTokens /\ LegacyTokens \subseteq Tokens
        /\ \A t \in LegacyTokens : lineage[t].family \notin Families /\ spentAt[t] = 0
    BY TokensAssumption, FamiliesAssumption DEF Init
  <1>2. \A f \in Families : HandedOut(f) = {} /\ Usable(f) = {}
    BY <1>1 DEF HandedOut, Usable
  <1>3. \A f \in Families : sessionPhase[f] = "unborn"
    BY <1>2, Phases DEF PhaseFacts
  <1>4. sessionUsed = {}
    BY <1>1 DEF sessionUsed
  <1>5. sessionPhase = [f \in Families |-> "unborn"]
    BY <1>3 DEF sessionPhase
  <1>. QED BY <1>2, <1>4, <1>5 DEF S!Init

(* The refresh grant, with a store whose revocation is atomic, implements  *)
(* Session: whatever is duplicated, retried, replayed, fails, restarts or  *)
(* is purged, a login looks like a session that is opened once, has one    *)
(* working token at a time, and ends for good.                             *)
THEOREM RefinesSession ==
  ASSUME AtomicRevoke
  PROVE  Spec => ImplementsSession
  <1>1. Init => RefInv
    BY InitLedgerInv, InitHeadInv DEF RefInv, HeadInv
  <1>2. RefInv /\ [Next]_vars => RefInv' /\ [S!Next]_(S!vars)
    <2>. SUFFICES ASSUME RefInv, [Next]_vars PROVE RefInv' /\ [S!Next]_(S!vars)
      OBVIOUS
    <2>1. HeadInv
      BY DEF RefInv, HeadInv, LedgerInv, KinInv
    <2>2. LedgerInv' /\ StepShape
      BY NextLedgerInv DEF RefInv
    <2>3. HeadInv'
      BY <2>1, NextHeadInv
    <2>. QED BY <2>2, <2>3, StepRefines DEF RefInv, HeadInv
  <1>. QED BY <1>1, <1>2, InitRefines, PTL DEF Spec, ImplementsSession, S!Spec
=============================================================================
