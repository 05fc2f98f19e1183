---------------------------- MODULE LinksProofs ----------------------------
(***************************************************************************)
(* Theorems about the link table, for every set of devices, ports, cables  *)
(* and sources.                                                            *)
(***************************************************************************)
EXTENDS Links, FiniteSetTheorems, WellFoundedInduction, TLAPS

(* A non-empty set of percentages has a largest element, and Max finds it. *)
LEMMA MaxPercent ==
    ASSUME NEW S \in SUBSET (0..100), S # {}
    PROVE  Max(S) \in S /\ \A y \in S : y <= Max(S)
<1> DEFINE Above(v) == (v + 1)..100
           T == {Above(v) : v \in S}
<1>1. IsWellFoundedOn(StrictSubsetOrdering(Nat), FiniteSubsetsOf(Nat))
  BY FS_StrictSubsetOrderingWellFounded
<1>2. T \subseteq FiniteSubsetsOf(Nat)
  <2>1. ASSUME NEW v \in S PROVE Above(v) \in FiniteSubsetsOf(Nat)
    <3>1. v + 1 \in Int /\ 100 \in Int
      OBVIOUS
    <3>2. IsFiniteSet(Above(v))
      BY <3>1, FS_Interval
    <3>3. Above(v) \in SUBSET Nat
      OBVIOUS
    <3> QED  BY <3>2, <3>3 DEF FiniteSubsetsOf
  <2> QED  BY <2>1
<1>3. T # {}
  OBVIOUS
<1>4. PICK t \in T : \A u \in T : ~ (<<u, t>> \in StrictSubsetOrdering(Nat))
  <2> HIDE DEF T
  <2> QED  BY <1>1, <1>2, <1>3, WFMin
<1>5. PICK m \in S : t = Above(m)
  OBVIOUS
<1>6. ASSUME NEW y \in S PROVE y <= m
  <2>1. SUFFICES ASSUME y > m PROVE FALSE
    OBVIOUS
  <2>2. Above(y) \in T
    OBVIOUS
  <2>3. Above(y) \subseteq Above(m)
    BY <2>1
  <2>4. y \in Above(m) /\ y \notin Above(y)
    BY <2>1
  <2>5. Above(y) \in SUBSET Nat /\ Above(m) \in SUBSET Nat
    OBVIOUS
  <2>6. <<Above(y), Above(m)>> \in StrictSubsetOrdering(Nat)
    <3> HIDE DEF Above
    <3> QED  BY <2>3, <2>4, <2>5 DEF StrictSubsetOrdering
  <2> QED  BY <1>4, <1>5, <2>2, <2>6
<1>7. \E x \in S : \A y \in S : x >= y
  <2> WITNESS m \in S
  <2> QED  BY <1>6
<1>8. Max(S) \in S /\ \A y \in S : Max(S) >= y
  BY <1>7 DEF Max
<1> QED  BY <1>8

(* The smaller of two numbers.                                             *)
LEMMA MinOfTwo ==
    ASSUME NEW x \in Int, NEW y \in Int
    PROVE  Min({x, y}) = IF x <= y THEN x ELSE y
<1>1. \E m \in {x, y} : \A z \in {x, y} : m =< z
  <2>1. CASE x <= y
    <3> WITNESS x \in {x, y}
    <3> QED  BY <2>1
  <2>2. CASE y <= x
    <3> WITNESS y \in {x, y}
    <3> QED  BY <2>2
  <2> QED  BY <2>1, <2>2
<1>2. Min({x, y}) \in {x, y} /\ \A z \in {x, y} : Min({x, y}) =< z
  BY <1>1 DEF Min
<1> QED  BY <1>2

----------------------------------------------------------------------------
(* Operators.                                                              *)

(* A sight is of one device by another, over one adjacency.                *)
LEMMA SightFacts ==
    ASSUME NEW x \in Sights
    PROVE  x[1] \in Sources /\ x[2] \in Interfaces /\ x[3] \in Interfaces
BY DEF Sights

(* What a report says of the network: reporter and peer are two devices,   *)
(* and a port it names is a port of its own device.                        *)
LEMMA ReportFacts ==
    ASSUME seen \subseteq Sights, NEW r \in Reports
    PROVE  /\ r.reporter \in Devices /\ r.peer \in Devices
           /\ r.reporter # r.peer
           /\ r.rif \in Endpoint /\ r.pif \in Endpoint
           /\ r.rif # NoIf => Owner[r.rif] = r.reporter
           /\ r.pif # NoIf => Owner[r.pif] = r.peer
           /\ <<r.source, r.reporter>> \in Confirmation
<1>1. PICK x \in seen : r \in ReportsOf(x[1], x[2], x[3])
  BY DEF Reports, ReportsIn
<1> DEFINE e == x[2]
           f == x[3]
<1>2. x[1] \in Sources /\ e \in Interfaces /\ f \in Interfaces
  BY SightFacts
<1>3. Owner[e] \in Devices /\ Owner[f] \in Devices
  BY <1>2, InterfaceAssumption
<1>4. Owner[e] # Owner[f]
  BY <1>1 DEF ReportsOf
<1>5. PICK p \in PortsSeen(x[1], e, f) :
        r = [reporter |-> Owner[e], peer |-> Owner[f],
             rif |-> p[1], pif |-> p[2], source |-> x[1]]
  BY <1>1, <1>4 DEF ReportsOf
<1>6. p[1] \in {e, NoIf} /\ p[2] \in {f, NoIf} \cup Faces[f]
  BY <1>5 DEF PortsSeen, NamedPorts, LearnedPorts
<1>7. \A j \in Faces[f] \ {NoIf} : j \in Interfaces /\ Owner[j] = Owner[f]
  BY <1>2, FaceAssumption
<1> HIDE DEF e, f
<1> QED  BY <1>2, <1>3, <1>4, <1>5, <1>6, <1>7 DEF Endpoint, Confirmation

(* The key of a report is admissible, joins reporter and peer, and keeps   *)
(* each port on the side of its own device.                                *)
OwnSides(k) ==
    InterfaceLevel(k) => Owner[k.ea] = k.a /\ Owner[k.eb] = k.b

LEMMA LinkKeyFacts ==
    ASSUME seen \subseteq Sights, NEW r \in Reports
    PROVE  /\ LinkKey(r) \in Key
           /\ Admissible(LinkKey(r))
           /\ OwnSides(LinkKey(r))
           /\ r.reporter \in {LinkKey(r).a, LinkKey(r).b}
<1>1. /\ r.reporter \in Devices /\ r.peer \in Devices
      /\ r.reporter # r.peer
      /\ r.rif \in Endpoint /\ r.pif \in Endpoint
      /\ r.rif # NoIf => Owner[r.rif] = r.reporter
      /\ r.pif # NoIf => Owner[r.pif] = r.peer
  BY ReportFacts
<1>2. r.reporter \in Nat /\ r.peer \in Nat /\ NoIf \in Endpoint
  BY <1>1, DevicesAssumption DEF Endpoint
<1>3. CASE r.reporter > r.peer
  BY <1>1, <1>2, <1>3
     DEF LinkKey, Key, Admissible, OwnSides, InterfaceLevel, DeviceLevel
<1>4. CASE ~(r.reporter > r.peer)
  BY <1>1, <1>2, <1>4
     DEF LinkKey, Key, Admissible, OwnSides, InterfaceLevel, DeviceLevel
<1> QED  BY <1>3, <1>4

(* The device-level key of a pair.                                         *)
LEMMA BareFacts ==
    ASSUME NEW k \in Key
    PROVE  /\ Bare(k) \in Key
           /\ SamePair(k, Bare(k)) /\ SamePair(Bare(k), k)
           /\ DeviceLevel(Bare(k))
BY DEF Bare, Key, SamePair, DeviceLevel, Endpoint

(* A confirmation refreshes one piece of evidence and forgets none.        *)
LEMMA ConfirmedFacts ==
    ASSUME NEW row \in Row, NEW r,
           <<r.source, r.reporter>> \in Confirmation
    PROVE  /\ Confirmed(row, r) \in Row
           /\ Confirmed(row, r).conf = row.conf
           /\ Evidence(Confirmed(row, r))
                  = Evidence(row) \cup {<<r.source, r.reporter>>}
<1>1. Never \in Nat \ {0}
  BY WindowAssumption DEF Never
<1>2. 0 \in 0..Never /\ 0 # Never
  BY <1>1
<1>3. Confirmed(row, r) \in Row
  BY <1>2 DEF Confirmed, Row
<1>4. Confirmed(row, r).conf = row.conf
  BY DEF Confirmed, Row
<1>5. ASSUME NEW c \in Confirmation
      PROVE  Confirmed(row, r).ev[c]
                 = IF c = <<r.source, r.reporter>> THEN 0 ELSE row.ev[c]
  BY DEF Confirmed, Row
<1> QED  BY <1>2, <1>3, <1>4, <1>5 DEF Evidence

LEMMA NewRowFacts == NewRow \in Row /\ Evidence(NewRow) = {} /\ NewRow.conf = 50
<1>1. Never \in Nat /\ Never \in 0..Never
  BY WindowAssumption DEF Never
<1> QED  BY <1>1 DEF NewRow, Row, Evidence

(* The evidence of a row is a finite set, and so is the fresh part of it.  *)
LEMMA EvidenceFinite ==
    ASSUME NEW row \in Row
    PROVE  /\ IsFiniteSet(Evidence(row))
           /\ IsFiniteSet(FreshEvidence(row))
           /\ FreshEvidence(row) \subseteq Evidence(row)
<1>1. IsFiniteSet(Confirmation)
  BY SourceAssumption, DevicesAssumption, FS_Product DEF Confirmation
<1>2. Evidence(row) \in SUBSET Confirmation
  BY DEF Evidence
<1>3. FreshEvidence(row) \subseteq Evidence(row)
  BY WindowAssumption DEF Evidence, FreshEvidence, Never, Row
<1>4. FreshEvidence(row) \in SUBSET Confirmation
  BY DEF FreshEvidence
<1> QED  BY <1>1, <1>2, <1>3, <1>4, FS_Subset

(* A score is a percentage; one confirmation is worth its prior at most.   *)
LEMMA ScoreFacts ==
    ASSUME NEW C \in SUBSET Confirmation, C # {}, IsFiniteSet(C)
    PROVE  /\ Score(C) \in 0..100
           /\ \E c \in C : Score(C) <= SourceBase[c[1]]
                               + AgreementBonus * (Cardinality(C) - 1)
<1> DEFINE B == {SourceBase[c[1]] : c \in C}
           sum == Max(B) + AgreementBonus * (Cardinality(C) - 1)
<1>1. B \in SUBSET (0..100) /\ B # {}
  BY SourceAssumption DEF Confirmation
<1>2. Max(B) \in B
  <2> HIDE DEF B
  <2> QED  BY <1>1, MaxPercent
<1>3. Cardinality(C) \in Nat /\ Cardinality(C) # 0
  BY FS_CardinalityType, FS_EmptySet
<1>4. Cardinality(C) - 1 \in Nat
  BY <1>3
<1>5. AgreementBonus * (Cardinality(C) - 1) \in Nat
  BY <1>4, ScoreAssumption
<1>6. Max(B) \in 0..100
  BY <1>1, <1>2
<1>7. sum \in Nat
  BY <1>5, <1>6
<1>8. Score(C) = IF AutoCeiling <= sum THEN AutoCeiling ELSE sum
  <2>1. Score(C) = Min({AutoCeiling, sum})
    BY DEF Score
  <2> HIDE DEF sum
  <2> QED  BY <2>1, <1>7, ScoreAssumption, MinOfTwo
<1>9. Score(C) \in 0..100 /\ Score(C) <= sum
  <2> HIDE DEF sum
  <2> QED  BY <1>7, <1>8, ScoreAssumption
<1>10. PICK c \in C : Max(B) = SourceBase[c[1]]
  BY <1>2
<1> QED  BY <1>9, <1>10

(* The rollup keeps the evidence of a row.                                 *)
LEMMA RolledUpFacts ==
    ASSUME NEW row \in Row
    PROVE  /\ RolledUp(row) \in Row
           /\ Evidence(RolledUp(row)) = Evidence(row)
<1>1. FreshEvidence(row) \in SUBSET Confirmation /\ IsFiniteSet(FreshEvidence(row))
  BY EvidenceFinite DEF FreshEvidence
<1>2. FreshEvidence(row) # {} => Score(FreshEvidence(row)) \in 0..100
  BY <1>1, ScoreFacts
<1> QED  BY <1>2 DEF RolledUp, Row, Evidence

(* Time makes evidence older, and never makes or loses any.                *)
LEMMA OlderFacts ==
    ASSUME NEW row \in Row
    PROVE  /\ Older(row) \in Row
           /\ Older(row).conf = row.conf /\ Older(row).state = row.state
           /\ Evidence(Older(row)) = Evidence(row)
BY WindowAssumption DEF Older, Row, Evidence, Never

----------------------------------------------------------------------------
(* Every statement of upsert_link writes one row: the row of key k         *)
(* continues under key l, confirmed by the report.                         *)

Written(k, l, row, r) ==
    /\ DOMAIN link' = (DOMAIN link \ {k}) \cup {l}
    /\ link'[l] = Confirmed(row, r)
    /\ \A m \in DOMAIN link \ {k} : m # l => link'[m] = link[m]
    /\ \/ k \in DOMAIN link /\ row = link[k]
       \/ k = l /\ k \notin DOMAIN link /\ row = NewRow
    /\ \/ k = l
       \/ /\ k \in DOMAIN link /\ l \notin DOMAIN link
          /\ DeviceLevel(k) /\ InterfaceLevel(l)
    /\ SamePair(k, LinkKey(r)) /\ SamePair(l, LinkKey(r))
    /\ l = LinkKey(r) \/ (k = l /\ k \in DOMAIN link)

LEMMA StatementWrites ==
    ASSUME TypeOK, NEW r \in Reports, Upgrade(r) \/ Attach(r) \/ Insert(r)
    PROVE  /\ \E k, l \in Key, row \in Row : Written(k, l, row, r)
           /\ UNCHANGED <<committed, seen, tx>> /\ tx = "open"
           /\ doubted \subseteq doubted'
           /\ doubted' \subseteq doubted \cup {Pair(LinkKey(r))}
<1> DEFINE q == LinkKey(r)
<1>1. q \in Key
  BY LinkKeyFacts DEF TypeOK
<1>2. SamePair(q, q)
  BY DEF SamePair
<1>6. Contradicted(q) \subseteq {Pair(q)}
  BY DEF Contradicted, SamePair, Pair
<1>3. CASE Upgrade(r)
  <2>1. Bare(q) \in DOMAIN link /\ q \notin DOMAIN link /\ InterfaceLevel(q)
    BY <1>3 DEF Upgrade
  <2>2. /\ DOMAIN link' = (DOMAIN link \ {Bare(q)}) \cup {q}
        /\ link'[q] = Confirmed(link[Bare(q)], r)
        /\ \A m \in DOMAIN link \ {Bare(q)} : m # q => link'[m] = link[m]
    BY <1>3 DEF Upgrade, Moved
  <2>3. link[Bare(q)] \in Row
    BY <2>1 DEF TypeOK, IsTable
  <2>4. Written(Bare(q), q, link[Bare(q)], r)
    BY <1>1, <1>2, <2>1, <2>2, BareFacts DEF Written
  <2>5. Bare(q) \in Key
    BY <1>1, BareFacts
  <2> QED  BY <1>1, <1>3, <1>6, <2>3, <2>4, <2>5 DEF Upgrade
<1>4. CASE Attach(r)
  <2> DEFINE k == CHOOSE l \in KnownCables(q) : TRUE
  <2>1. KnownCables(q) # {}
    BY <1>4, FS_EmptySet DEF Attach
  <2>2. k \in KnownCables(q)
    BY <2>1
  <2>3. k \in DOMAIN link /\ SamePair(q, k)
    BY <2>2 DEF KnownCables
  <2>4. k \in Key /\ link[k] \in Row
    BY <2>3 DEF TypeOK, IsTable
  <2>5. /\ DOMAIN link' = (DOMAIN link \ {k}) \cup {k}
        /\ link'[k] = Confirmed(link[k], r)
        /\ \A m \in DOMAIN link \ {k} : m # k => link'[m] = link[m]
    <3>1. link' = Moved(k, k, r)
      BY <1>4 DEF Attach
    <3> QED  BY <3>1 DEF Moved
  <2>6. SamePair(k, q)
    BY <2>3 DEF SamePair
  <2>7. Written(k, k, link[k], r)
    <3> HIDE DEF k
    <3> QED  BY <2>3, <2>5, <2>6 DEF Written
  <2> QED  BY <1>4, <2>4, <2>7 DEF Attach
<1>5. CASE Insert(r)
  <2> DEFINE row == IF q \in DOMAIN link THEN link[q] ELSE NewRow
  <2>1. row \in Row
    BY NewRowFacts DEF TypeOK, IsTable
  <2>2. link' = Stored(q, r)
    BY <1>5 DEF Insert
  <2>3. /\ DOMAIN link' = (DOMAIN link \ {q}) \cup {q}
        /\ link'[q] = Confirmed(row, r)
        /\ \A m \in DOMAIN link \ {q} : m # q => link'[m] = link[m]
    BY <2>2 DEF Stored
  <2>4. Written(q, q, row, r)
    BY <1>2, <2>3 DEF Written
  <2> QED  BY <1>1, <1>5, <1>6, <2>1, <2>4 DEF Insert
<1> QED  BY <1>3, <1>4, <1>5

----------------------------------------------------------------------------
(* Type correctness.                                                       *)

LEMMA TypeInit == Init => TypeOK
BY DEF Init, TypeOK, IsTable, EmptyTable

LEMMA TypeStep == TypeOK /\ [Next]_vars => TypeOK'
<1> SUFFICES ASSUME TypeOK, [Next]_vars PROVE TypeOK'
  OBVIOUS
<1>1. CASE BeginRun
  BY <1>1 DEF BeginRun, TypeOK, IsTable
<1>2. ASSUME NEW r \in Reports, Upgrade(r) \/ Attach(r) \/ Insert(r)
      PROVE  TypeOK'
  <2>1. PICK k \in Key, l \in Key, row \in Row : Written(k, l, row, r)
    BY <1>2, StatementWrites
  <2>2. Confirmed(row, r) \in Row
    BY ConfirmedFacts, ReportFacts DEF TypeOK
  <2>3. DOMAIN link' \subseteq Key
    BY <2>1 DEF Written, TypeOK, IsTable
  <2>4. ASSUME NEW m \in DOMAIN link' PROVE link'[m] \in Row
    BY <2>1, <2>2 DEF Written, TypeOK, IsTable
  <2>5. UNCHANGED <<committed, seen, tx>>
        /\ doubted' \subseteq doubted \cup {Pair(LinkKey(r))}
    BY <1>2, StatementWrites
  <2>6. Pair(LinkKey(r)) \in Devices \X Devices
    BY LinkKeyFacts DEF Pair, Key, TypeOK
  <2> QED  BY <2>3, <2>4, <2>5, <2>6 DEF TypeOK, IsTable
<1>3. ASSUME NEW r \in Reports, Refuse(r) PROVE TypeOK'
  BY <1>3 DEF Refuse, TypeOK, IsTable
<1>4. CASE FinishRun
  <2>1. IsTable(Rollup(link))
    BY RolledUpFacts DEF Rollup, IsTable, TypeOK
  <2>2. \A k \in DOMAIN link : Pair(k) \in Devices \X Devices
    BY DEF TypeOK, IsTable, Pair, Key
  <2>3. doubted' \subseteq Devices \X Devices
    BY <1>4, <2>2 DEF FinishRun, TypeOK
  <2> QED  BY <1>4, <2>1, <2>3 DEF FinishRun, TypeOK, IsTable
<1>5. CASE Tick
  <2>1. IsTable([k \in DOMAIN committed |-> Older(committed[k])])
    BY OlderFacts DEF IsTable, TypeOK
  <2> QED  BY <1>5, <2>1 DEF Tick, TypeOK, IsTable
<1>6. ASSUME NEW x \in Movable, Vanish(x) \/ Appear(x) PROVE TypeOK'
  BY <1>6, MovableAssumption DEF Vanish, Appear, TypeOK, IsTable
<1>7. CASE UNCHANGED vars
  BY <1>7 DEF vars, TypeOK, IsTable
<1>8. CASE Abort
  BY <1>8 DEF Abort, TypeOK, IsTable
<1> QED  BY <1>1, <1>2, <1>3, <1>4, <1>5, <1>6, <1>7, <1>8 DEF Next

(* The table keeps its type: in particular no age and no confidence leaves *)
(* its range, whatever the number of sources and reporters (TypeOK).       *)
THEOREM LinksType == Spec => []TypeOK
BY TypeInit, TypeStep, PTL DEF Spec

----------------------------------------------------------------------------
(* Endpoints and reporters are on their own side.  The invariant is about  *)
(* the working table and the committed one, since a refused run restores   *)
(* the second.                                                             *)

Sided(t) ==
    \A k \in DOMAIN t :
        /\ k.a < k.b
        /\ OwnSides(k)
        /\ \A c \in Evidence(t[k]) : c[2] \in {k.a, k.b}

SidedBoth == Sided(link) /\ Sided(committed)

LEMMA SidedInit == Init => SidedBoth
BY DEF Init, SidedBoth, Sided, EmptyTable

LEMMA SidedStep == TypeOK /\ SidedBoth /\ [Next]_vars => SidedBoth'
<1> SUFFICES ASSUME TypeOK, SidedBoth, [Next]_vars PROVE SidedBoth'
  OBVIOUS
<1>1. CASE BeginRun
  BY <1>1 DEF BeginRun, SidedBoth, Sided
<1>2. ASSUME NEW r \in Reports, Upgrade(r) \/ Attach(r) \/ Insert(r)
      PROVE  SidedBoth'
  <2>1. PICK k \in Key, l \in Key, row \in Row : Written(k, l, row, r)
    BY <1>2, StatementWrites
  <2>2. Evidence(link'[l]) = Evidence(row) \cup {<<r.source, r.reporter>>}
    BY <2>1, ConfirmedFacts, ReportFacts DEF TypeOK, Written
  <2>3. r.reporter \in {l.a, l.b} /\ k.a = l.a /\ k.b = l.b
    BY <2>1, LinkKeyFacts DEF TypeOK, Written, SamePair
  <2>4. \A c \in Evidence(row) : c[2] \in {l.a, l.b}
    BY <2>1, <2>3, NewRowFacts DEF SidedBoth, Sided, Written
  <2>5. l.a < l.b /\ OwnSides(l)
    BY <2>1, LinkKeyFacts DEF TypeOK, Written, Admissible, SidedBoth, Sided
  <2>6. \A c \in Evidence(link'[l]) : c[2] \in {l.a, l.b}
    BY <2>2, <2>3, <2>4
  <2>7. ASSUME NEW m \in DOMAIN link'
        PROVE  /\ m.a < m.b /\ OwnSides(m)
               /\ \A c \in Evidence(link'[m]) : c[2] \in {m.a, m.b}
    <3>1. CASE m = l
      BY <2>5, <2>6, <3>1
    <3>2. CASE m # l
      BY <2>1, <3>2 DEF Written, SidedBoth, Sided
    <3> QED  BY <3>1, <3>2
  <2>8. committed' = committed
    BY <1>2, StatementWrites
  <2> QED  BY <2>7, <2>8 DEF SidedBoth, Sided
<1>3. ASSUME NEW r \in Reports, Refuse(r) PROVE SidedBoth'
  BY <1>3 DEF Refuse, SidedBoth, Sided
<1>4. CASE FinishRun
  <2>1. DOMAIN Rollup(link) = DOMAIN link
        /\ \A k \in DOMAIN link :
               Evidence(Rollup(link)[k]) = Evidence(link[k])
    BY RolledUpFacts DEF Rollup, TypeOK, IsTable
  <2>2. Sided(Rollup(link))
    BY <2>1 DEF SidedBoth, Sided
  <2> QED  BY <1>4, <2>2 DEF FinishRun, SidedBoth, Sided
<1>5. CASE Tick
  <2> DEFINE older == [k \in DOMAIN committed |-> Older(committed[k])]
  <2>1. \A k \in DOMAIN committed :
            Evidence(older[k]) = Evidence(committed[k])
    BY OlderFacts DEF TypeOK, IsTable
  <2>2. Sided(older)
    BY <2>1 DEF SidedBoth, Sided
  <2>3. committed' = older /\ link' = older
    BY <1>5 DEF Tick
  <2> QED  BY <2>2, <2>3 DEF SidedBoth, Sided
<1>6. ASSUME NEW x \in Movable, Vanish(x) \/ Appear(x) PROVE SidedBoth'
  BY <1>6 DEF Vanish, Appear, SidedBoth, Sided
<1>7. CASE UNCHANGED vars
  BY <1>7 DEF vars, SidedBoth, Sided
<1>8. CASE Abort
  BY <1>8 DEF Abort, SidedBoth, Sided
<1> QED  BY <1>1, <1>2, <1>3, <1>4, <1>5, <1>6, <1>7, <1>8 DEF Next

(* Each endpoint is a port of its side's device, and only the two ends of  *)
(* a link testify for it, for any network: the rule migrations/002 leaves  *)
(* to application code (EndpointsOnOwnSide).                               *)
THEOREM LinksOwnSide == Spec => []EndpointsOnOwnSide
<1>1. SidedBoth => EndpointsOnOwnSide
  BY DEF SidedBoth, Sided, OwnSides, EndpointsOnOwnSide
<1> QED  BY <1>1, SidedInit, SidedStep, LinksType, PTL DEF Spec

----------------------------------------------------------------------------
(* Suppression needs agreement.                                            *)

(* One confirmation never scores 70.                                       *)
LEMMA ScoreAgreement ==
    ASSUME NEW C \in SUBSET Confirmation, C # {}, IsFiniteSet(C),
           Score(C) >= 70
    PROVE  Cardinality(C) >= 2
<1>1. PICK c \in C :
        Score(C) <= SourceBase[c[1]] + AgreementBonus * (Cardinality(C) - 1)
  BY ScoreFacts
<1>2. SourceBase[c[1]] \in 0..100 /\ SourceBase[c[1]] < 70
  BY SourceAssumption, PriorAssumption DEF Confirmation
<1>3. Cardinality(C) \in Nat /\ Cardinality(C) # 0
  BY FS_CardinalityType, FS_EmptySet
<1>4. ASSUME Cardinality(C) = 1 PROVE FALSE
  <2>1. AgreementBonus * (Cardinality(C) - 1) = 0
    BY <1>4, ScoreAssumption
  <2>2. Score(C) \in 0..100
    BY ScoreFacts
  <2> QED  BY <1>1, <1>2, <2>1, <2>2
<1> QED  BY <1>3, <1>4

LEMMA AgreedCommit ==
    ASSUME TypeOK, FinishRun,
           NEW k \in DOMAIN committed', Suppressible(k, committed'[k])
    PROVE  Cardinality(FreshEvidence(committed'[k])) >= 2
<1> DEFINE row == link[k]
           fresh == FreshEvidence(row)
<1>1. k \in DOMAIN link /\ committed'[k] = RolledUp(row)
  BY DEF FinishRun, Rollup
<1>2. row \in Row
  BY <1>1 DEF TypeOK, IsTable
<1>3. RolledUp(row).state = "active" /\ RolledUp(row).conf >= 70
  BY <1>1 DEF Suppressible
<1>4. fresh # {}
  BY <1>2, <1>3 DEF RolledUp, Row
<1>5. RolledUp(row).conf = Score(fresh) /\ RolledUp(row).ev = row.ev
  BY <1>2, <1>4 DEF RolledUp, Row
<1>6. fresh \in SUBSET Confirmation /\ IsFiniteSet(fresh)
  BY <1>2, EvidenceFinite DEF FreshEvidence
<1>7. FreshEvidence(RolledUp(row)) = fresh
  BY <1>5 DEF FreshEvidence
<1>8. Cardinality(fresh) >= 2
  <2> HIDE DEF fresh
  <2> QED  BY <1>3, <1>4, <1>5, <1>6, ScoreAgreement
<1> QED  BY <1>1, <1>7, <1>8

(* A run commits no link into link_suppressible that fewer than two fresh  *)
(* confirmations stand behind, for any network and however often one       *)
(* reporter is polled (SuppressibleOnFreshAgreement).                      *)
THEOREM LinksAgreement == Spec => SuppressibleOnFreshAgreement
<1>1. TypeOK /\ [Next]_vars =>
        [FinishRun =>
          \A k \in DOMAIN committed' :
              Suppressible(k, committed'[k]) =>
                  Cardinality(FreshEvidence(committed'[k])) >= 2]_vars
  BY AgreedCommit
<1> QED  BY <1>1, LinksType, PTL DEF Spec, SuppressibleOnFreshAgreement

----------------------------------------------------------------------------
(* History.  What is committed lives on in the working table, under the    *)
(* same key or under the key of the cable that took a device-level row     *)
(* over; outside a run the two tables are the same.                        *)

LivesOn(k, l, t, u) == l \in DOMAIN u /\ Evidence(t[k]) \subseteq Evidence(u[l])

Survives(k, t, u) ==
    \/ LivesOn(k, k, t, u)
    \/ /\ DeviceLevel(k)
       /\ \E l \in DOMAIN u \ DOMAIN t :
              SamePair(k, l) /\ InterfaceLevel(l) /\ LivesOn(k, l, t, u)

Ahead ==
    /\ \A k \in DOMAIN committed : Survives(k, committed, link)
    /\ tx = "idle" => link = committed

LEMMA AheadInit == Init => Ahead
BY DEF Init, Ahead, EmptyTable

LEMMA AheadStep == TypeOK /\ Ahead /\ [Next]_vars => Ahead'
<1> SUFFICES ASSUME TypeOK, Ahead, [Next]_vars PROVE Ahead'
  OBVIOUS
<1>0. \A t : \A k \in DOMAIN t : Survives(k, t, t)
  BY DEF Survives, LivesOn
<1>1. CASE BeginRun
  BY <1>1 DEF BeginRun, Ahead
<1>2. ASSUME NEW r \in Reports, Upgrade(r) \/ Attach(r) \/ Insert(r)
      PROVE  Ahead'
  <2>1. PICK k \in Key, l \in Key, row \in Row : Written(k, l, row, r)
    BY <1>2, StatementWrites
  <2>2. Evidence(row) \subseteq Evidence(Confirmed(row, r))
    BY ConfirmedFacts, ReportFacts DEF TypeOK
  <2>3. committed' = committed /\ tx' = "open"
    BY <1>2, StatementWrites
  <2>4. ASSUME NEW m, NEW n \in DOMAIN link, n # k \/ k = l,
               LivesOn(m, n, committed, link)
        PROVE  LivesOn(m, n, committed, link')
    <3>1. CASE n = l
      BY <2>1, <2>2, <2>4, <3>1 DEF Written, LivesOn
    <3>2. CASE n # l
      BY <2>1, <2>4, <3>2 DEF Written, LivesOn
    <3> QED  BY <3>1, <3>2
  <2>5. ASSUME NEW m \in DOMAIN committed
        PROVE  Survives(m, committed, link')
    <3>1. Survives(m, committed, link)
      BY DEF Ahead
    <3>2. CASE LivesOn(m, m, committed, link) /\ (m # k \/ k = l)
      BY <2>4, <3>2 DEF Survives, LivesOn
    <3>3. CASE LivesOn(m, m, committed, link) /\ m = k /\ k # l
      <4>1. /\ l \notin DOMAIN link /\ DeviceLevel(m) /\ InterfaceLevel(l)
            /\ SamePair(m, l) /\ row = link[m]
        BY <2>1, <3>3 DEF Written, SamePair
      <4>2. ~DeviceLevel(l)
        BY <4>1 DEF DeviceLevel, InterfaceLevel
      <4>3. l \notin DOMAIN committed
        BY <4>1, <4>2 DEF Ahead, Survives, LivesOn
      <4>4. LivesOn(m, l, committed, link')
        BY <2>1, <2>2, <3>3, <4>1 DEF Written, LivesOn
      <4> QED  BY <4>1, <4>3, <4>4 DEF Survives, LivesOn
    <3>4. CASE ~LivesOn(m, m, committed, link)
      <4>1. DeviceLevel(m)
        BY <3>1, <3>4 DEF Survives
      <4>2. PICK n \in DOMAIN link \ DOMAIN committed :
               SamePair(m, n) /\ InterfaceLevel(n)
               /\ LivesOn(m, n, committed, link)
        BY <3>1, <3>4 DEF Survives
      <4>3. n # k \/ k = l
        BY <2>1, <4>2 DEF Written, DeviceLevel, InterfaceLevel
      <4>4. LivesOn(m, n, committed, link')
        BY <2>4, <4>2, <4>3
      <4> QED  BY <4>1, <4>2, <4>4 DEF Survives, LivesOn
    <3> QED  BY <3>2, <3>3, <3>4
  <2> QED  BY <2>3, <2>5 DEF Ahead
<1>3. ASSUME NEW r \in Reports, Refuse(r) PROVE Ahead'
  BY <1>0, <1>3 DEF Refuse, Ahead
<1>4. CASE FinishRun
  BY <1>0, <1>4 DEF FinishRun, Ahead
<1>5. CASE Tick
  BY <1>0, <1>5 DEF Tick, Ahead
<1>6. ASSUME NEW x \in Movable, Vanish(x) \/ Appear(x) PROVE Ahead'
  BY <1>6 DEF Vanish, Appear, Ahead
<1>7. CASE UNCHANGED vars
  BY <1>7 DEF vars, Ahead
<1>8. CASE Abort
  BY <1>0, <1>8 DEF Abort, Ahead
<1> QED  BY <1>1, <1>2, <1>3, <1>4, <1>5, <1>6, <1>7, <1>8 DEF Next

(* What one step does to the committed table.                              *)
LEMMA CommittedStep ==
    TypeOK /\ Ahead /\ [Next]_vars
        => \A k \in DOMAIN committed : Survives(k, committed, committed')
<1> SUFFICES ASSUME TypeOK, Ahead, [Next]_vars, NEW k \in DOMAIN committed
             PROVE  Survives(k, committed, committed')
  OBVIOUS
<1>1. CASE committed' = committed
  BY <1>1 DEF Survives, LivesOn
<1>2. CASE FinishRun
  <2>1. Survives(k, committed, link)
    BY DEF Ahead
  <2>2. /\ DOMAIN committed' = DOMAIN link
        /\ \A l \in DOMAIN link : Evidence(committed'[l]) = Evidence(link[l])
    BY <1>2, RolledUpFacts DEF FinishRun, Rollup, TypeOK, IsTable
  <2> QED  BY <2>1, <2>2 DEF Survives, LivesOn
<1>3. CASE Tick
  <2>1. committed'[k] = Older(committed[k]) /\ k \in DOMAIN committed'
    BY <1>3 DEF Tick
  <2>2. Evidence(committed'[k]) = Evidence(committed[k])
    BY <2>1, OlderFacts DEF TypeOK, IsTable
  <2> QED  BY <2>1, <2>2 DEF Survives, LivesOn
<1>4. committed' = committed \/ FinishRun \/ Tick
  BY DEF Next, vars, BeginRun, Upgrade, Refuse, Attach, Insert, Abort, Vanish, Appear
<1> QED  BY <1>1, <1>2, <1>3, <1>4

(* A committed row keeps every confirmation it ever had, and its ports; a  *)
(* device-level row may hand them over to one new cable, and no run, no    *)
(* refusal and no passage of time does anything else (HistoryKept).        *)
THEOREM LinksHistory == Spec => HistoryKept
<1>1. TypeOK /\ Ahead /\ [Next]_vars =>
        [\A k \in DOMAIN committed :
           \/ k \in DOMAIN committed' /\ Continues(k, k)
           \/ /\ DeviceLevel(k)
              /\ \E l \in DOMAIN committed' \ DOMAIN committed :
                     SamePair(k, l) /\ InterfaceLevel(l) /\ Continues(k, l)
        ]_vars
  BY CommittedStep DEF Survives, LivesOn, Continues
<1> QED  BY <1>1, AheadInit, AheadStep, LinksType, PTL DEF Spec, HistoryKept

----------------------------------------------------------------------------
(* No report is refused while every report names both ports.               *)

NoDeviceRow ==
    /\ \A k \in DOMAIN link : InterfaceLevel(k)
    /\ \A k \in DOMAIN committed : InterfaceLevel(k)

(* Every device names its ports, and every address learned belongs to one  *)
(* interface row: of whichever port of the peer.                           *)
PortsKnown ==
    /\ Portless = {}
    /\ \A i \in Interfaces : NoIf \notin Faces[i]

LEMMA PortsKnownReports ==
    ASSUME PortsKnown, TypeOK, NEW r \in Reports
    PROVE  InterfaceLevel(LinkKey(r)) /\ ~InterfaceLevel(Bare(LinkKey(r)))
<1>1. PICK x \in seen : r \in ReportsOf(x[1], x[2], x[3])
  BY DEF Reports, ReportsIn
<1> DEFINE e == x[2]
           f == x[3]
<1>2. e \in Interfaces /\ f \in Interfaces
  BY SightFacts DEF TypeOK
<1>3. e # NoIf /\ f # NoIf /\ NoIf \notin Faces[f]
  BY <1>2, InterfaceAssumption DEF PortsKnown
<1>4. PICK p \in PortsSeen(x[1], e, f) : r.rif = p[1] /\ r.pif = p[2]
  BY <1>1 DEF ReportsOf
<1>5. p[1] # NoIf /\ p[2] # NoIf
  BY <1>3, <1>4 DEF PortsSeen, NamedPorts, LearnedPorts, PortsKnown
<1>6. InterfaceLevel(LinkKey(r))
  BY <1>4, <1>5 DEF LinkKey, InterfaceLevel
<1>7. ~InterfaceLevel(Bare(LinkKey(r)))
  BY LinkKeyFacts, BareFacts DEF InterfaceLevel, DeviceLevel, TypeOK
<1> QED  BY <1>6, <1>7

LEMMA PortsKnownStep ==
    ASSUME PortsKnown
    PROVE  TypeOK /\ NoDeviceRow /\ [Next]_vars => NoDeviceRow'
<1> SUFFICES ASSUME TypeOK, NoDeviceRow, [Next]_vars PROVE NoDeviceRow'
  OBVIOUS
<1>2. ASSUME NEW r \in Reports, Upgrade(r) \/ Attach(r) \/ Insert(r)
      PROVE  NoDeviceRow'
  <2>1. PICK k \in Key, l \in Key, row \in Row : Written(k, l, row, r)
    BY <1>2, StatementWrites
  <2>2. InterfaceLevel(l)
    BY PortsKnownReports, <2>1 DEF Written, NoDeviceRow
  <2>3. committed' = committed
    BY <1>2, StatementWrites
  <2> QED  BY <2>1, <2>2, <2>3 DEF Written, NoDeviceRow, InterfaceLevel
<1>3. CASE link' = committed /\ committed' = committed
  BY <1>3 DEF NoDeviceRow, InterfaceLevel
<1>4. CASE FinishRun
  BY <1>4 DEF FinishRun, Rollup, NoDeviceRow, InterfaceLevel
<1>5. CASE Tick
  BY <1>5 DEF Tick, NoDeviceRow, InterfaceLevel
<1>6. CASE UNCHANGED <<link, committed>>
  BY <1>6 DEF NoDeviceRow, InterfaceLevel
<1> QED  BY <1>2, <1>3, <1>4, <1>5, <1>6
         DEF Next, BeginRun, Refuse, Abort, Vanish, Appear, vars

(* In a network where no device leaves a port out and every learned        *)
(* address belongs to an interface row, the table never refuses a report   *)
(* (ObservationsLand), with any number of parallel cables, of rows per     *)
(* cable, outages and late polls: it takes a portless report to poison a   *)
(* run.                                                                    *)
THEOREM PortsKnownNeverRefused ==
    ASSUME PortsKnown
    PROVE  Spec => []ObservationsLand
<1>1. Init => NoDeviceRow
  BY DEF Init, NoDeviceRow, EmptyTable
<1>2. TypeOK /\ NoDeviceRow => ObservationsLand
  BY PortsKnownReports, LinkKeyFacts
     DEF NoDeviceRow, ObservationsLand, Refused, TypeOK
<1>3. TypeOK /\ NoDeviceRow /\ [Next]_vars => NoDeviceRow'
  BY PortsKnownStep
<1> QED  BY <1>1, <1>2, <1>3, LinksType, PTL DEF Spec

----------------------------------------------------------------------------
(* A pair that is not in doubt has one row, and its known cable is active. *)
(* Each needs the other: a portless report finds its cable among the       *)
(* active rows only.                                                       *)

Settled(t) ==
    \A k \in DOMAIN t :
        /\ InterfaceLevel(k) \/ DeviceLevel(k)
        /\ Pair(k) \notin doubted =>
               /\ InterfaceLevel(k) => t[k].state = "active"
               /\ \A l \in DOMAIN t : SamePair(k, l) => k = l

SettledBoth == Settled(link) /\ Settled(committed)

(* The device-level key of a pair is one.                                  *)
LEMMA BareIsOne ==
    ASSUME NEW k \in Key, NEW l \in Key, SamePair(k, l), DeviceLevel(k)
    PROVE  k = Bare(l)
BY DEF Key, SamePair, DeviceLevel, Bare

(* After the statement of a report, the pair of the report is in doubt or  *)
(* its row is the only one.                                                *)
LEMMA StatementSettled ==
    ASSUME TypeOK, Settled(link), NEW r \in Reports,
           Upgrade(r) \/ Attach(r) \/ Insert(r),
           NEW k \in DOMAIN link', Pair(k) \notin doubted',
           NEW l \in DOMAIN link', SamePair(k, l)
    PROVE  k = l
<1> DEFINE q == LinkKey(r)
<1>1. q \in Key /\ \A m \in DOMAIN link : m \in Key
  BY LinkKeyFacts DEF TypeOK, IsTable
<1>2. Pair(k) \notin doubted /\ Pair(l) = Pair(k)
  BY StatementWrites DEF SamePair, Pair
<1>3. ASSUME k \in DOMAIN link, l \in DOMAIN link PROVE k = l
  BY <1>2, <1>3 DEF Settled
<1>4. CASE Attach(r)
  <2> DEFINE l1 == CHOOSE l2 \in KnownCables(q) : TRUE
  <2>1. KnownCables(q) # {}
    BY <1>4, FS_EmptySet DEF Attach
  <2>2. l1 \in DOMAIN link
    BY <2>1 DEF KnownCables
  <2>3. DOMAIN link' = (DOMAIN link \ {l1}) \cup {l1}
    BY <1>4 DEF Attach, Moved
  <2> QED  BY <1>3, <2>2, <2>3
<1>5. CASE Upgrade(r)
  <2>1. /\ DOMAIN link' = (DOMAIN link \ {Bare(q)}) \cup {q}
        /\ Bare(q) \in DOMAIN link
    BY <1>5 DEF Upgrade, Moved
  <2>2. ASSUME NEW m \in DOMAIN link', SamePair(m, q), m # q, Pair(m) \notin doubted
        PROVE  FALSE
    <3>1. m \in DOMAIN link /\ m # Bare(q) /\ SamePair(m, Bare(q))
      BY <1>1, <2>1, <2>2, BareFacts DEF SamePair
    <3> QED  BY <2>1, <2>2, <3>1 DEF Settled
  <2> QED  BY <1>2, <1>3, <2>1, <2>2 DEF SamePair
<1>6. CASE Insert(r)
  <2>1. DOMAIN link' = DOMAIN link \cup {q}
        /\ doubted' = doubted \cup Contradicted(q)
    BY <1>6 DEF Insert, Stored
  <2>2. ASSUME NEW m \in DOMAIN link, SamePair(m, q), m # q,
               Pair(m) \notin doubted'
        PROVE  FALSE
    <3>0. Pair(m) \notin doubted /\ (InterfaceLevel(m) \/ DeviceLevel(m))
      BY <2>1, <2>2 DEF Settled
    <3>1. CASE InterfaceLevel(q) /\ Bare(q) \notin DOMAIN link
      <4>1. InterfaceLevel(m)
        BY <1>1, <2>2, <3>0, <3>1, BareIsOne
      <4>2. Pair(m) \in Contradicted(q)
        BY <2>2, <3>1, <4>1 DEF Contradicted
      <4> QED  BY <2>1, <2>2, <4>2
    <3>2. CASE DeviceLevel(q) /\ Cardinality(KnownCables(q)) # 1
      <4>1. InterfaceLevel(m)
        <5>1. ASSUME DeviceLevel(m) PROVE m = q
          BY <1>1, <2>2, <3>2, <5>1 DEF Key, SamePair, DeviceLevel
        <5> QED  BY <2>2, <3>0, <5>1
      <4>2. m \in KnownCables(q)
        BY <2>2, <3>0, <4>1 DEF KnownCables, Settled, SamePair
      <4>3. \A n \in KnownCables(q) : n = m
        BY <2>2, <3>0 DEF KnownCables, Settled, SamePair
      <4>4. KnownCables(q) = {m}
        BY <4>2, <4>3
      <4> QED  BY <3>2, <4>4, FS_Singleton
    <3> QED  BY <1>6, <3>1, <3>2 DEF Insert
  <2> QED  BY <1>2, <1>3, <2>1, <2>2 DEF SamePair, Pair
<1> QED  BY <1>4, <1>5, <1>6

LEMMA SettledStep == TypeOK /\ SettledBoth /\ [Next]_vars => SettledBoth'
<1> SUFFICES ASSUME TypeOK, SettledBoth, [Next]_vars PROVE SettledBoth'
  OBVIOUS
<1>1. ASSUME NEW r \in Reports, Upgrade(r) \/ Attach(r) \/ Insert(r)
      PROVE  SettledBoth'
  <2>1. PICK k \in Key, l \in Key, row \in Row : Written(k, l, row, r)
    BY <1>1, StatementWrites
  <2>2. committed' = committed /\ doubted \subseteq doubted'
    BY <1>1, StatementWrites
  <2>3. InterfaceLevel(l) \/ DeviceLevel(l)
    BY <2>1, LinkKeyFacts DEF TypeOK, Written, Admissible, SettledBoth, Settled
  <2>4. link'[l].state = "active"
    BY <2>1 DEF Written, Confirmed, Row
  <2>5. ASSUME NEW m \in DOMAIN link'
        PROVE  /\ InterfaceLevel(m) \/ DeviceLevel(m)
               /\ Pair(m) \notin doubted' /\ InterfaceLevel(m)
                      => link'[m].state = "active"
    <3>1. CASE m = l
      BY <2>3, <2>4, <3>1
    <3>2. CASE m # l
      <4>1. m \in DOMAIN link /\ link'[m] = link[m]
        BY <2>1, <3>2 DEF Written
      <4> QED  BY <2>2, <4>1 DEF SettledBoth, Settled
    <3> QED  BY <3>1, <3>2
  <2>6. ASSUME NEW m \in DOMAIN link', Pair(m) \notin doubted',
               NEW n \in DOMAIN link', SamePair(m, n)
        PROVE  m = n
    BY <1>1, <2>6, StatementSettled DEF SettledBoth
  <2>7. Settled(link)'
    BY <2>5, <2>6 DEF Settled, InterfaceLevel, DeviceLevel, Pair, SamePair
  <2>8. Settled(committed)'
    BY <2>2 DEF SettledBoth, Settled, InterfaceLevel, DeviceLevel, Pair, SamePair
  <2> QED  BY <2>7, <2>8 DEF SettledBoth
<1>2. CASE link' = committed /\ UNCHANGED <<committed, doubted>>
  BY <1>2 DEF SettledBoth, Settled, InterfaceLevel, DeviceLevel, Pair, SamePair
<1>3. CASE FinishRun
  <2>1. /\ link' = Rollup(link) /\ committed' = Rollup(link)
        /\ DOMAIN Rollup(link) = DOMAIN link /\ doubted \subseteq doubted'
    BY <1>3 DEF FinishRun, Rollup
  <2>2. ASSUME NEW k \in DOMAIN link, InterfaceLevel(k), Pair(k) \notin doubted'
        PROVE  Rollup(link)[k].state = "active"
    <3>1. FreshEvidence(link[k]) # {}
      BY <1>3, <2>2 DEF FinishRun
    <3>2. link[k] \in Row
      BY DEF TypeOK, IsTable
    <3> QED  BY <3>1, <3>2 DEF Rollup, RolledUp, Row
  <2>3. ASSUME NEW k \in DOMAIN link, NEW l \in DOMAIN link,
               Pair(k) \notin doubted', SamePair(k, l)
        PROVE  k = l
    BY <2>1, <2>3 DEF SettledBoth, Settled
  <2>4. \A k \in DOMAIN link : InterfaceLevel(k) \/ DeviceLevel(k)
    BY DEF SettledBoth, Settled
  <2> QED  BY <2>1, <2>2, <2>3, <2>4
           DEF SettledBoth, Settled, InterfaceLevel, DeviceLevel, Pair, SamePair
<1>4. CASE Tick
  <2>1. /\ DOMAIN committed' = DOMAIN committed
        /\ \A k \in DOMAIN committed : committed'[k].state = committed[k].state
        /\ link' = committed' /\ doubted' = doubted
    BY <1>4, OlderFacts DEF Tick, TypeOK, IsTable
  <2> QED  BY <2>1
           DEF SettledBoth, Settled, InterfaceLevel, DeviceLevel, Pair, SamePair
<1>5. CASE UNCHANGED <<link, committed, doubted>>
  BY <1>5 DEF SettledBoth, Settled, InterfaceLevel, DeviceLevel, Pair, SamePair
<1> QED  BY <1>1, <1>2, <1>3, <1>4, <1>5
         DEF Next, vars, BeginRun, Refuse, Abort, Vanish, Appear

LEMMA SettledHolds == Spec => [](TypeOK /\ SettledBoth)
<1>1. Init => SettledBoth
  BY DEF Init, SettledBoth, Settled, EmptyTable
<1> QED  BY <1>1, SettledStep, LinksType, PTL DEF Spec

(* In any network, whatever its reports name and whenever they are stored, *)
(* a pair of devices has two rows only after it was reported by different  *)
(* ports or retired (OneRowPerPair).                                       *)
THEOREM DoubtBeforeSecondRow == Spec => []OneRowPerPair
<1>1. SettledBoth => OneRowPerPair
  BY DEF SettledBoth, Settled, OneRowPerPair
<1> QED  BY <1>1, SettledHolds, PTL

(* ... and only of such a pair is a report ever refused, with the whole    *)
(* run that carries it (RefusedOnlyInDoubt).                               *)
THEOREM DoubtBeforeRefusal == Spec => []RefusedOnlyInDoubt
<1>1. TypeOK /\ SettledBoth => RefusedOnlyInDoubt
  <2> SUFFICES ASSUME TypeOK, SettledBoth, NEW r \in Reports, Refused(r)
               PROVE  Pair(LinkKey(r)) \in doubted
    BY DEF RefusedOnlyInDoubt
  <2> DEFINE k == LinkKey(r)
  <2>1. k \in Key /\ Admissible(k)
    BY LinkKeyFacts DEF TypeOK
  <2>2. InterfaceLevel(k) /\ {k, Bare(k)} \subseteq DOMAIN link
    BY <2>1 DEF Refused
  <2>3. SamePair(k, Bare(k)) /\ k # Bare(k)
    BY <2>1, <2>2, BareFacts DEF InterfaceLevel, DeviceLevel
  <2>4. Pair(k) \in doubted
    <3> HIDE DEF k
    <3> QED  BY <2>2, <2>3 DEF SettledBoth, Settled
  <2> QED  BY <2>4
<1> QED  BY <1>1, SettledHolds, PTL

----------------------------------------------------------------------------
(* The evidence of a row nobody shows only ages.  A run that ends without  *)
(* a commit goes back to the committed row, which is never the younger.    *)

NoYounger(row, old) == \A w \in Confirmation : row.ev[w] <= old.ev[w]

Behind ==
    \A k \in DOMAIN committed \cap DOMAIN link :
        InterfaceLevel(k) => NoYounger(link[k], committed[k])

LEMMA AgesFacts ==
    ASSUME NEW row \in Row
    PROVE  /\ NoYounger(row, row)
           /\ NoYounger(row, Older(row)) /\ NoYounger(row, RolledUp(row))
           /\ \A old \in Row : \A r : NoYounger(row, old) => NoYounger(Confirmed(row, r), old)
<1>1. \A w \in Confirmation : row.ev[w] \in 0..Never
  BY DEF Row
<1>2. Never \in Nat /\ Window \in Nat
  BY WindowAssumption DEF Never
<1>3. NoYounger(row, row)
  BY <1>1, <1>2 DEF NoYounger
<1>4. NoYounger(row, Older(row))
  BY <1>1, <1>2 DEF NoYounger, Older, Row
<1>5. RolledUp(row).ev = row.ev
  BY DEF RolledUp, Row
<1>6. ASSUME NEW old \in Row, NEW r, NoYounger(row, old), NEW w \in Confirmation
      PROVE  Confirmed(row, r).ev[w] <= old.ev[w]
  <2>1. Confirmed(row, r).ev[w] \in {0, row.ev[w]}
    BY DEF Confirmed, Row
  <2>2. row.ev[w] <= old.ev[w]
    BY <1>6 DEF NoYounger
  <2>3. old.ev[w] \in 0..Never
    BY DEF Row
  <2> QED  BY <1>1, <1>2, <2>1, <2>2, <2>3
<1> QED  BY <1>3, <1>4, <1>5, <1>6 DEF NoYounger

LEMMA BehindStep == TypeOK /\ Ahead /\ Behind /\ [Next]_vars => Behind'
<1> SUFFICES ASSUME TypeOK, Ahead, Behind, [Next]_vars PROVE Behind'
  OBVIOUS
<1>1. \A t : IsTable(t) => \A k \in DOMAIN t : NoYounger(t[k], t[k])
  BY AgesFacts DEF IsTable
<1>2. ASSUME NEW r \in Reports, Upgrade(r) \/ Attach(r) \/ Insert(r)
      PROVE  Behind'
  <2>1. PICK k \in Key, l \in Key, row \in Row : Written(k, l, row, r)
    BY <1>2, StatementWrites
  <2>2. committed' = committed
    BY <1>2, StatementWrites
  <2>3. ASSUME NEW m \in DOMAIN committed \cap DOMAIN link', InterfaceLevel(m)
        PROVE  NoYounger(link'[m], committed[m])
    <3>1. m \in DOMAIN link
      BY <2>3 DEF Ahead, Survives, LivesOn, DeviceLevel, InterfaceLevel
    <3>2. /\ NoYounger(link[m], committed[m])
          /\ link[m] \in Row /\ committed[m] \in Row
      BY <2>3, <3>1 DEF Behind, TypeOK, IsTable
    <3>3. CASE m = l
      <4>1. row = link[m] /\ link'[m] = Confirmed(row, r)
        BY <2>1, <3>1, <3>3 DEF Written
      <4> QED  BY <3>2, <4>1, AgesFacts
    <3>4. CASE m # l
      BY <2>1, <2>3, <3>2, <3>4 DEF Written
    <3> QED  BY <3>3, <3>4
  <2> QED  BY <2>2, <2>3 DEF Behind, InterfaceLevel
<1>3. CASE link' = committed'
  BY <1>1, <1>3, TypeStep DEF Behind, TypeOK
<1>4. CASE UNCHANGED <<link, committed>>
  BY <1>4 DEF Behind, InterfaceLevel
<1>5. \/ \E r \in Reports : Upgrade(r) \/ Attach(r) \/ Insert(r)
      \/ link' = committed'
      \/ UNCHANGED <<link, committed>>
  BY DEF Next, vars, BeginRun, Refuse, Abort, FinishRun, Tick, Vanish, Appear
<1> QED  BY <1>2, <1>3, <1>4, <1>5

LEMMA UnseenStep ==
    ASSUME TypeOK, Ahead, Behind, [Next]_vars,
           NEW k \in DOMAIN link \cap DOMAIN link', InterfaceLevel(k),
           ~Shown(k), ~ConfirmedPortless(k)
    PROVE  NoYounger(link[k], link'[k])
<1>2. link[k] \in Row
  BY DEF TypeOK, IsTable
<1>3. CASE link'[k] = link[k]
  BY <1>2, <1>3, AgesFacts
<1>4. ASSUME NEW r \in Reports, Upgrade(r) PROVE link'[k] = link[k]
  BY <1>4 DEF Upgrade, Moved, Shown
<1>5. ASSUME NEW r \in Reports, Insert(r) PROVE link'[k] = link[k]
  BY <1>5 DEF Insert, Stored, Shown
<1>6. ASSUME NEW r \in Reports, Attach(r) PROVE link'[k] = link[k]
  <2> DEFINE l == CHOOSE l1 \in KnownCables(LinkKey(r)) : TRUE
  <2>1. KnownCables(LinkKey(r)) # {}
    BY <1>6, FS_EmptySet DEF Attach
  <2>2. SamePair(LinkKey(r), l)
    BY <2>1 DEF KnownCables
  <2>3. k # l
    BY <1>6, <2>2 DEF ConfirmedPortless
  <2>4. link' = Moved(l, l, r)
    BY <1>6 DEF Attach
  <2> HIDE DEF l
  <2> QED  BY <2>3, <2>4 DEF Moved
<1>7. ASSUME link' = committed PROVE NoYounger(link[k], link'[k])
  BY <1>7 DEF Behind
<1>8. CASE FinishRun
  <2>1. link'[k] = RolledUp(link[k])
    BY <1>8 DEF FinishRun, Rollup
  <2> QED  BY <1>2, <2>1, AgesFacts
<1>9. CASE Tick
  <2>1. link = committed /\ link'[k] = Older(committed[k])
    BY <1>9 DEF Tick, Ahead
  <2> QED  BY <1>2, <2>1, AgesFacts
<1>10. \/ \E r \in Reports : Upgrade(r) \/ Attach(r) \/ Insert(r)
       \/ link' = committed \/ FinishRun \/ Tick
       \/ link' = link
  BY DEF Next, vars, BeginRun, Refuse, Abort, Vanish, Appear
<1> QED  BY <1>3, <1>4, <1>5, <1>6, <1>7, <1>8, <1>9, <1>10

(* In any network, with late polls and any faults, no evidence of a row    *)
(* gets younger but by a report that names its ports or a portless one of  *)
(* its pair (UnseenOnlyAges): nothing else keeps a link alive.             *)
THEOREM UnseenAges == Spec => UnseenOnlyAges
<1>1. Init => Behind
  BY DEF Init, Behind, EmptyTable
<1>2. TypeOK /\ Ahead /\ Behind /\ [Next]_vars =>
        [\A k \in DOMAIN link \cap DOMAIN link' :
          (InterfaceLevel(k) /\ ~Shown(k) /\ ~ConfirmedPortless(k)) =>
              \A w \in Confirmation : link[k].ev[w] <= link'[k].ev[w]
        ]_vars
  BY UnseenStep DEF NoYounger
<1> QED  BY <1>1, <1>2, BehindStep, AheadInit, AheadStep,
            LinksType, PTL DEF Spec, UnseenOnlyAges

============================================================================
