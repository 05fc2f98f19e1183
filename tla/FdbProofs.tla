----------------------------- MODULE FdbProofs -----------------------------
(***************************************************************************)
(* Interface rows and leaf-port inference, for every bridge, every network *)
(* behind it, and every way of renumbering its ports and cutting its walks.*)
(***************************************************************************)
EXTENDS Fdb, FiniteSetTheorems, TLAPS

(* A set of one element has one.                                           *)
LEMMA OneMember ==
    ASSUME NEW S, IsFiniteSet(S), Cardinality(S) = 1
    PROVE  \E x : S = {x}
BY FS_Singleton

(* Every numbering gives its ports different indexes.                      *)
LEMMA NumberingFacts ==
    ASSUME NEW f \in Numberings
    PROVE  /\ DOMAIN f \subseteq Ports
           /\ \A p \in DOMAIN f : f[p] \in Indexes
           /\ \A p, q \in DOMAIN f : f[p] = f[q] => p = q
           /\ Range(f) \subseteq Indexes
<1>1. PICK P \in SUBSET Ports : f \in Injection(P, Indexes)
  BY DEF Numberings
<1>2. f \in [P -> Indexes] /\ IsInjective(f)
  BY <1>1 DEF Injection
<1> QED  BY <1>2 DEF IsInjective, Range

----------------------------------------------------------------------------
(* The columns of a poll.                                                  *)

(* A column that was read now shows the ports by their present index.      *)
LEMMA ColumnFacts ==
    ASSUME index \in Numberings, NEW I \in SUBSET Range(index)
    PROVE  /\ Column(I) \in Columns
           /\ DOMAIN Column(I) = I
           /\ \A i \in I : Column(I)[i] \in DOMAIN index /\ index[Column(I)[i]] = i
<1>1. DOMAIN index \subseteq Ports /\ Range(index) \subseteq Indexes
  BY NumberingFacts
<1>2. ASSUME NEW i \in I
      PROVE  /\ Column(I)[i] \in DOMAIN index
             /\ index[Column(I)[i]] = i
  <2>1. \E p \in DOMAIN index : index[p] = i
    BY DEF Range
  <2> QED  BY <2>1 DEF Column
<1>3. Column(I) \in [I -> Ports]
  BY <1>1, <1>2 DEF Column
<1>4. I \in SUBSET Indexes
  BY <1>1
<1> QED  BY <1>2, <1>3, <1>4 DEF Columns

LEMMA EmptyFacts == Empty \in Columns /\ DOMAIN Empty = {}
<1>1. Empty \in [{} -> Ports]
  BY DEF Empty
<1> QED  BY <1>1 DEF Columns

LEMMA CutFacts == \A I \in Cuts : I \in SUBSET Range(index)
BY DEF Cuts

LEMMA IdleFacts == Idle \in Poll
BY EmptyFacts DEF Idle, Poll

(* What the poll under way has read is what the ports are now, unless they *)
(* were renumbered since it began.                                         *)
Shows(column) == \A i \in DOMAIN column : column[i] \in DOMAIN index /\ index[column[i]] = i
PollTrue == poll.whole => Shows(poll.descr) /\ Shows(poll.phys) /\ Shows(poll.name)
PhysLater == DOMAIN poll.phys \subseteq DOMAIN poll.descr

IfInv == IfTypeOK /\ PollTrue /\ PhysLater /\ OneActivePerIndex /\ RowsBearOwnAddress

(* The domains of the columns are sets of indexes.                         *)
LEMMA SlotFacts ==
    ASSUME poll \in Poll, PhysLater
    PROVE  /\ Slots \subseteq Indexes
           /\ DOMAIN poll.phys \subseteq Slots
           /\ \A i \in Slots : Key(i) \in Names
           /\ \A i \in DOMAIN poll.phys : poll.phys[i] \in Ports
<1>1. /\ DOMAIN poll.descr \subseteq Indexes
      /\ \A i \in DOMAIN poll.descr : poll.descr[i] \in Ports
  BY DEF Poll, Columns
<1>2. /\ DOMAIN poll.name \subseteq Indexes
      /\ \A i \in DOMAIN poll.name : poll.name[i] \in Ports
  BY DEF Poll, Columns
<1>3. \A i \in DOMAIN poll.phys : poll.phys[i] \in Ports
  BY DEF Poll, Columns
<1> QED  BY <1>1, <1>2, <1>3, PortAssumption DEF Slots, Key, PhysLater

LEMMA MaxIn ==
    ASSUME NEW S \in SUBSET Indexes, S # {}
    PROVE  Max(S) \in S
BY PortAssumption DEF Max

LEMMA LatestIn ==
    ASSUME NEW S \in SUBSET Indexes, S # {}
    PROVE  Latest(S) \in S
BY MaxIn DEF Latest

(* The row of a key that was seen comes from a slot that has the key.      *)
LEMMA SeenFacts ==
    ASSUME poll \in Poll, PhysLater, NEW k \in Keys
    PROVE  /\ Latest(SlotsOf(k)) \in Slots
           /\ Key(Latest(SlotsOf(k))) = k
           /\ \/ MacOf(k) = Kept(k)
              \/ \E i \in DOMAIN poll.phys : Key(i) = k /\ MacOf(k) = poll.phys[i]
<1>1. SlotsOf(k) \subseteq Indexes /\ SlotsOf(k) # {}
  BY SlotFacts DEF Keys, SlotsOf
<1>2. Latest(SlotsOf(k)) \in SlotsOf(k)
  BY <1>1, LatestIn
<1> DEFINE told == SlotsOf(k) \cap DOMAIN poll.phys
<1>3. CASE told = {}
  BY <1>2, <1>3 DEF SlotsOf, MacOf
<1>4. CASE told # {}
  <2>1. told \in SUBSET Indexes
    BY <1>1
  <2>2. Latest(told) \in told
    <3> HIDE DEF told
    <3> QED  BY <1>4, <2>1, LatestIn
  <2>3. MacOf(k) = poll.phys[Latest(told)]
    BY <1>4 DEF MacOf
  <2> QED  BY <1>2, <2>2, <2>3 DEF SlotsOf
<1> QED  BY <1>3, <1>4

(* Upserting keeps the rows' type.                                         *)
LEMMA UpsertedType ==
    ASSUME IfTypeOK, PhysLater
    PROVE  /\ DOMAIN Upserted \subseteq Names
           /\ \A k \in DOMAIN Upserted : Upserted[k] \in IfRow
<1>0. poll \in Poll
  BY DEF IfTypeOK
<1>1. DOMAIN Upserted = DOMAIN iface \cup Keys
  BY DEF Upserted
<1>2. Keys \subseteq Names
  BY <1>0, SlotFacts DEF Keys
<1>3. ASSUME NEW k \in Keys PROVE Upserted[k] \in IfRow
  <2>1. Upserted[k] = Seen(k)
    BY <1>3 DEF Upserted
  <2>2. Latest(SlotsOf(k)) \in Indexes
    BY <1>0, SeenFacts, SlotFacts
  <2>3. Kept(k) \in Ports \cup {NoPort}
    BY DEF Kept, IfTypeOK, IfRow
  <2>4. MacOf(k) \in Ports \cup {NoPort}
    BY <1>0, <2>3, SeenFacts, SlotFacts
  <2> QED  BY <2>1, <2>2, <2>4 DEF Seen, IfRow
<1>4. ASSUME NEW k \in DOMAIN iface, k \notin Keys PROVE Upserted[k] \in IfRow
  <2>1. Upserted[k] = Unseen(iface[k])
    BY <1>4 DEF Upserted
  <2>2. iface[k] \in IfRow
    BY DEF IfTypeOK
  <2> QED  BY <2>1, <2>2 DEF Unseen, IfRow
<1> QED  BY <1>1, <1>2, <1>3, <1>4 DEF IfTypeOK

(* Of the rows that are active after an upsert, each was just seen.        *)
LEMMA ActiveSeen ==
    ASSUME IfTypeOK, Keys # {}, NEW k \in DOMAIN Upserted, Upserted[k].state = "active"
    PROVE  k \in Keys /\ Upserted[k].index = Latest(SlotsOf(k))
<1>1. SUFFICES ASSUME k \notin Keys PROVE FALSE
  BY DEF Upserted, Seen
<1>2. k \in DOMAIN iface /\ Upserted[k] = [iface[k] EXCEPT !.state = "stale"]
  BY <1>1 DEF Upserted, Unseen
<1>3. iface[k] \in IfRow
  BY <1>2 DEF IfTypeOK
<1> QED  BY <1>2, <1>3 DEF IfRow

(* A key of a poll that read one numbering names the port its slot has.    *)
LEMMA KeyTrue ==
    ASSUME poll \in Poll, PollTrue, poll.whole, NEW i \in Slots
    PROVE  \E p \in DOMAIN index : index[p] = i /\ Key(i) \in {NameOf[p], DescrOf[p]}
BY DEF PollTrue, Shows, Slots, Key

----------------------------------------------------------------------------
(* The steps of the interfaces.                                            *)

LEMMA IfInitInv == InterfacesInit => IfInv
<1> SUFFICES ASSUME InterfacesInit PROVE IfInv
  OBVIOUS
<1>1. poll.descr = Empty /\ poll.phys = Empty /\ poll.name = Empty
  BY DEF InterfacesInit, Idle
<1>2. PollTrue /\ PhysLater
  BY <1>1, EmptyFacts DEF PollTrue, Shows, PhysLater
<1>3. IfTypeOK
  BY IdleFacts DEF InterfacesInit, IfTypeOK
<1>4. OneActivePerIndex /\ RowsBearOwnAddress
  BY DEF InterfacesInit, OneActivePerIndex, RowsBearOwnAddress
<1> QED  BY <1>2, <1>3, <1>4 DEF IfInv

LEMMA IfTableStep ==
    ASSUME IfInv, WalkIfTable
    PROVE  IfInv'
<1>1. PICK D \in Cuts, M \in Cuts :
          /\ M # {} => D = Range(index)
          /\ poll' = [poll EXCEPT !.stage = "ifTable", !.descr = Column(D), !.phys = Column(M)]
  BY DEF WalkIfTable
<1>2. D \in SUBSET Range(index) /\ M \in SUBSET Range(index)
  BY CutFacts
<1>3. UNCHANGED <<index, iface, torn>>
  BY DEF WalkIfTable
<1>4. poll = Idle /\ poll \in Poll /\ index \in Numberings
  BY DEF WalkIfTable, IfInv, IfTypeOK
<1>5. poll' = [stage |-> "ifTable", descr |-> Column(D), phys |-> Column(M),
               name |-> Empty, whole |-> TRUE]
  BY <1>1, <1>4 DEF Idle
<1>6. poll' \in Poll
  BY <1>2, <1>4, <1>5, ColumnFacts, EmptyFacts DEF Poll
<1>7. PollTrue'
  BY <1>2, <1>3, <1>4, <1>5, ColumnFacts, EmptyFacts DEF PollTrue, Shows
<1>8. PhysLater'
  BY <1>1, <1>2, <1>4, <1>5, ColumnFacts DEF PhysLater
<1>9. IfTypeOK'
  BY <1>3, <1>5, <1>6 DEF IfInv, IfTypeOK
<1>10. (OneActivePerIndex /\ RowsBearOwnAddress)'
  BY <1>3 DEF IfInv, OneActivePerIndex, RowsBearOwnAddress
<1> QED  BY <1>7, <1>8, <1>9, <1>10 DEF IfInv

LEMMA IfXTableStep ==
    ASSUME IfInv, WalkIfXTable
    PROVE  IfInv'
<1>1. PICK N \in Cuts : poll' = [poll EXCEPT !.stage = "ifXTable", !.name = Column(N)]
  BY DEF WalkIfXTable
<1>2. N \in SUBSET Range(index)
  BY CutFacts
<1>3. UNCHANGED <<index, iface, torn>>
  BY DEF WalkIfXTable
<1>4. poll \in Poll /\ index \in Numberings
  BY DEF IfInv, IfTypeOK
<1>5. /\ poll' \in Poll /\ poll'.stage = "ifXTable" /\ poll'.name = Column(N)
      /\ poll'.descr = poll.descr /\ poll'.phys = poll.phys /\ poll'.whole = poll.whole
  BY <1>1, <1>2, <1>4, ColumnFacts DEF Poll
<1>6. PollTrue'
  BY <1>2, <1>3, <1>4, <1>5, ColumnFacts DEF IfInv, PollTrue, Shows
<1>7. PhysLater'
  BY <1>5 DEF IfInv, PhysLater
<1>8. IfTypeOK'
  BY <1>3, <1>5 DEF IfInv, IfTypeOK
<1>9. (OneActivePerIndex /\ RowsBearOwnAddress)'
  BY <1>3 DEF IfInv, OneActivePerIndex, RowsBearOwnAddress
<1> QED  BY <1>6, <1>7, <1>8, <1>9 DEF IfInv

(* A poll begins: nothing is read.                                         *)
LEMMA IdlePoll ==
    ASSUME poll' = Idle
    PROVE  PollTrue' /\ PhysLater' /\ poll' \in Poll
<1>1. poll'.descr = Empty /\ poll'.phys = Empty /\ poll'.name = Empty
  BY DEF Idle
<1> QED  BY <1>1, EmptyFacts, IdleFacts DEF PollTrue, Shows, PhysLater

LEMMA StoreStep ==
    ASSUME IfInv, StoreInterfaces
    PROVE  IfInv'
<1>0. /\ iface' = Upserted /\ torn' = (torn \/ ~poll.whole)
      /\ poll' = Idle /\ index' = index
  BY DEF StoreInterfaces
<1>1. IfTypeOK /\ PollTrue /\ PhysLater /\ OneActivePerIndex /\ RowsBearOwnAddress
      /\ poll \in Poll
  BY DEF IfInv, IfTypeOK
<1>2. PollTrue' /\ PhysLater' /\ poll' \in Poll
  BY <1>0, IdlePoll
<1>3. IfTypeOK'
  <2>1. poll.whole \in BOOLEAN
    BY <1>1 DEF Poll
  <2> QED  BY <1>0, <1>1, <1>2, <2>1, UpsertedType DEF IfTypeOK
<1>4. OneActivePerIndex'
  <2>1. CASE Keys = {}
    <3>1. \A k \in DOMAIN Upserted : k \in DOMAIN iface /\ Upserted[k] = iface[k]
      BY <2>1 DEF Upserted, Unseen
    <3> QED  BY <1>0, <1>1, <3>1 DEF OneActivePerIndex
  <2>2. CASE Keys # {}
    <3>1. SUFFICES ASSUME NEW k \in DOMAIN Upserted, NEW l \in DOMAIN Upserted,
                          Upserted[k].state = "active", Upserted[l].state = "active",
                          Upserted[k].index = Upserted[l].index
                   PROVE  k = l
      BY <1>0 DEF OneActivePerIndex
    <3>2. k \in Keys /\ Upserted[k].index = Latest(SlotsOf(k))
      BY <1>1, <2>2, <3>1, ActiveSeen
    <3>3. l \in Keys /\ Upserted[l].index = Latest(SlotsOf(l))
      BY <1>1, <2>2, <3>1, ActiveSeen
    <3>4. Key(Latest(SlotsOf(k))) = k /\ Key(Latest(SlotsOf(l))) = l
      BY <1>1, <3>2, <3>3, SeenFacts
    <3> QED  BY <3>1, <3>2, <3>3, <3>4
  <2> QED  BY <2>1, <2>2
<1>5. RowsBearOwnAddress'
  <2>1. SUFFICES ASSUME ~torn, poll.whole, NEW k \in DOMAIN Upserted,
                        Upserted[k].mac # NoPort
                 PROVE  k \in {NameOf[Upserted[k].mac], DescrOf[Upserted[k].mac]}
    BY <1>0 DEF RowsBearOwnAddress
  <2>2. CASE k \in Keys
    <3>1. Upserted[k].mac = MacOf(k)
      BY <2>2 DEF Upserted, Seen
    <3>2. CASE MacOf(k) = Kept(k)
      <4>1. k \in DOMAIN iface /\ Upserted[k].mac = iface[k].mac
        BY <2>1, <3>1, <3>2 DEF Kept
      <4> QED  BY <1>1, <2>1, <4>1 DEF RowsBearOwnAddress
    <3>3. CASE \E i \in DOMAIN poll.phys : Key(i) = k /\ MacOf(k) = poll.phys[i]
      <4>1. PICK i \in DOMAIN poll.phys : Key(i) = k /\ MacOf(k) = poll.phys[i]
        BY <3>3
      <4>2. i \in Slots /\ poll.phys[i] \in DOMAIN index /\ index[poll.phys[i]] = i
        BY <1>1, <2>1, SlotFacts DEF PollTrue, Shows
      <4>3. PICK p \in DOMAIN index : index[p] = i /\ Key(i) \in {NameOf[p], DescrOf[p]}
        BY <1>1, <2>1, <4>2, KeyTrue
      <4>4. p = poll.phys[i]
        BY <1>1, <4>2, <4>3, NumberingFacts DEF IfTypeOK
      <4> QED  BY <3>1, <4>1, <4>3, <4>4
    <3> QED  BY <1>1, <2>2, <3>2, <3>3, SeenFacts
  <2>3. CASE k \notin Keys
    <3>1. k \in DOMAIN iface /\ Upserted[k] = Unseen(iface[k])
      BY <2>3 DEF Upserted
    <3>2. iface[k] \in IfRow
      BY <1>1, <3>1 DEF IfTypeOK
    <3>3. Upserted[k].mac = iface[k].mac
      BY <3>1, <3>2 DEF Unseen, IfRow
    <3> QED  BY <1>1, <2>1, <3>1, <3>3 DEF RowsBearOwnAddress
  <2> QED  BY <2>2, <2>3
<1> QED  BY <1>2, <1>3, <1>4, <1>5 DEF IfInv

LEMMA DropStep ==
    ASSUME IfInv, DropPoll
    PROVE  IfInv'
<1>1. poll' = Idle /\ UNCHANGED <<index, iface, torn>>
  BY DEF DropPoll
<1>2. PollTrue' /\ PhysLater' /\ poll' \in Poll
  BY <1>1, IdlePoll
<1>3. IfTypeOK'
  BY <1>1, <1>2 DEF IfInv, IfTypeOK
<1>4. (OneActivePerIndex /\ RowsBearOwnAddress)'
  BY <1>1 DEF IfInv, OneActivePerIndex, RowsBearOwnAddress
<1> QED  BY <1>2, <1>3, <1>4 DEF IfInv

LEMMA RenumberStep ==
    ASSUME IfInv, Renumber
    PROVE  IfInv'
<1> DEFINE same == poll.whole /\ (poll.stage = "idle" \/ index' = index)
<1>1. /\ index' \in Numberings /\ UNCHANGED <<iface, torn>>
      /\ poll' = [poll EXCEPT !.whole = same]
  BY DEF Renumber
<1>2. poll \in Poll /\ (poll.stage = "idle" => poll = Idle)
  BY DEF IfInv, IfTypeOK
<1>3. /\ poll' \in Poll /\ poll'.stage = poll.stage /\ poll'.descr = poll.descr
      /\ poll'.phys = poll.phys /\ poll'.name = poll.name /\ poll'.whole = same
  BY <1>1, <1>2 DEF Poll
<1>4. ASSUME poll.stage = "idle" PROVE poll' = Idle
  <2>1. poll = Idle /\ same
    BY <1>2, <1>4 DEF Idle
  <2>2. poll' = [Idle EXCEPT !.whole = TRUE]
    BY <1>1, <2>1
  <2> QED  BY <2>2 DEF Idle
<1>5. PollTrue'
  <2>1. CASE poll.stage = "idle"
    BY <1>4, <2>1, IdlePoll
  <2>2. CASE poll.stage # "idle" /\ same
    BY <1>3, <2>2 DEF IfInv, PollTrue, Shows
  <2>3. CASE ~same
    BY <1>3, <2>3 DEF PollTrue
  <2> QED  BY <2>1, <2>2, <2>3
<1>6. PhysLater'
  BY <1>3 DEF IfInv, PhysLater
<1>7. IfTypeOK'
  BY <1>1, <1>3, <1>4 DEF IfInv, IfTypeOK
<1>8. (OneActivePerIndex /\ RowsBearOwnAddress)'
  BY <1>1 DEF IfInv, OneActivePerIndex, RowsBearOwnAddress
<1> QED  BY <1>5, <1>6, <1>7, <1>8 DEF IfInv

LEMMA IfStep ==
    ASSUME IfInv, [Next]_vars
    PROVE  IfInv'
<1>1. ASSUME SomeRun PROVE IfInv'
  BY <1>1, StoreStep DEF SomeRun, Run
<1>2. ASSUME UNCHANGED vars PROVE IfInv'
  <2>1. UNCHANGED <<index, poll, iface, torn>>
    BY <1>2 DEF vars, ifVars
  <2> QED  BY <2>1 DEF IfInv, IfTypeOK, PollTrue, Shows, PhysLater, OneActivePerIndex,
                      RowsBearOwnAddress
<1>3. ASSUME ReadIfTable \/ ReadIfXTable \/ Lose \/ Restart PROVE IfInv'
  BY <1>3, IfTableStep, IfXTableStep, DropStep, RenumberStep
     DEF ReadIfTable, ReadIfXTable, Lose, Restart
<1> QED  BY <1>1, <1>2, <1>3 DEF Next

LEMMA IfAlways == Spec => []IfInv
<1>1. Init => IfInv
  BY IfInitInv DEF Init
<1> QED  BY <1>1, IfStep, PTL DEF Spec

(* An index never names two active interfaces, whatever is renumbered, cut *)
(* short or torn (Interfaces!OneActivePerIndex).                           *)
THEOREM IndexIsUnambiguous == Spec => []OneActivePerIndex
<1>1. IfInv => OneActivePerIndex
  BY DEF IfInv
<1> QED  BY <1>1, IfAlways, PTL

(* While no poll reads two numberings, no row bears another port's address *)
(* (Interfaces!RowsBearOwnAddress).                                        *)
THEOREM AddressesStayOnTheirPort == Spec => []RowsBearOwnAddress
<1>1. IfInv => RowsBearOwnAddress
  BY DEF IfInv
<1> QED  BY <1>1, IfAlways, PTL

----------------------------------------------------------------------------
(* The claims.                                                             *)

LEMMA HitFacts ==
    ASSUME NEW p, NEW read, NEW owned
    PROVE  /\ Hits(p, read, owned) \subseteq read \cap owned
           /\ \A c \in Hits(p, read, owned) : PortOf[c] = p /\ Holder[c] # Switch
BY DEF Hits, Macs

(* A leaf shows one known device: every address it shows is that device's. *)
LEMMA LeafFacts ==
    ASSUME NEW p, NEW read \in SUBSET Cards, NEW owned, IsLeaf(p, read, owned)
    PROVE  /\ Hits(p, read, owned) # {}
           /\ \A c, d \in Hits(p, read, owned) : Holder[c] = Holder[d]
<1>1. Hits(p, read, owned) \subseteq Cards
  BY HitFacts
<1>2. Peers(p, read, owned) \in SUBSET Devices
  BY <1>1, NetworkAssumption DEF Peers
<1>3. IsFiniteSet(Peers(p, read, owned))
  BY <1>2, FS_Subset, NetworkAssumption
<1>4. PICK x : Peers(p, read, owned) = {x}
  BY <1>3, OneMember DEF IsLeaf
<1> QED  BY <1>4 DEF Peers

LEMMA LocalPortFacts ==
    ASSUME NEW p, NEW rows
    PROVE  \/ LocalPort(p, rows) = NoIf
           \/ /\ LocalPort(p, rows) \in DOMAIN rows
              /\ rows[LocalPort(p, rows)].state = "active"
              /\ rows[LocalPort(p, rows)].index = index[p]
BY DEF LocalPort

LEMMA RemoteType ==
    ASSUME NEW hits \in SUBSET Cards, NEW P
    PROVE  Remote(hits, P) \in Cards \cup {NoIf}
<1> DEFINE cards == {c \in hits : Holder[c] \in P}
<1>1. CASE Cardinality(cards) = 1
  <2>1. cards \in SUBSET Cards
    OBVIOUS
  <2>2. IsFiniteSet(cards)
    <3> HIDE DEF cards
    <3> QED  BY <2>1, FS_Subset, NetworkAssumption
  <2>3. \E x : cards = {x}
    <3> HIDE DEF cards
    <3> QED  BY <1>1, <2>2, OneMember
  <2> QED  BY <1>1, <2>1, <2>3 DEF Remote
<1>2. CASE Cardinality(cards) # 1
  BY <1>2 DEF Remote
<1> QED  BY <1>1, <1>2

(* The claims of a step, one by one.                                       *)
LEMMA ClaimFacts ==
    ASSUME TypeOK, [Next]_vars, NEW o \in claims'
    PROVE  \/ o \in claims /\ UNCHANGED vars
           \/ /\ SomeRun /\ StoreInterfaces
              /\ shown' \in SUBSET Cards
              /\ \E p \in DOMAIN index :
                     /\ IsLeaf(p, shown', Owned(polled', heard'))
                     /\ o = ClaimOf(p, shown', iface', polled', heard')
<1>1. ASSUME SomeRun
      PROVE  /\ StoreInterfaces /\ shown' \in SUBSET Cards
             /\ \E p \in DOMAIN index :
                    /\ IsLeaf(p, shown', Owned(polled', heard'))
                    /\ o = ClaimOf(p, shown', iface', polled', heard')
  <2>1. PICK P \in SUBSET Pollable, H \in SUBSET Audible : Run(P, H)
    BY <1>1 DEF SomeRun
  <2>2. StoreInterfaces /\ shown' \in SUBSET Cards
    BY <2>1 DEF Run
  <2> QED  BY <2>1, <2>2 DEF Run
<1>2. ASSUME ReadIfTable \/ ReadIfXTable \/ Lose \/ Restart PROVE FALSE
  BY <1>2 DEF ReadIfTable, ReadIfXTable, Lose, Restart, Silent
<1>3. ASSUME UNCHANGED vars PROVE o \in claims /\ UNCHANGED vars
  BY <1>3 DEF vars
<1> QED  BY <1>1, <1>2, <1>3 DEF Next

LEMMA TypeStep ==
    ASSUME TypeOK, IfInv, [Next]_vars
    PROVE  TypeOK'
<1>1. IfTypeOK'
  BY IfStep DEF IfInv
<1>2. /\ polled' \subseteq Devices /\ heard' \subseteq Devices
      /\ shown' \subseteq Cards
  <2>1. ASSUME SomeRun
        PROVE  polled' \subseteq Devices /\ heard' \subseteq Devices /\ shown' \subseteq Cards
    <3>1. PICK P \in SUBSET Pollable, H \in SUBSET Audible : Run(P, H)
      BY <2>1 DEF SomeRun
    <3> QED  BY <3>1, NetworkAssumption DEF Run, TypeOK
  <2>2. ASSUME ReadIfTable \/ ReadIfXTable \/ Lose \/ Restart
        PROVE  polled' \subseteq Devices /\ heard' \subseteq Devices /\ shown' \subseteq Cards
    BY <2>2 DEF ReadIfTable, ReadIfXTable, Lose, Restart, Silent, TypeOK
  <2>3. ASSUME UNCHANGED vars
        PROVE  polled' \subseteq Devices /\ heard' \subseteq Devices /\ shown' \subseteq Cards
    BY <2>3 DEF vars, TypeOK
  <2> QED  BY <2>1, <2>2, <2>3 DEF Next
<1>3. ASSUME NEW o \in claims' PROVE o \in Claim
  <2>1. CASE o \in claims
    BY <2>1 DEF TypeOK
  <2>2. CASE o \notin claims
    <3>1. PICK p \in DOMAIN index :
              /\ IsLeaf(p, shown', Owned(polled', heard'))
              /\ o = ClaimOf(p, shown', iface', polled', heard')
      BY <1>3, <2>2, ClaimFacts
    <3> DEFINE hits == Hits(p, shown', Owned(polled', heard'))
    <3>2. hits \subseteq Cards /\ hits # {} /\ \A c \in hits : Holder[c] # Switch
      BY <1>2, <3>1, HitFacts, LeafFacts
    <3>3. Holder[CHOOSE c \in hits : TRUE] \in Devices \ {Switch}
      BY <3>2, NetworkAssumption
    <3>4. LocalPort(p, iface') \in Names \cup {NoIf}
      BY <1>1, LocalPortFacts DEF IfTypeOK
    <3>5. Remote(hits, polled') \in Cards \cup {NoIf}
      BY <3>2, RemoteType
    <3>6. o = [local |-> LocalPort(p, iface'),
               peer |-> Holder[CHOOSE c \in hits : TRUE],
               remote |-> Remote(hits, polled'), macs |-> hits]
      BY <3>1 DEF ClaimOf
    <3> HIDE DEF hits
    <3> QED  BY <3>2, <3>3, <3>4, <3>5, <3>6 DEF Claim
  <2> QED  BY <2>1, <2>2
<1> QED  BY <1>1, <1>2, <1>3 DEF TypeOK

LEMMA TypeAlways == Spec => [](TypeOK /\ IfInv)
<1>1. Init => TypeOK /\ IfInv
  BY IfInitInv DEF Init, TypeOK, IfInv
<1>2. TypeOK /\ IfInv /\ [Next]_vars => (TypeOK /\ IfInv)'
  BY TypeStep, IfStep
<1> QED  BY <1>1, <1>2, PTL DEF Spec

(* Every variable keeps its type, whatever the bridge, its restarts and    *)
(* the walks that fail or stop half-way (Fdb!TypeOK).                      *)
THEOREM FdbType == Spec => []TypeOK
BY TypeAlways, PTL

----------------------------------------------------------------------------
(* The port.                                                               *)

(* A poll that read one numbering and a run that stored some of it: the    *)
(* rows that are active afterwards are the poll's, and the one that has    *)
(* the index of a port bears a name of that port.                          *)
LEMMA RightPortStep ==
    ASSUME TypeOK, IfInv, StoreInterfaces, poll.whole, Keys # {},
           NEW p \in DOMAIN index, LocalPort(p, iface') # NoIf
    PROVE  LocalPort(p, iface') \in {NameOf[p], DescrOf[p]}
<1> DEFINE k == LocalPort(p, iface')
<1>1. iface' = Upserted
  BY DEF StoreInterfaces
<1>2. IfTypeOK /\ PollTrue /\ PhysLater /\ poll \in Poll /\ index \in Numberings
  BY DEF IfInv, IfTypeOK
<1>3. k \in DOMAIN Upserted /\ Upserted[k].state = "active" /\ Upserted[k].index = index[p]
  BY <1>1, LocalPortFacts
<1>4. k \in Keys /\ Upserted[k].index = Latest(SlotsOf(k))
  <2> HIDE DEF k
  <2> QED  BY <1>2, <1>3, ActiveSeen
<1>5. Latest(SlotsOf(k)) \in Slots /\ Key(Latest(SlotsOf(k))) = k
  <2> HIDE DEF k
  <2> QED  BY <1>2, <1>4, SeenFacts
<1> HIDE DEF k
<1>6. index[p] \in Slots /\ Key(index[p]) = k
  BY <1>3, <1>4, <1>5
<1>7. PICK q \in DOMAIN index : index[q] = index[p] /\ Key(index[p]) \in {NameOf[q], DescrOf[q]}
  BY <1>2, <1>6, KeyTrue
<1>8. q = p
  BY <1>2, <1>7, NumberingFacts
<1> QED  BY <1>6, <1>7, <1>8 DEF k

(* However often the bridge is restarted, wherever its walks stopped and   *)
(* whatever earlier runs stored, a run whose poll read one numbering, and  *)
(* some interface, claims a neighbour on the port the neighbour's          *)
(* addresses were learned on (Fdb!RightPort).                              *)
THEOREM ClaimsNameTheirPort == Spec => RightPort
<1> DEFINE A == poll.whole /\ Keys # {} => \A o \in claims' : ~Misplaced(o)
<1>1. ASSUME TypeOK, IfInv, [Next]_vars PROVE A \/ UNCHANGED vars
  <2>1. SUFFICES ASSUME poll.whole, Keys # {}, ~UNCHANGED vars,
                        NEW o \in claims', o.local # NoIf, NEW c \in o.macs
                 PROVE  o.local \in {NameOf[PortOf[c]], DescrOf[PortOf[c]]}
    BY DEF Misplaced
  <2>2. /\ StoreInterfaces
        /\ \E p \in DOMAIN index : o = ClaimOf(p, shown', iface', polled', heard')
    BY <1>1, <2>1, ClaimFacts
  <2>3. PICK p \in DOMAIN index : o = ClaimOf(p, shown', iface', polled', heard')
    BY <2>2
  <2>4. /\ o.local = LocalPort(p, iface')
        /\ o.macs = Hits(p, shown', Owned(polled', heard'))
    BY <2>3 DEF ClaimOf
  <2>5. PortOf[c] = p
    BY <2>1, <2>4, HitFacts
  <2> QED  BY <1>1, <2>1, <2>2, <2>4, <2>5, RightPortStep
<1>2. Spec => [][A]_vars
  <2> HIDE DEF A
  <2> QED  BY <1>1, TypeAlways, PTL DEF Spec
<1> QED  BY <1>2 DEF RightPort

=============================================================================
