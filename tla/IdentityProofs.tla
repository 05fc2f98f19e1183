--------------------------- MODULE IdentityProofs ---------------------------
(***************************************************************************)
(* An honest box is one device row, for every fleet around it and every    *)
(* interleaving of the runs.                                               *)
(***************************************************************************)
EXTENDS Identity, TLAPS

IdOf(k) == [type |-> k.type, value |-> k.value]

(* The name an honest box gives everywhere.                                *)
NamesAll(b, n) ==
    /\ \A c \in Polls[b] : [type |-> "sysname", value |-> n] \in c
    /\ \A f \in Frames[b] : f.name = n

NameOf(b) == CHOOSE n \in Values \ GenericNames : NamesAll(b, n)
NameId(b) == [type |-> "sysname", value |-> NameOf(b)]

----------------------------------------------------------------------------
(* The inductive invariant.                                                *)

(* Device d was taken for box b: as run r sees it, and by anyone.          *)
Sees(r, d, b) == b \in boxes[d] \/ <<d, b>> \in run[r].took
Absorbs(d, b) == b \in boxes[d] \/ \E r \in Runs : <<d, b>> \in run[r].took

(* Every identifier row was claimed by a box its device was taken for.     *)
Claimed ==
    /\ \A k \in DOMAIN identity : \E a \in boxes[identity[k]] : IdOf(k) \in Ids(a)
    /\ \A r \in Runs : \A k \in DOMAIN run[r].keys :
           \E a \in Boxes : <<run[r].keys[k], a>> \in run[r].took /\ IdOf(k) \in Ids(a)

(* A device row that nobody has written was taken for nothing.             *)
Fresh ==
    /\ \A d \in DeviceIds : device[d] = "absent" => boxes[d] = {}
    /\ \A r \in Runs, d \in DeviceIds, b \in Boxes :
           <<d, b>> \in run[r].took => device[d] # "absent" \/ d \in DOMAIN run[r].rows

(* What a run has in hand; a box that was never raced is in one hand.      *)
Hands ==
    /\ \A r \in Runs : run[r].obs # NoObs => run[r].obs \in run[r].seen
    /\ \A r \in Runs, d \in DeviceIds, b \in Boxes :
           <<d, b>> \in run[r].took => b \in InHand(r)
    /\ \A b \in Boxes, r, p \in Runs :
           b \notin raced /\ b \in InHand(r) /\ b \in InHand(p) => r = p

(* A run's match shares an identifier with the observation.                *)
HitClaimed ==
    \A r \in Runs : run[r].hit # NoDevice =>
        /\ run[r].obs # NoObs
        /\ \E a \in Boxes : /\ Sees(r, run[r].hit, a)
                            /\ Ids(a) \cap Ids(run[r].obs.box) # {}

Pure(b) ==
    \A d \in DeviceIds, c \in Boxes : Absorbs(d, b) /\ Absorbs(d, c) => c = b

Unique(b) ==
    \A d, e \in DeviceIds : Absorbs(d, b) /\ Absorbs(e, b) => d = e

(* The device of an honest box holds its name, so the box is found again.  *)
HoldsName(table, b, d) ==
    \E k \in DOMAIN table : IdOf(k) = NameId(b) /\ table[k] = d
Named(b) ==
    \A d \in DeviceIds :
        /\ b \in boxes[d] => HoldsName(identity, b, d)
        /\ \A r \in Runs : <<d, b>> \in run[r].took => HoldsName(View(r), b, d)

(* A run that is past a lookup has found nothing with it.                  *)
Missed(r) == Owners(View(r), OfType(run[r].obs.ids, "chassis_id")) = {}
Lookups(r) ==
    LET b == run[r].obs.box
    IN  Honest(b) /\ b \notin raced =>
        /\ run[r].step = "write" /\ run[r].hit = NoDevice =>
               \A d \in DeviceIds : ~Sees(r, d, b)
        /\ run[r].step \in {"base_mac", "sysname", "veto"}
           /\ "chassis_id" \in Types(run[r].obs.ids) => Missed(r)
        /\ run[r].step = "veto" =>
               run[r].hit # NoDevice /\ "chassis_id" \in Types(run[r].obs.ids)

(* No row has two uncommitted versions.                                    *)
OneWriter ==
    \A r, p \in Runs : r # p =>
        /\ DOMAIN run[r].keys \cap DOMAIN run[p].keys = {}
        /\ DOMAIN run[r].rows \cap DOMAIN run[p].rows = {}

(* What is due for insertion is of the frame in hand.                      *)
DueHeard ==
    \A r \in Runs : run[r].step = "insert" =>
        run[r].hit # NoDevice /\ run[r].due \subseteq HeardKeys(run[r].obs.ids)

IInv ==
    /\ TypeOK
    /\ OneWriter
    /\ DueHeard
    /\ Claimed
    /\ Fresh
    /\ Hands
    /\ HitClaimed
    /\ \A b \in HonestBoxes : Pure(b)
    /\ \A b \in HonestBoxes : b \notin raced => Unique(b) /\ Named(b)
    /\ \A r \in Runs : run[r].obs # NoObs => Lookups(r)

----------------------------------------------------------------------------
(* Observations, and what they write.                                      *)

LEMMA Rigid ==
    ASSUME NEW b
    PROVE  /\ Ids(b)' = Ids(b) /\ (Honest(b)' <=> Honest(b)) /\ NameId(b)' = NameId(b)
           /\ HonestBoxes' = HonestBoxes
BY DEF Ids, Honest, HonestBoxes, NameId, NameOf, NamesAll, ObservationsOf, PollOf, FrameOf,
       Usable, Candidates

LEMMA NameFacts ==
    ASSUME NEW b \in Boxes, Honest(b)
    PROVE  NameOf(b) \in Values \ GenericNames /\ NamesAll(b, NameOf(b))
<1>1. \E n \in Values \ GenericNames : NamesAll(b, n)
  BY DEF Honest, NamesAll
<1> QED  BY <1>1 DEF NameOf

(* An observation claims identifiers of its box, and the name if the box   *)
(* is honest.                                                              *)
LEMMA ObsFacts ==
    ASSUME NEW o \in Observations
    PROVE  /\ o = [box |-> o.box, heard |-> o.heard, ids |-> o.ids]
           /\ o.box \in Boxes /\ o # NoObs
           /\ o.ids \subseteq Ids(o.box) /\ o.ids \subseteq Id /\ o.ids # {}
           /\ Honest(o.box) => NameId(o.box) \in o.ids
<1>1. PICK b \in Boxes : o \in ObservationsOf(b)
  BY DEF Observations
<1>2. ASSUME NEW c \in Polls[b], o = PollOf(b, c)
      PROVE  /\ o = [box |-> b, heard |-> o.heard, ids |-> o.ids]
             /\ o.ids \subseteq Id
             /\ Honest(b) => NameId(b) \in o.ids
  <2>1. c \subseteq Id
    BY FleetAssumption
  <2>2. Honest(b) => NameId(b) \in c /\ NameOf(b) \notin GenericNames
    BY NameFacts DEF NamesAll, NameId
  <2> QED  BY <1>2, <2>1, <2>2 DEF PollOf, Usable, NameId
<1>3. ASSUME NEW f \in Frames[b], o = FrameOf(b, f)
      PROVE  /\ o = [box |-> b, heard |-> o.heard, ids |-> o.ids]
             /\ o.ids \subseteq Id
             /\ Honest(b) => NameId(b) \in o.ids
  <2>1. Honest(b) => /\ NameOf(b) \in Values \ GenericNames /\ f.name = NameOf(b)
    BY NameFacts DEF NamesAll
  <2>2. Honest(b) => NameId(b) \in Candidates(f)
    BY <2>1 DEF Candidates, NameId, Id, IdType
  <2> QED  BY <1>3, <2>2 DEF FrameOf, Candidates
<1>4. /\ o = [box |-> b, heard |-> o.heard, ids |-> o.ids]
      /\ o.ids \subseteq Id /\ o.ids # {}
      /\ Honest(b) => NameId(b) \in o.ids
  BY <1>1, <1>2, <1>3 DEF ObservationsOf
<1>5. o.box = b
  BY <1>4
<1>6. o.ids \subseteq Ids(b)
  BY <1>1 DEF Ids
<1>7. o # NoObs
  BY <1>4 DEF NoObs
<1> QED  BY <1>4, <1>5, <1>6, <1>7

LEMMA PollKeysFacts ==
    ASSUME NEW ids \in SUBSET Id
    PROVE  /\ PollKeys(ids) \subseteq Key
           /\ \A k \in PollKeys(ids) : IdOf(k) \in ids
           /\ \A c \in ids : \E k \in PollKeys(ids) : IdOf(k) = c
<1>1. ASSUME NEW c \in ids
      PROVE  LET k == [type |-> c.type, value |-> c.value, source |-> Source(c.type)]
             IN  k \in Key /\ IdOf(k) = c
  BY DEF Key, Id, IdOf, Source
<1> QED  BY <1>1 DEF PollKeys

LEMMA HeardKeysFacts ==
    ASSUME NEW ids \in SUBSET Id
    PROVE  /\ HeardKeys(ids) \subseteq Key
           /\ \A k \in HeardKeys(ids) : IdOf(k) \in ids
           /\ \A c \in ids : c.type = "sysname" => \E k \in HeardKeys(ids) : IdOf(k) = c
<1>1. ASSUME NEW c \in ids
      PROVE  LET k == [type |-> c.type, value |-> c.value, source |-> "lldp"]
             IN  (c.type # "base_mac" => k \in Key) /\ IdOf(k) = c
  BY DEF Key, Id, IdOf
<1> QED  BY <1>1 DEF HeardKeys

(* What a lookup returns.                                                  *)
LEMMA OwnersFacts ==
    ASSUME NEW table, DOMAIN table \subseteq Key, NEW ids \in SUBSET Id
    PROVE  /\ \A d \in Owners(table, ids) :
                  \E k \in DOMAIN table : table[k] = d /\ IdOf(k) \in ids
           /\ \A k \in DOMAIN table : IdOf(k) \in ids => table[k] \in Owners(table, ids)
<1>1. ASSUME NEW k \in DOMAIN table, NEW id \in ids
      PROVE  (k.type = id.type /\ k.value = id.value) <=> IdOf(k) = id
  BY DEF IdOf, Id
<1>2. ASSUME NEW k \in DOMAIN table, IdOf(k) \in ids
      PROVE  k.type = IdOf(k).type /\ k.value = IdOf(k).value
  BY DEF IdOf
<1> QED  BY <1>1, <1>2 DEF Owners

LEMMA OverlayFacts ==
    ASSUME NEW table, NEW mine
    PROVE  LET o == Overlay(table, mine)
           IN  /\ DOMAIN o = DOMAIN table \cup DOMAIN mine
               /\ \A k \in DOMAIN mine : o[k] = mine[k]
               /\ \A k \in DOMAIN table : k \notin DOMAIN mine => o[k] = table[k]
BY DEF Overlay

LEMMA OverlayPartial ==
    ASSUME NEW D, NEW S, NEW table, NEW mine, Partial(table, D, S), Partial(mine, D, S)
    PROVE  Partial(Overlay(table, mine), D, S)
BY DEF Overlay, Partial

----------------------------------------------------------------------------
(* Steps of run r, no other run changing.                                  *)

Fields == {"step", "obs", "hit", "due", "keys", "rows", "took", "seen"}

Only(r) ==
    /\ DOMAIN run' = Runs /\ DOMAIN run'[r] = Fields
    /\ \A p \in Runs \ {r} : run'[p] = run[p]
    /\ identity' = identity /\ device' = device /\ boxes' = boxes
    /\ raced \subseteq raced'

(* The run goes on with what it wrote unchanged.                           *)
Goes(r, s, o, h, seen) ==
    /\ Only(r)
    /\ run'[r].step = s /\ run'[r].obs = o /\ run'[r].hit = h /\ run'[r].seen = seen
    /\ run'[r].due \subseteq Key
    /\ run'[r].keys = run[r].keys /\ run'[r].rows = run[r].rows
    /\ run'[r].took = run[r].took

(* The run writes keys K and rows R for device d.                          *)
Writes(r, d, K, R) ==
    /\ Only(r)
    /\ run'[r].step = "open" /\ run'[r].obs = NoObs /\ run'[r].hit = NoDevice
    /\ run'[r].seen = run[r].seen /\ run'[r].due = {}
    /\ run'[r].keys = Overlay(run[r].keys, [k \in K |-> d])
    /\ run'[r].rows = Overlay(run[r].rows, R)
    /\ run'[r].took = run[r].took \cup {<<d, run[r].obs.box>>}

LEMMA Shape ==
    ASSUME TypeOK
    PROVE  /\ DOMAIN run = Runs
           /\ \A r \in Runs : DOMAIN run[r] = Fields /\ run[r].due \subseteq Key
BY DEF TypeOK, RunOK, Fields

LEMMA ObserveGoes ==
    ASSUME TypeOK, NEW r \in Runs, Observe(r)
    PROVE  \E o \in Observations :
              /\ Goes(r, Strongest(Types(o.ids)), o, run[r].hit, run[r].seen \cup {o})
              /\ raced' \subseteq Boxes
              /\ \A p \in Runs \ {r} : o.box \in InHand(p) => o.box \in raced'
<1>1. PICK o \in Observations :
        /\ run' = [run EXCEPT ![r].step = Strongest(Types(o.ids)), ![r].obs = o,
                              ![r].seen = @ \cup {o}]
        /\ raced' = raced \cup {b \in {o.box} : \E p \in Runs \ {r} : b \in InHand(p)}
  BY DEF Observe
<1>2. Goes(r, Strongest(Types(o.ids)), o, run[r].hit, run[r].seen \cup {o})
  BY <1>1, Shape DEF Goes, Only, Fields, Observe, Tables
<1>3. o.box \in Boxes
  BY ObsFacts
<1> QED  BY <1>1, <1>2, <1>3 DEF TypeOK

LEMMA LookUpGoes ==
    ASSUME TypeOK, NEW r \in Runs, LookUp(r)
    PROVE  /\ raced' = raced /\ run[r].step \in IdType
           /\ \/ /\ Owners(View(r), OfType(run[r].obs.ids, run[r].step)) = {}
                 /\ Goes(r, Strongest(Types(run[r].obs.ids) \cap Weaker(run[r].step)),
                         run[r].obs, run[r].hit, run[r].seen)
              \/ \E d \in Owners(View(r), OfType(run[r].obs.ids, run[r].step)) :
                    Goes(r, IF Vetoable(run[r].obs, run[r].step) THEN "veto" ELSE "write",
                         run[r].obs, d, run[r].seen)
<1>1. ASSUME NEW s, run' = [run EXCEPT ![r].step = s], UNCHANGED <<Tables, raced>>
      PROVE  Goes(r, s, run[r].obs, run[r].hit, run[r].seen)
  BY <1>1, Shape DEF Goes, Only, Fields, Tables
<1>2. ASSUME NEW s, NEW d, run' = [run EXCEPT ![r].hit = d, ![r].step = s],
             UNCHANGED <<Tables, raced>>
      PROVE  Goes(r, s, run[r].obs, d, run[r].seen)
  BY <1>2, Shape DEF Goes, Only, Fields, Tables
<1> QED  BY <1>1, <1>2 DEF LookUp

LEMMA VetoGoes ==
    ASSUME TypeOK, NEW r \in Runs, Veto(r)
    PROVE  /\ raced' = raced /\ run[r].step = "veto"
           /\ Goes(r, "write", run[r].obs,
                   IF Contradicts(r, run[r].hit) THEN NoDevice ELSE run[r].hit,
                   run[r].seen)
BY Shape DEF Veto, Goes, Only, Fields, Tables

LEMMA ReassertGoes ==
    ASSUME TypeOK, NEW r \in Runs, Reassert(r), run[r].obs.ids \in SUBSET Id
    PROVE  /\ raced' = raced /\ run[r].step = "write" /\ run[r].hit # NoDevice
           /\ Goes(r, "insert", run[r].obs, run[r].hit, run[r].seen)
           /\ run'[r].due = Reassertable(View(r), run[r].obs.ids, run[r].hit)
<1>1. Reassertable(View(r), run[r].obs.ids, run[r].hit) \subseteq Key
  BY HeardKeysFacts DEF Reassertable
<1> QED  BY <1>1, Shape DEF Reassert, Goes, Only, Fields, Tables

LEMMA AbortGoes ==
    ASSUME TypeOK, NEW r \in Runs, Abort(r)
    PROVE  Only(r) /\ run'[r] = Idle /\ raced' = raced
BY Shape DEF Abort, Only, Fields, Tables, Idle

LEMMA WrittenWrites ==
    ASSUME TypeOK, NEW r \in Runs, NEW d, NEW K, NEW R,
           Written(r, d, K, R), UNCHANGED <<Tables, raced>>
    PROVE  Writes(r, d, K, R) /\ raced' = raced
<1> DEFINE keys == Overlay(run[r].keys, [k \in K |-> d])
           rows == Overlay(run[r].rows, R)
           took == run[r].took \cup {<<d, run[r].obs.box>>}
<1>1. run' = [run EXCEPT ![r] =
                 [run[r] EXCEPT !.step = "open", !.obs = NoObs, !.hit = NoDevice,
                                !.due = {}, !.keys = keys, !.rows = rows, !.took = took]]
  BY DEF Written
<1>2. Writes(r, d, K, R) <=> /\ Only(r)
                             /\ run'[r].step = "open" /\ run'[r].obs = NoObs
                             /\ run'[r].hit = NoDevice /\ run'[r].seen = run[r].seen
                             /\ run'[r].due = {}
                             /\ run'[r].keys = keys /\ run'[r].rows = rows
                             /\ run'[r].took = took
  BY DEF Writes
<1> HIDE DEF keys, rows, took
<1>3. Only(r)
  BY <1>1, Shape DEF Only, Fields, Tables
<1>4. run'[r] = [run[r] EXCEPT !.step = "open", !.obs = NoObs, !.hit = NoDevice,
                               !.due = {}, !.keys = keys, !.rows = rows, !.took = took]
  BY <1>1, Shape
<1>5. /\ run'[r].step = "open" /\ run'[r].obs = NoObs /\ run'[r].due = {}
      /\ run'[r].hit = NoDevice /\ run'[r].seen = run[r].seen
  BY <1>4, Shape DEF Fields
<1>6. run'[r].keys = keys /\ run'[r].rows = rows /\ run'[r].took = took
  BY <1>4, Shape DEF Fields
<1> QED  BY <1>2, <1>3, <1>5, <1>6

----------------------------------------------------------------------------
(* What the invariant says of one state.                                   *)

LEMMA ObsOK ==
    ASSUME IInv, NEW r \in Runs, run[r].obs # NoObs
    PROVE  /\ run[r].obs \in Observations /\ run[r].obs \in run[r].seen
           /\ run[r].obs.box \in Boxes /\ run[r].obs.box \in InHand(r)
<1>1. run[r].obs \in Observations /\ run[r].obs \in run[r].seen
  BY DEF IInv, TypeOK, RunOK, Hands
<1> QED  BY <1>1, ObsFacts DEF InHand

(* A key of an honest box is written only by a run that has it in hand.    *)
LEMMA KeyInHand ==
    ASSUME IInv, NEW r \in Runs, NEW k \in DOMAIN run[r].keys,
           NEW b \in HonestBoxes, IdOf(k) \in Ids(b)
    PROVE  /\ run[r].keys[k] \in DeviceIds
           /\ <<run[r].keys[k], b>> \in run[r].took
           /\ b \in InHand(r)
<1>1. PICK a \in Boxes : <<run[r].keys[k], a>> \in run[r].took /\ IdOf(k) \in Ids(a)
  BY DEF IInv, Claimed
<1>2. run[r].keys[k] \in DeviceIds
  BY DEF IInv, TypeOK, RunOK, Partial
<1>3. a = b
  BY <1>1 DEF HonestBoxes, Honest
<1> QED  BY <1>1, <1>2, <1>3 DEF IInv, Hands

LEMMA ViewShape ==
    ASSUME TypeOK, NEW r \in Runs
    PROVE  /\ Partial(View(r), Key, DeviceIds)
           /\ DOMAIN View(r) = DOMAIN identity \cup DOMAIN run[r].keys
           /\ \A k \in DOMAIN run[r].keys : View(r)[k] = run[r].keys[k]
           /\ \A k \in DOMAIN identity \ DOMAIN run[r].keys : View(r)[k] = identity[k]
<1>1. Partial(identity, Key, DeviceIds) /\ Partial(run[r].keys, Key, DeviceIds)
  BY DEF TypeOK, RunOK
<1>2. Partial(View(r), Key, DeviceIds)
  BY <1>1, OverlayPartial DEF View
<1> DEFINE o == Overlay(identity, run[r].keys)
<1>3. /\ DOMAIN o = DOMAIN identity \cup DOMAIN run[r].keys
      /\ \A k \in DOMAIN run[r].keys : o[k] = run[r].keys[k]
      /\ \A k \in DOMAIN identity \ DOMAIN run[r].keys : o[k] = identity[k]
  BY DEF Overlay
<1> QED  BY <1>2, <1>3 DEF View

LEMMA ViewClaimed ==
    ASSUME IInv, NEW r \in Runs, NEW k \in DOMAIN View(r)
    PROVE  /\ View(r)[k] \in DeviceIds
           /\ \E a \in Boxes : Sees(r, View(r)[k], a) /\ IdOf(k) \in Ids(a)
<1>1. View(r)[k] \in DeviceIds
  BY ViewShape DEF IInv, Partial
<1>2. CASE k \in DOMAIN run[r].keys
  <2>1. View(r)[k] = run[r].keys[k]
    BY <1>2, ViewShape DEF IInv
  <2>2. PICK a \in Boxes : <<run[r].keys[k], a>> \in run[r].took /\ IdOf(k) \in Ids(a)
    BY <1>2 DEF IInv, Claimed
  <2> QED  BY <1>1, <2>1, <2>2 DEF Sees
<1>3. CASE k \notin DOMAIN run[r].keys
  <2>1. k \in DOMAIN identity /\ View(r)[k] = identity[k]
    BY <1>3, ViewShape DEF IInv
  <2>2. PICK a \in boxes[identity[k]] : IdOf(k) \in Ids(a)
    BY <2>1 DEF IInv, Claimed
  <2>3. a \in Boxes
    BY <1>1, <2>1, <2>2 DEF IInv, TypeOK
  <2> QED  BY <1>1, <2>1, <2>2, <2>3 DEF Sees
<1> QED  BY <1>1, <1>2, <1>3

LEMMA ViewHonest ==
    ASSUME IInv, NEW r \in Runs, NEW k \in DOMAIN View(r),
           NEW b \in HonestBoxes, IdOf(k) \in Ids(b)
    PROVE  Sees(r, View(r)[k], b)
<1>1. PICK a \in Boxes : Sees(r, View(r)[k], a) /\ IdOf(k) \in Ids(a)
  BY ViewClaimed
<1> QED  BY <1>1 DEF HonestBoxes, Honest

LEMMA SeesAbsorbs ==
    ASSUME NEW r \in Runs, NEW d, NEW b, Sees(r, d, b)
    PROVE  Absorbs(d, b)
BY DEF Sees, Absorbs

(* What the run with an honest box in hand sees of it is all there is.     *)
LEMMA HandSees ==
    ASSUME IInv, NEW r \in Runs, NEW b \in HonestBoxes, b \notin raced, b \in InHand(r),
           NEW d \in DeviceIds, Absorbs(d, b)
    PROVE  Sees(r, d, b)
BY DEF Absorbs, Sees, IInv, Hands, HonestBoxes

(* The device of an honest box is found by its name.                       *)
LEMMA ViewNamed ==
    ASSUME IInv, NEW r \in Runs, NEW b \in HonestBoxes, b \notin raced,
           NEW d \in DeviceIds, Sees(r, d, b)
    PROVE  HoldsName(View(r), b, d) /\ NameId(b) \in Ids(b)
<1>1. HoldsName(View(r), b, d)
  <2>1. CASE <<d, b>> \in run[r].took
    BY <2>1 DEF IInv, Named
  <2>2. CASE b \in boxes[d]
    <3>1. PICK k \in DOMAIN identity : IdOf(k) = NameId(b) /\ identity[k] = d
      BY <2>2 DEF IInv, Named, HoldsName
    <3>2. k \in DOMAIN View(r)
      BY <3>1, ViewShape DEF IInv
    <3>3. PICK a \in boxes[d] : IdOf(k) \in Ids(a)
      BY <3>1 DEF IInv, Claimed
    <3>4. a \in Boxes /\ Absorbs(d, a) /\ Absorbs(d, b)
      BY <2>2, <3>3 DEF Absorbs, IInv, TypeOK
    <3>5. a = b
      BY <3>4 DEF IInv, Pure
    <3>6. Sees(r, View(r)[k], b) /\ View(r)[k] \in DeviceIds
      BY <3>2, <3>3, <3>5, ViewHonest, ViewClaimed
    <3>7. View(r)[k] = d
      BY <3>4, <3>6, SeesAbsorbs DEF IInv, Unique
    <3> QED  BY <3>1, <3>2, <3>7 DEF HoldsName
  <2> QED  BY <2>1, <2>2 DEF Sees
<1>2. PICK k \in DOMAIN View(r) : IdOf(k) = NameId(b) /\ View(r)[k] = d
  BY <1>1 DEF HoldsName
<1>3. PICK a \in Boxes : Sees(r, d, a) /\ IdOf(k) \in Ids(a)
  BY <1>2, ViewClaimed
<1>4. a = b
  BY <1>3, SeesAbsorbs DEF IInv, Pure
<1> QED  BY <1>1, <1>2, <1>3, <1>4

----------------------------------------------------------------------------
(* Steps that write nothing.                                               *)

(* The lookups' results, for observation o at step s with match h.         *)
Answered(r, s, o, h) ==
    Honest(o.box) /\ o.box \notin raced' =>
        /\ s = "write" /\ h = NoDevice => \A d \in DeviceIds : ~Sees(r, d, o.box)
        /\ s \in {"base_mac", "sysname", "veto"} /\ "chassis_id" \in Types(o.ids) =>
               Owners(View(r), OfType(o.ids, "chassis_id")) = {}
        /\ s = "veto" => h # NoDevice /\ "chassis_id" \in Types(o.ids)

LEMMA GoesKeeps ==
    ASSUME IInv, NEW r \in Runs, NEW s \in Step \ {"idle", "open"}, NEW o \in Observations,
           NEW h \in DeviceIds \cup {NoDevice}, NEW seen,
           Goes(r, s, o, h, seen), seen = run[r].seen \cup {o},
           raced' \subseteq Boxes,
           \A p \in Runs \ {r} : o.box \in InHand(p) => o.box \in raced',
           h # NoDevice => \E a \in Boxes : Sees(r, h, a) /\ Ids(a) \cap Ids(o.box) # {},
           Answered(r, s, o, h),
           s = "insert" => h # NoDevice /\ run'[r].due \subseteq HeardKeys(o.ids)
    PROVE  IInv'
<1>1. /\ DOMAIN run' = Runs
      /\ \A p \in Runs : /\ run'[p].keys = run[p].keys /\ run'[p].rows = run[p].rows
                         /\ run'[p].took = run[p].took
      /\ \A p \in Runs \ {r} : run'[p] = run[p]
      /\ identity' = identity /\ device' = device /\ boxes' = boxes /\ raced \subseteq raced'
  BY DEF Goes, Only
<1>2. o.box \in Boxes /\ o # NoObs
  BY ObsFacts
<1>3. TypeOK'
  <2>1. RunOK(run'[r])
    <3>1. RunOK(run[r])
      BY DEF IInv, TypeOK
    <3> QED  BY <1>2, <3>1 DEF RunOK, Goes, Only, Fields
  <2>2. \A p \in Runs : RunOK(run'[p])
    BY <1>1, <2>1 DEF IInv, TypeOK
  <2> QED  BY <1>1, <2>2 DEF IInv, TypeOK, RunOK
<1>12. OneWriter'
  BY <1>1 DEF IInv, OneWriter
<1>13. DueHeard'
  <2>1. \A p \in Runs \ {r} : run'[p].step = "insert" =>
           run'[p].hit # NoDevice /\ run'[p].due \subseteq HeardKeys(run'[p].obs.ids)
    BY <1>1 DEF IInv, DueHeard
  <2>2. run'[r].step = s /\ run'[r].hit = h /\ run'[r].obs = o
    BY DEF Goes
  <2> QED  BY <2>1, <2>2 DEF DueHeard, HeardKeys
<1>4. /\ \A p \in Runs : View(p)' = View(p)
      /\ \A p \in Runs, d \in DeviceIds : \A b : Sees(p, d, b)' <=> Sees(p, d, b)
      /\ \A d \in DeviceIds : \A b : Absorbs(d, b)' <=> Absorbs(d, b)
  BY <1>1 DEF View, Sees, Absorbs
<1>5. Claimed'
  BY <1>1, Rigid DEF IInv, Claimed, IdOf
<1>6. Fresh'
  BY <1>1 DEF IInv, Fresh
<1>7. Hands'
  <2>1. \A p \in Runs : run'[p].obs # NoObs => run'[p].obs \in run'[p].seen
    BY <1>1 DEF IInv, Hands, Goes
  <2>2. InHand(r)' = InHand(r) \cup {o.box}
    BY DEF Goes, InHand
  <2>3. \A p \in Runs \ {r} : InHand(p)' = InHand(p)
    BY <1>1 DEF InHand
  <2>4. \A p \in Runs, d \in DeviceIds, b \in Boxes :
           <<d, b>> \in run'[p].took => b \in InHand(p)'
    BY <1>1, <2>2, <2>3 DEF IInv, Hands
  <2>5. ASSUME NEW b \in Boxes, NEW p \in Runs, NEW q \in Runs, p # q,
               b \notin raced', b \in InHand(p)', b \in InHand(q)'
        PROVE  FALSE
    <3>1. b \notin raced
      BY <1>1, <2>5
    <3>2. CASE b \in InHand(p) /\ b \in InHand(q)
      BY <2>5, <3>1, <3>2 DEF IInv, Hands
    <3>3. CASE b = o.box /\ (p = r \/ q = r)
      BY <2>3, <2>5, <3>3
    <3> QED  BY <2>2, <2>3, <2>5, <3>2, <3>3
  <2> QED  BY <2>1, <2>4, <2>5 DEF Hands, NoObs
<1>8. HitClaimed'
  <2>1. \A p \in Runs \ {r} : run'[p].hit # NoDevice =>
           /\ run'[p].obs # NoObs
           /\ \E a \in Boxes : /\ Sees(p, run[p].hit, a)
                               /\ Ids(a) \cap Ids(run[p].obs.box) # {}
    BY <1>1 DEF IInv, HitClaimed
  <2>2. \A p \in Runs : run'[p].hit \in DeviceIds \cup {NoDevice}
    BY <1>3 DEF TypeOK, RunOK
  <2>3. ASSUME NEW p \in Runs, run'[p].hit # NoDevice
        PROVE  /\ run'[p].obs # NoObs
               /\ \E a \in Boxes : /\ Sees(p, run'[p].hit, a)
                                   /\ Ids(a) \cap Ids(run'[p].obs.box) # {}
    BY <1>1, <1>2, <2>1, <2>3 DEF Goes
  <2> QED  BY <1>4, <2>2, <2>3, Rigid DEF HitClaimed, NoObs
<1>9. \A b \in HonestBoxes' : Pure(b)'
  BY <1>4, Rigid DEF IInv, Pure
<1>10. \A b \in HonestBoxes' : b \notin raced' => Unique(b)' /\ Named(b)'
  <2>1. \A b \in HonestBoxes' : b \notin raced' => Unique(b)'
    BY <1>1, <1>4, Rigid DEF IInv, Unique
  <2>2. \A b \in HonestBoxes' : b \notin raced' => Named(b)'
    BY <1>1, <1>4, Rigid DEF IInv, Named, HoldsName, IdOf
  <2> QED  BY <2>1, <2>2
<1>11. \A p \in Runs : run'[p].obs # NoObs => Lookups(p)'
  <2>1. Lookups(r)'
    BY <1>1, <1>4, Rigid DEF Goes, Answered, Lookups, Missed, OfType, Types
  <2>2. ASSUME NEW p \in Runs \ {r}, run'[p].obs # NoObs
        PROVE  Lookups(p)'
    <3>1. Lookups(p) /\ run'[p] = run[p] /\ (run[p].obs.box \notin raced' => run[p].obs.box \notin raced)
      BY <1>1, <2>2 DEF IInv
    <3> QED  BY <3>1, <1>4, Rigid DEF Lookups, Missed, OfType, Types
  <2> QED  BY <2>1, <2>2
<1> QED  BY <1>3, <1>5, <1>6, <1>7, <1>8, <1>9, <1>10, <1>11, <1>12, <1>13 DEF IInv, NoObs

----------------------------------------------------------------------------
(* The end of a run.                                                       *)

LEMMA IdleFacts ==
    /\ Idle.step = "idle" /\ Idle.obs = NoObs /\ Idle.hit = NoDevice /\ Idle.due = {}
    /\ DOMAIN Idle.keys = {} /\ DOMAIN Idle.rows = {} /\ Idle.took = {} /\ Idle.seen = {}
    /\ RunOK(Idle)
BY DEF Idle, RunOK, Partial, Step

LEMMA AbortKeeps ==
    ASSUME IInv, NEW r \in Runs, Only(r), run'[r] = Idle, raced' = raced
    PROVE  IInv'
<1>1. /\ DOMAIN run' = Runs
      /\ \A p \in Runs \ {r} : run'[p] = run[p]
      /\ identity' = identity /\ device' = device /\ boxes' = boxes
  BY DEF Only
<1>2. /\ run'[r].obs = NoObs /\ run'[r].hit = NoDevice /\ run'[r].took = {}
      /\ run'[r].seen = {} /\ DOMAIN run'[r].keys = {} /\ DOMAIN run'[r].rows = {}
  BY IdleFacts
<1>3. TypeOK'
  <2>1. \A p \in Runs : RunOK(run'[p])
    BY <1>1, IdleFacts DEF IInv, TypeOK
  <2> QED  BY <1>1, <2>1 DEF IInv, TypeOK, RunOK
<1>12. OneWriter'
  BY <1>1, <1>2 DEF IInv, OneWriter
<1>13. DueHeard'
  BY <1>1, IdleFacts DEF IInv, DueHeard, HeardKeys
<1>4. /\ \A p \in Runs \ {r} : View(p)' = View(p)
      /\ \A p \in Runs \ {r}, d \in DeviceIds : \A b : Sees(p, d, b)' <=> Sees(p, d, b)
      /\ \A d \in DeviceIds : \A b : Absorbs(d, b)' => Absorbs(d, b)
  BY <1>1, <1>2 DEF View, Sees, Absorbs
<1>5. Claimed'
  BY <1>1, <1>2, Rigid DEF IInv, Claimed, IdOf
<1>6. Fresh'
  BY <1>1, <1>2 DEF IInv, Fresh
<1>7. Hands'
  <2>1. InHand(r)' = {} /\ \A p \in Runs \ {r} : InHand(p)' = InHand(p)
    BY <1>1, <1>2 DEF InHand
  <2> QED  BY <1>1, <1>2, <2>1 DEF IInv, Hands, NoObs
<1>8. HitClaimed'
  <2>1. ASSUME NEW p \in Runs, run'[p].hit # NoDevice
        PROVE  /\ run'[p].obs # NoObs
               /\ \E a \in Boxes :
                     /\ a \in boxes'[run'[p].hit] \/ <<run'[p].hit, a>> \in run'[p].took
                     /\ Ids(a) \cap Ids(run'[p].obs.box) # {}
    <3>1. p # r /\ run'[p] = run[p]
      BY <1>1, <1>2, <2>1
    <3>2. run[p].hit \in DeviceIds
      BY <2>1, <3>1 DEF IInv, TypeOK, RunOK
    <3> QED  BY <1>1, <2>1, <3>1, <3>2 DEF IInv, HitClaimed, Sees
  <2> QED  BY <2>1, Rigid DEF HitClaimed, Sees, NoObs
<1>9. \A b \in HonestBoxes' : Pure(b)'
  BY <1>4, Rigid DEF IInv, Pure
<1>10. \A b \in HonestBoxes' : b \notin raced' => Unique(b)' /\ Named(b)'
  <2>1. \A b \in HonestBoxes' : b \notin raced' => Unique(b)'
    BY <1>4, Rigid DEF IInv, Unique
  <2>2. \A b \in HonestBoxes' : b \notin raced' => Named(b)'
    BY <1>1, <1>2, <1>4, Rigid DEF IInv, Named, HoldsName, IdOf
  <2> QED  BY <2>1, <2>2
<1>11. \A p \in Runs : run'[p].obs # NoObs => Lookups(p)'
  <2>1. ASSUME NEW p \in Runs, run'[p].obs # NoObs
        PROVE  Lookups(p)'
    <3>1. p # r /\ run'[p] = run[p] /\ Lookups(p)
      BY <1>1, <1>2, <2>1 DEF IInv
    <3> QED  BY <3>1, <1>4, Rigid DEF Lookups, Missed, OfType, Types
  <2> QED  BY <2>1
<1> QED  BY <1>3, <1>5, <1>6, <1>7, <1>8, <1>9, <1>10, <1>11, <1>12, <1>13 DEF IInv, NoObs

LEMMA CommitFacts ==
    ASSUME IInv, NEW r \in Runs, Commit(r)
    PROVE  /\ DOMAIN run' = Runs /\ run'[r] = Idle
           /\ \A p \in Runs \ {r} : run'[p] = run[p]
           /\ identity' = View(r) /\ raced' = raced
           /\ boxes' \in [DeviceIds -> SUBSET Boxes]
           /\ \A d \in DeviceIds, b \in Boxes : b \in boxes'[d] <=> Sees(r, d, b)
           /\ device' \in [DeviceIds -> {"absent", "unpolled", "active"}]
           /\ \A d \in DeviceIds : d \in DOMAIN run[r].rows => device'[d] # "absent"
           /\ \A d \in DeviceIds : d \notin DOMAIN run[r].rows => device'[d] = device[d]
<1>1. /\ DOMAIN run' = Runs /\ run'[r] = Idle
      /\ \A p \in Runs \ {r} : run'[p] = run[p]
      /\ identity' = View(r) /\ raced' = raced
  BY Shape DEF Commit, IInv
<1>2. /\ boxes' \in [DeviceIds -> SUBSET Boxes]
      /\ \A d \in DeviceIds, b \in Boxes : b \in boxes'[d] <=> Sees(r, d, b)
  <2>1. \A d \in DeviceIds : boxes[d] \subseteq Boxes
    BY DEF IInv, TypeOK
  <2> QED  BY <2>1 DEF Commit, Sees
<1>3. Partial(run[r].rows, DeviceIds, {"unpolled", "active"})
  BY DEF IInv, TypeOK, RunOK
<1>4. device \in [DeviceIds -> {"absent", "unpolled", "active"}]
  BY DEF IInv, TypeOK
<1>5. device' \in [DeviceIds -> {"absent", "unpolled", "active"}]
  BY <1>3, <1>4 DEF Commit, Overlay, Partial
<1>6. /\ \A d \in DeviceIds : d \in DOMAIN run[r].rows => device'[d] # "absent"
      /\ \A d \in DeviceIds : d \notin DOMAIN run[r].rows => device'[d] = device[d]
  BY <1>3, <1>4 DEF Commit, Overlay, Partial
<1> QED  BY <1>1, <1>2, <1>5, <1>6

LEMMA CommitKeeps ==
    ASSUME IInv, NEW r \in Runs, Commit(r)
    PROVE  IInv'
<1>1. /\ DOMAIN run' = Runs
      /\ \A p \in Runs \ {r} : run'[p] = run[p]
      /\ identity' = View(r) /\ raced' = raced
      /\ boxes' \in [DeviceIds -> SUBSET Boxes]
      /\ \A d \in DeviceIds, b \in Boxes : b \in boxes'[d] <=> Sees(r, d, b)
  BY CommitFacts
<1>2. /\ run'[r].obs = NoObs /\ run'[r].hit = NoDevice /\ run'[r].took = {}
      /\ run'[r].seen = {} /\ DOMAIN run'[r].keys = {} /\ DOMAIN run'[r].rows = {}
  BY CommitFacts, IdleFacts
<1>3. TypeOK'
  <2>1. \A p \in Runs : RunOK(run'[p])
    BY CommitFacts, IdleFacts DEF IInv, TypeOK
  <2>2. Partial(identity', Key, DeviceIds)
    BY <1>1, ViewShape DEF IInv
  <2> QED  BY <1>1, <2>1, <2>2, CommitFacts DEF IInv, TypeOK, RunOK, Partial, Key, IdType
<1>14. OneWriter'
  BY <1>1, <1>2 DEF IInv, OneWriter
<1>15. DueHeard'
  BY <1>1, CommitFacts, IdleFacts DEF IInv, DueHeard, HeardKeys
(* The tables now show everyone what the run saw.                          *)
<1>4. /\ \A d \in DeviceIds, b \in Boxes : Absorbs(d, b)' <=> Absorbs(d, b)
      /\ \A p \in Runs, d \in DeviceIds, b \in Boxes :
             Sees(p, d, b)' <=> Sees(r, d, b) \/ Sees(p, d, b)
  <2>1. \A p \in Runs, d \in DeviceIds, b \in Boxes :
             Sees(p, d, b)' <=> Sees(r, d, b) \/ Sees(p, d, b)
    BY <1>1, <1>2 DEF Sees
  <2> QED  BY <1>1, <1>2 DEF Sees, Absorbs
(* The identifiers of a box in hand are written by no other run.           *)
<1>5. ASSUME NEW p \in Runs \ {r}, NEW b \in HonestBoxes, b \notin raced,
             b \in InHand(p), NEW k, IdOf(k) \in Ids(b)
      PROVE  /\ k \in DOMAIN View(p)' <=> k \in DOMAIN View(p)
             /\ k \in DOMAIN View(p) => View(p)'[k] = View(p)[k]
  <2>1. k \notin DOMAIN run[r].keys
    BY <1>5, KeyInHand DEF IInv, Hands, HonestBoxes
  <2>2. k \in DOMAIN identity' <=> k \in DOMAIN identity
    BY <1>1, <2>1, ViewShape DEF IInv
  <2>3. k \in DOMAIN identity => identity'[k] = identity[k]
    BY <1>1, <2>1, ViewShape DEF IInv
  <2>4. /\ DOMAIN View(p)' = DOMAIN identity' \cup DOMAIN run[p].keys
        /\ \A l \in DOMAIN run[p].keys : View(p)'[l] = run[p].keys[l]
        /\ \A l \in DOMAIN identity' \ DOMAIN run[p].keys : View(p)'[l] = identity'[l]
    BY <1>1, <1>5 DEF View, Overlay
  <2>5. /\ DOMAIN View(p) = DOMAIN identity \cup DOMAIN run[p].keys
        /\ \A l \in DOMAIN run[p].keys : View(p)[l] = run[p].keys[l]
        /\ \A l \in DOMAIN identity \ DOMAIN run[p].keys : View(p)[l] = identity[l]
    BY <1>5, ViewShape DEF IInv
  <2> QED  BY <2>2, <2>3, <2>4, <2>5
<1>6. Claimed'
  <2>1. ASSUME NEW k \in DOMAIN View(r)
        PROVE  \E a \in boxes'[View(r)[k]] : IdOf(k) \in Ids(a)
    BY <1>1, <2>1, ViewClaimed
  <2>2. \A p \in Runs : \A k \in DOMAIN run'[p].keys :
           \E a \in Boxes : <<run'[p].keys[k], a>> \in run'[p].took /\ IdOf(k) \in Ids(a)
    BY <1>1, <1>2 DEF IInv, Claimed
  <2> QED  BY <1>1, <2>1, <2>2, Rigid DEF Claimed, IdOf
<1>7. Fresh'
  <2>1. ASSUME NEW d \in DeviceIds, device'[d] = "absent"
        PROVE  boxes'[d] = {}
    <3>1. d \notin DOMAIN run[r].rows /\ device[d] = "absent"
      BY <2>1, CommitFacts
    <3>2. \A b \in Boxes : ~Sees(r, d, b)
      BY <3>1 DEF IInv, Fresh, Sees
    <3> QED  BY <1>1, <3>2
  <2>2. ASSUME NEW p \in Runs, NEW d \in DeviceIds, NEW b \in Boxes, <<d, b>> \in run'[p].took
        PROVE  device'[d] # "absent" \/ d \in DOMAIN run'[p].rows
    <3>1. p # r /\ run'[p] = run[p]
      BY <1>1, <1>2, <2>2
    <3>2. device[d] # "absent" \/ d \in DOMAIN run[p].rows
      BY <2>2, <3>1 DEF IInv, Fresh
    <3> QED  BY <3>1, <3>2, CommitFacts
  <2> QED  BY <2>1, <2>2 DEF Fresh
<1>8. Hands'
  <2>1. InHand(r)' = {} /\ \A p \in Runs \ {r} : InHand(p)' = InHand(p)
    BY <1>1, <1>2 DEF InHand
  <2>2. raced' = raced /\ \A p \in Runs \ {r} : run'[p] = run[p]
    BY <1>1
  <2> QED  BY <1>2, <2>1, <2>2 DEF IInv, Hands, NoObs
<1>9. HitClaimed'
  <2>1. ASSUME NEW p \in Runs, run'[p].hit # NoDevice
        PROVE  /\ run'[p].obs # NoObs
               /\ \E a \in Boxes :
                     /\ a \in boxes'[run'[p].hit] \/ <<run'[p].hit, a>> \in run'[p].took
                     /\ Ids(a) \cap Ids(run'[p].obs.box) # {}
    <3>1. p # r /\ run'[p] = run[p]
      BY <1>1, <1>2, <2>1
    <3>2. run[p].hit \in DeviceIds
      BY <2>1, <3>1 DEF IInv, TypeOK, RunOK
    <3>3. /\ run[p].obs # NoObs
          /\ \E a \in Boxes : /\ Sees(p, run[p].hit, a)
                              /\ Ids(a) \cap Ids(run[p].obs.box) # {}
      BY <2>1, <3>1 DEF IInv, HitClaimed
    <3>4. PICK a \in Boxes : /\ Sees(p, run[p].hit, a)
                             /\ Ids(a) \cap Ids(run[p].obs.box) # {}
      BY <3>3
    <3>5. a \in boxes'[run[p].hit] \/ <<run[p].hit, a>> \in run[p].took
      BY <1>1, <3>2, <3>4 DEF Sees
    <3> QED  BY <3>1, <3>3, <3>4, <3>5
  <2> QED  BY <2>1, Rigid DEF HitClaimed, Sees, NoObs
<1>10. \A b \in HonestBoxes' : Pure(b)'
  BY <1>4, Rigid DEF IInv, Pure, HonestBoxes
<1>11. \A b \in HonestBoxes' : b \notin raced' => Unique(b)'
  BY <1>1, <1>4, Rigid DEF IInv, Unique, HonestBoxes
<1>12. ASSUME NEW b \in HonestBoxes, b \notin raced
       PROVE  Named(b)'
  <2>1. ASSUME NEW d \in DeviceIds, b \in boxes'[d]
        PROVE  \E k \in DOMAIN identity' : IdOf(k) = NameId(b) /\ identity'[k] = d
    BY <1>1, <1>12, <2>1, ViewNamed DEF HonestBoxes, HoldsName
  <2>2. ASSUME NEW d \in DeviceIds, NEW p \in Runs, <<d, b>> \in run'[p].took
        PROVE  \E k \in DOMAIN View(p)' : IdOf(k) = NameId(b) /\ View(p)'[k] = d
    <3>1. p # r /\ <<d, b>> \in run[p].took
      BY <1>1, <1>2, <2>2
    <3>2. b \in InHand(p)
      BY <3>1 DEF IInv, Hands, HonestBoxes
    <3>3. /\ NameId(b) \in Ids(b)
          /\ \E k \in DOMAIN View(p) : IdOf(k) = NameId(b) /\ View(p)[k] = d
      BY <1>12, <3>1, ViewNamed DEF HoldsName, Sees
    <3> QED  BY <1>5, <1>12, <3>1, <3>2, <3>3
  <2> QED  BY <2>1, <2>2, Rigid DEF Named, HoldsName, IdOf
<1>13. ASSUME NEW p \in Runs, run'[p].obs # NoObs
       PROVE  Lookups(p)'
  <2>1. p # r /\ run'[p] = run[p] /\ Lookups(p)
    BY <1>1, <1>2, <1>13 DEF IInv
  <2>2. PICK o \in Observations, b \in Boxes :
           o = run[p].obs /\ b = o.box /\ b \in InHand(p)
    BY <1>13, <2>1, ObsOK
  <2>3. SUFFICES ASSUME Honest(b), b \notin raced
                 PROVE  /\ run[p].step = "write" /\ run[p].hit = NoDevice =>
                               \A d \in DeviceIds : ~Sees(p, d, b)'
                        /\ run[p].step \in {"base_mac", "sysname", "veto"}
                           /\ "chassis_id" \in Types(o.ids) =>
                               Owners(View(p)', OfType(o.ids, "chassis_id")) = {}
    BY <1>1, <2>1, <2>2, Rigid DEF Lookups, Missed, Owners, OfType, Types
  <2>4. b \in HonestBoxes /\ b \notin InHand(r)
    BY <2>1, <2>2, <2>3 DEF HonestBoxes, IInv, Hands
  <2>5. \A d \in DeviceIds : Sees(p, d, b)' <=> Sees(p, d, b)
    <3>1. \A d \in DeviceIds : Sees(r, d, b) => Sees(p, d, b)
      BY <2>2, <2>4 DEF Sees, IInv, Hands
    <3> QED  BY <1>4, <2>1, <2>2, <3>1
  <2>6. ASSUME Owners(View(p), OfType(o.ids, "chassis_id")) = {}
        PROVE  Owners(View(p)', OfType(o.ids, "chassis_id")) = {}
    <3> DEFINE ids == OfType(o.ids, "chassis_id")
    <3>1. ids \in SUBSET Id /\ ids \subseteq Ids(b)
      BY <2>2, ObsFacts DEF OfType
    <3>2. /\ DOMAIN View(p) \subseteq Key /\ DOMAIN View(p)' \subseteq Key
      BY <1>3, ViewShape DEF IInv, Partial, View, Overlay, TypeOK, RunOK
    <3>3. \A k \in DOMAIN View(p)' : IdOf(k) \in ids => View(p)'[k] \in Owners(View(p), ids)
      <4>1. ASSUME NEW k \in DOMAIN View(p)', IdOf(k) \in ids
            PROVE  k \in DOMAIN View(p) /\ View(p)'[k] = View(p)[k]
        BY <1>5, <2>1, <2>2, <2>3, <2>4, <3>1, <4>1
      <4> HIDE DEF ids
      <4> QED  BY <3>1, <3>2, <4>1, OwnersFacts
    <3> HIDE DEF ids
    <3>4. Owners(View(p)', ids) = {}
      BY <2>6, <3>1, <3>2, <3>3, OwnersFacts DEF ids
    <3> QED  BY <3>4 DEF ids
  <2> QED  BY <2>1, <2>2, <2>3, <2>5, <2>6 DEF Lookups, Missed
<1> QED  BY <1>1, <1>3, <1>6, <1>7, <1>8, <1>9, <1>10, <1>11, <1>12, <1>13, <1>14, <1>15, Rigid
         DEF IInv, NoObs

----------------------------------------------------------------------------
(* A step that writes.                                                     *)

(* An observation is taken for the device it matched, or for a new one.    *)
WritesOK(r, d, K, R) ==
    /\ run[r].step \in {"write", "insert"}
    /\ d \in DeviceIds /\ K \subseteq Key /\ Partial(R, {d}, {"unpolled", "active"})
    /\ \A k \in K : IdOf(k) \in Ids(run[r].obs.box)
    /\ \A p \in Runs \ {r} : /\ K \cap DOMAIN run[p].keys = {}
                             /\ DOMAIN R \cap DOMAIN run[p].rows = {}
    /\ \/ run[r].hit = d
       \/ /\ run[r].step = "write" /\ run[r].hit = NoDevice
          /\ d \in Free /\ d \in DOMAIN R
    /\ Honest(run[r].obs.box) /\ run[r].obs.box \notin raced =>
           HoldsName(Overlay(View(r), [k \in K |-> d]), run[r].obs.box, d)

LEMMA WriteType ==
    ASSUME IInv, NEW r \in Runs, NEW d, NEW K, NEW R,
           Writes(r, d, K, R), WritesOK(r, d, K, R), raced' = raced
    PROVE  TypeOK'
<1>1. RunOK(run'[r])
  <2>1. RunOK(run[r]) /\ run[r].obs # NoObs
    BY DEF IInv, TypeOK, RunOK, WritesOK
  <2>2. run[r].obs.box \in Boxes
    BY <2>1, ObsOK
  <2>3. Partial(run'[r].keys, Key, DeviceIds)
    <3>1. Partial([k \in K |-> d], Key, DeviceIds)
      BY DEF WritesOK, Partial
    <3> QED  BY <2>1, <3>1, OverlayPartial DEF RunOK, Writes
  <2>4. Partial(run'[r].rows, DeviceIds, {"unpolled", "active"})
    <3>1. Partial(R, DeviceIds, {"unpolled", "active"})
      BY DEF WritesOK, Partial
    <3> QED  BY <2>1, <3>1, OverlayPartial DEF RunOK, Writes
  <2>5. run'[r].took \subseteq DeviceIds \X Boxes
    BY <2>1, <2>2 DEF RunOK, Writes, WritesOK
  <2>6. /\ DOMAIN run'[r] = Fields
        /\ run'[r].step = "open" /\ run'[r].obs = NoObs /\ run'[r].hit = NoDevice
        /\ run'[r].seen = run[r].seen /\ run'[r].due = {}
    BY DEF Writes, Only
  <2> QED  BY <2>1, <2>3, <2>4, <2>5, <2>6 DEF RunOK, Fields, Step
<1>2. /\ DOMAIN run' = Runs /\ \A p \in Runs \ {r} : run'[p] = run[p]
      /\ identity' = identity /\ device' = device /\ boxes' = boxes
  BY DEF Writes, Only
<1>3. \A p \in Runs : RunOK(run'[p])
  BY <1>1, <1>2 DEF IInv, TypeOK
<1> QED  BY <1>2, <1>3 DEF IInv, TypeOK, RunOK

LEMMA WriteOne ==
    ASSUME IInv, NEW r \in Runs, NEW d, NEW K, NEW R,
           Writes(r, d, K, R), WritesOK(r, d, K, R)
    PROVE  OneWriter' /\ DueHeard'
<1>1. DOMAIN run' = Runs /\ \A p \in Runs \ {r} : run'[p] = run[p]
  BY DEF Writes, Only
<1>2. /\ DOMAIN run'[r].keys = DOMAIN run[r].keys \cup K
      /\ DOMAIN run'[r].rows = DOMAIN run[r].rows \cup DOMAIN R
  BY DEF Writes, Overlay
<1>3. \A p, q \in Runs : p # q =>
         /\ DOMAIN run[p].keys \cap DOMAIN run[q].keys = {}
         /\ DOMAIN run[p].rows \cap DOMAIN run[q].rows = {}
  BY DEF IInv, OneWriter
<1>4. \A p \in Runs \ {r} : /\ K \cap DOMAIN run[p].keys = {}
                            /\ DOMAIN R \cap DOMAIN run[p].rows = {}
  BY DEF WritesOK
<1>5. \A p \in Runs \ {r} :
         /\ DOMAIN run'[p].keys \cap DOMAIN run'[r].keys = {}
         /\ DOMAIN run'[p].rows \cap DOMAIN run'[r].rows = {}
  BY <1>1, <1>2, <1>3, <1>4
<1>6. OneWriter'
  BY <1>1, <1>3, <1>5 DEF OneWriter
<1>7. DueHeard'
  BY <1>1 DEF IInv, DueHeard, HeardKeys, Writes
<1> QED  BY <1>6, <1>7

LEMMA WriteKeeps ==
    ASSUME IInv, NEW r \in Runs, NEW d, NEW K, NEW R,
           Writes(r, d, K, R), WritesOK(r, d, K, R), raced' = raced
    PROVE  IInv'
<1>1. /\ DOMAIN run' = Runs /\ \A p \in Runs \ {r} : run'[p] = run[p]
      /\ identity' = identity /\ device' = device /\ boxes' = boxes
      /\ run'[r].obs = NoObs /\ run'[r].hit = NoDevice /\ run'[r].seen = run[r].seen
  BY DEF Writes, Only
<1>2. run[r].obs # NoObs /\ d \in DeviceIds
  BY DEF IInv, TypeOK, RunOK, WritesOK
<1>3. PICK b \in Boxes : b = run[r].obs.box /\ b \in InHand(r)
  BY <1>2, ObsOK
<1>4. run'[r].took = run[r].took \cup {<<d, b>>}
  BY <1>3 DEF Writes
<1>5. /\ \A p \in Runs \ {r} : View(p)' = View(p)
      /\ \A p \in Runs \ {r}, e \in DeviceIds : \A c : Sees(p, e, c)' <=> Sees(p, e, c)
      /\ \A e \in DeviceIds : \A c : Absorbs(e, c)' <=> Absorbs(e, c) \/ (e = d /\ c = b)
  BY <1>1, <1>4 DEF View, Sees, Absorbs
<1>6. /\ DOMAIN run'[r].keys = DOMAIN run[r].keys \cup K
      /\ \A k \in K : run'[r].keys[k] = d
      /\ \A k \in DOMAIN run[r].keys \ K : run'[r].keys[k] = run[r].keys[k]
      /\ DOMAIN run'[r].rows = DOMAIN run[r].rows \cup DOMAIN R
  BY DEF Writes, Overlay
<1>7. /\ DOMAIN View(r)' = DOMAIN View(r) \cup K
      /\ \A k \in K : View(r)'[k] = d
      /\ \A k \in DOMAIN View(r) \ K : View(r)'[k] = View(r)[k]
  BY <1>1, <1>6 DEF View, Overlay
(* The device is nothing yet, or shares an identifier with the box.        *)
<1>8. \/ /\ \A c \in Boxes : ~Absorbs(d, c)
         /\ Honest(b) /\ b \notin raced => \A e \in DeviceIds : ~Absorbs(e, b)
         /\ d \in DOMAIN R
      \/ \E a \in Boxes : Sees(r, d, a) /\ Ids(a) \cap Ids(b) # {}
  <2>1. CASE run[r].hit = d /\ d # NoDevice
    BY <1>3, <2>1 DEF IInv, HitClaimed
  <2>2. CASE /\ run[r].step = "write" /\ run[r].hit = NoDevice
             /\ d \in Free /\ d \in DOMAIN R
    <3>1. device[d] = "absent" /\ \A p \in Runs : d \notin DOMAIN run[p].rows
      BY <2>2 DEF Free
    <3>2. \A c \in Boxes : ~Absorbs(d, c)
      BY <1>2, <3>1 DEF Absorbs, IInv, Fresh
    <3>3. Lookups(r)
      BY <1>2 DEF IInv
    <3>4. Honest(b) /\ b \notin raced => \A e \in DeviceIds : ~Sees(r, e, b)
      BY <1>3, <2>2, <3>3 DEF Lookups, WritesOK
    <3>5. Honest(b) /\ b \notin raced => \A e \in DeviceIds : ~Absorbs(e, b)
      BY <1>3, <3>4, HandSees DEF HonestBoxes
    <3> QED  BY <2>2, <3>2, <3>5
  <2>3. d # NoDevice
    BY <1>2, FleetAssumption
  <2> QED  BY <2>1, <2>2, <2>3 DEF WritesOK
<1>9. \/ /\ \A c \in Boxes : ~Absorbs(d, c)
         /\ Honest(b) /\ b \notin raced => \A e \in DeviceIds : ~Absorbs(e, b)
      \/ \E a \in Boxes : Absorbs(d, a) /\ Ids(a) \cap Ids(b) # {}
  BY <1>8, SeesAbsorbs
<1>10. Claimed'
  <2>1. \A k \in DOMAIN run'[r].keys :
           \E a \in Boxes : <<run'[r].keys[k], a>> \in run'[r].took /\ IdOf(k) \in Ids(a)
    <3>1. ASSUME NEW k \in K
          PROVE  <<run'[r].keys[k], b>> \in run'[r].took /\ IdOf(k) \in Ids(b)
      BY <1>3, <1>4, <1>6 DEF WritesOK
    <3>2. ASSUME NEW k \in DOMAIN run[r].keys \ K
          PROVE  \E a \in Boxes :
                    <<run'[r].keys[k], a>> \in run'[r].took /\ IdOf(k) \in Ids(a)
      <4>1. PICK a \in Boxes :
               <<run[r].keys[k], a>> \in run[r].took /\ IdOf(k) \in Ids(a)
        BY DEF IInv, Claimed
      <4> QED  BY <1>4, <1>6, <4>1
    <3> QED  BY <1>6, <3>1, <3>2
  <2> QED  BY <1>1, <2>1, Rigid DEF IInv, Claimed, IdOf
<1>11. Fresh'
  <2>1. ASSUME NEW e \in DeviceIds, NEW c \in Boxes, <<e, c>> \in run'[r].took
        PROVE  device[e] # "absent" \/ e \in DOMAIN run'[r].rows
    <3>1. CASE <<e, c>> \in run[r].took
      BY <1>6, <3>1 DEF IInv, Fresh
    <3>2. CASE e = d
      <4>1. CASE d \in DOMAIN R
        BY <1>6, <3>2, <4>1
      <4>2. CASE \E a \in Boxes : Sees(r, d, a)
        BY <1>2, <1>6, <3>2, <4>2 DEF Sees, IInv, Fresh
      <4> QED  BY <1>8, <4>1, <4>2
    <3> QED  BY <1>4, <2>1, <3>1, <3>2
  <2> QED  BY <1>1, <2>1 DEF IInv, Fresh
<1>12. Hands'
  <2>1. \A p \in Runs : InHand(p)' = InHand(p)
    BY <1>1 DEF InHand
  <2>2. \A p \in Runs, e \in DeviceIds, c \in Boxes :
           <<e, c>> \in run'[p].took => c \in InHand(p)
    BY <1>1, <1>3, <1>4 DEF IInv, Hands
  <2>3. \A p \in Runs : run'[p].obs # NoObs => run'[p].obs \in run'[p].seen
    BY <1>1 DEF IInv, Hands
  <2>4. \A c \in Boxes, p, q \in Runs :
           c \notin raced /\ c \in InHand(p) /\ c \in InHand(q) => p = q
    BY DEF IInv, Hands
  <2> QED  BY <2>1, <2>2, <2>3, <2>4 DEF Hands, NoObs
<1>13. HitClaimed'
  <2>1. ASSUME NEW p \in Runs, run'[p].hit # NoDevice
        PROVE  /\ run'[p].obs # NoObs
               /\ \E a \in Boxes :
                     /\ a \in boxes'[run'[p].hit] \/ <<run'[p].hit, a>> \in run'[p].took
                     /\ Ids(a) \cap Ids(run'[p].obs.box) # {}
    <3>1. p # r /\ run'[p] = run[p]
      BY <1>1, <2>1
    <3> QED  BY <1>1, <2>1, <3>1 DEF IInv, HitClaimed, Sees
  <2> QED  BY <2>1, Rigid DEF HitClaimed, Sees, NoObs
<1>14. ASSUME NEW c \in HonestBoxes
       PROVE  Pure(c)'
  <2>1. ASSUME NEW e \in DeviceIds, NEW x \in Boxes,
               Absorbs(e, c) \/ (e = d /\ c = b), Absorbs(e, x) \/ (e = d /\ x = b)
        PROVE  x = c
    <3>1. CASE Absorbs(e, c) /\ Absorbs(e, x)
      BY <3>1 DEF IInv, Pure
    <3>2. CASE e = d /\ c = b /\ Absorbs(d, x)
      <4>1. PICK a \in Boxes : Absorbs(d, a) /\ Ids(a) \cap Ids(b) # {}
        BY <1>9, <3>2
      <4>2. a = b
        BY <3>2, <4>1 DEF HonestBoxes, Honest
      <4> QED  BY <1>2, <3>2, <4>1, <4>2 DEF IInv, Pure
    <3>3. CASE e = d /\ x = b /\ Absorbs(d, c)
      <4>1. PICK a \in Boxes : Absorbs(d, a) /\ Ids(a) \cap Ids(b) # {}
        BY <1>9, <3>3 DEF HonestBoxes
      <4>2. a = c
        BY <1>2, <3>3, <4>1 DEF IInv, Pure
      <4> QED  BY <3>3, <4>1, <4>2 DEF HonestBoxes, Honest
    <3> QED  BY <2>1, <3>1, <3>2, <3>3
  <2> QED  BY <1>5, <2>1 DEF Pure
<1>15. ASSUME NEW c \in HonestBoxes, c \notin raced
       PROVE  Unique(c)'
  <2>1. ASSUME NEW e \in DeviceIds, Absorbs(e, c), c = b
        PROVE  e = d
    <3>1. PICK a \in Boxes : Absorbs(d, a) /\ Ids(a) \cap Ids(b) # {}
      BY <1>9, <1>15, <2>1 DEF HonestBoxes
    <3>2. a = b
      BY <2>1, <3>1 DEF HonestBoxes, Honest
    <3> QED  BY <1>2, <1>15, <2>1, <3>1, <3>2 DEF IInv, Unique
  <2>2. \A e, f \in DeviceIds : Absorbs(e, c) /\ Absorbs(f, c) => e = f
    BY <1>15 DEF IInv, Unique
  <2> QED  BY <1>5, <2>1, <2>2 DEF Unique
<1>16. ASSUME NEW c \in HonestBoxes, c \notin raced
       PROVE  Named(c)'
  <2>1. ASSUME NEW e \in DeviceIds, <<e, c>> \in run'[r].took
        PROVE  \E k \in DOMAIN View(r)' : IdOf(k) = NameId(c) /\ View(r)'[k] = e
    <3>1. CASE e = d /\ c = b
      <4>1. PICK k \in DOMAIN Overlay(View(r), [l \in K |-> d]) :
               IdOf(k) = NameId(b) /\ Overlay(View(r), [l \in K |-> d])[k] = d
        BY <1>3, <1>16, <3>1 DEF WritesOK, HoldsName, HonestBoxes
      <4>2. k \in DOMAIN View(r) \cup K /\ (k \notin K => View(r)[k] = d)
        BY <4>1 DEF Overlay
      <4> QED  BY <1>7, <3>1, <4>1, <4>2
    <3>2. CASE <<e, c>> \in run[r].took
      <4>1. PICK k \in DOMAIN View(r) : IdOf(k) = NameId(c) /\ View(r)[k] = e
        BY <1>16, <3>2 DEF IInv, Named, HoldsName
      <4>2. NameId(c) \in Ids(c)
        BY <1>16, <3>2, ViewNamed DEF Sees
      <4>3. CASE k \in K
        <5>1. c = b
          BY <1>3, <4>1, <4>2, <4>3 DEF WritesOK, HonestBoxes, Honest
        <5>2. Absorbs(d, c)' /\ Absorbs(e, c)'
          BY <1>5, <1>2, <3>2, <5>1 DEF Absorbs
        <5>3. e = d
          BY <1>2, <1>15, <1>16, <5>2 DEF Unique
        <5> QED  BY <1>7, <4>1, <4>3, <5>3
      <4>4. CASE k \notin K
        BY <1>7, <4>1, <4>4
      <4> QED  BY <4>3, <4>4
    <3> QED  BY <1>4, <2>1, <3>1, <3>2
  <2>2. \A e \in DeviceIds : c \in boxes'[e] =>
           \E k \in DOMAIN identity' : IdOf(k) = NameId(c) /\ identity'[k] = e
    BY <1>1, <1>16 DEF IInv, Named, HoldsName
  <2>3. \A p \in Runs \ {r}, e \in DeviceIds : <<e, c>> \in run'[p].took =>
           \E k \in DOMAIN View(p)' : IdOf(k) = NameId(c) /\ View(p)'[k] = e
    BY <1>1, <1>5, <1>16 DEF IInv, Named, HoldsName
  <2> QED  BY <2>1, <2>2, <2>3, Rigid DEF Named, HoldsName, IdOf
<1>17. ASSUME NEW p \in Runs, run'[p].obs # NoObs
       PROVE  Lookups(p)'
  <2>1. p # r /\ run'[p] = run[p] /\ Lookups(p)
    BY <1>1, <1>17 DEF IInv
  <2> QED  BY <2>1, <1>5, Rigid DEF Lookups, Missed, OfType, Types
<1> QED  BY <1>10, <1>11, <1>12, <1>13, <1>14, <1>15, <1>16, <1>17, WriteType, WriteOne, Rigid
         DEF IInv, NoObs

----------------------------------------------------------------------------
(* The actions.                                                            *)

LEMMA ObserveKeeps ==
    ASSUME IInv, NEW r \in Runs, Observe(r)
    PROVE  IInv'
<1>1. PICK o \in Observations :
        /\ Goes(r, Strongest(Types(o.ids)), o, run[r].hit, run[r].seen \cup {o})
        /\ raced' \subseteq Boxes
        /\ \A p \in Runs \ {r} : o.box \in InHand(p) => o.box \in raced'
  BY ObserveGoes DEF IInv
<1> DEFINE s == Strongest(Types(o.ids))
<1>2. Types(o.ids) \subseteq IdType /\ o.ids # {}
  BY ObsFacts DEF Types, Id
<1>3. s \in IdType
  BY <1>2 DEF Strongest, Types, IdType
<1>4. s \in Step \ {"idle", "open"} /\ s # "write" /\ s # "veto" /\ s # "insert"
  BY <1>3 DEF Step, IdType
<1>5. s \in {"base_mac", "sysname"} => "chassis_id" \notin Types(o.ids)
  BY DEF Strongest
<1>6. run[r].hit = NoDevice
  <2>1. run[r].obs = NoObs
    BY DEF IInv, TypeOK, RunOK, Observe
  <2> QED  BY <2>1 DEF IInv, HitClaimed
<1>7. Answered(r, s, o, run[r].hit)
  <2> HIDE DEF s
  <2> QED  BY <1>4, <1>5 DEF Answered
<1> HIDE DEF s
<1> QED  BY <1>1, <1>4, <1>6, <1>7, GoesKeeps DEF s

LEMMA LookUpKeeps ==
    ASSUME IInv, NEW r \in Runs, LookUp(r)
    PROVE  IInv'
<1>1. /\ raced' = raced /\ run[r].step \in IdType
      /\ \/ /\ Owners(View(r), OfType(run[r].obs.ids, run[r].step)) = {}
            /\ Goes(r, Strongest(Types(run[r].obs.ids) \cap Weaker(run[r].step)),
                    run[r].obs, run[r].hit, run[r].seen)
         \/ \E d \in Owners(View(r), OfType(run[r].obs.ids, run[r].step)) :
               Goes(r, IF Vetoable(run[r].obs, run[r].step) THEN "veto" ELSE "write",
                    run[r].obs, d, run[r].seen)
  BY LookUpGoes DEF IInv
<1>2. PICK o, t : o = run[r].obs /\ t = run[r].step
  OBVIOUS
<1>3. run[r].obs # NoObs
  BY <1>1 DEF IInv, TypeOK, RunOK, IdType
<1>4. o \in Observations /\ o \in run[r].seen /\ o.box \in Boxes /\ o.box \in InHand(r)
  BY <1>2, <1>3, ObsOK
<1>5. /\ run[r].seen = run[r].seen \cup {o} /\ raced' \subseteq Boxes
      /\ \A p \in Runs \ {r} : o.box \in InHand(p) => o.box \in raced'
  BY <1>1, <1>4 DEF IInv, TypeOK, Hands
<1>6. o.ids \subseteq Ids(o.box) /\ o.ids \subseteq Id
  BY <1>4, ObsFacts
<1>7. DOMAIN View(r) \subseteq Key
  BY ViewShape DEF IInv, Partial
<1> DEFINE ids == OfType(o.ids, t)
<1>8. ids \in SUBSET Id /\ ids \subseteq Ids(o.box)
  BY <1>6 DEF OfType
<1>9. Honest(o.box) => NameId(o.box) \in o.ids /\ NameId(o.box).type = "sysname"
  BY <1>4, ObsFacts DEF NameId
<1>10. Honest(o.box) => "sysname" \in Types(o.ids)
  BY <1>9 DEF Types
<1>11. run[r].obs # NoObs => Lookups(r)
  BY DEF IInv
<1>12. CASE /\ Owners(View(r), ids) = {}
            /\ Goes(r, Strongest(Types(o.ids) \cap Weaker(t)), o, run[r].hit, run[r].seen)
  <2> DEFINE s == Strongest(Types(o.ids) \cap Weaker(t))
  <2>1. s \in {"base_mac", "sysname", "write"}
    BY <1>1, <1>2 DEF Strongest, Weaker, IdType
  <2>2. s \in Step \ {"idle", "open"} /\ s # "veto" /\ s # "insert"
    BY <2>1 DEF Step, IdType
  <2>3. Honest(o.box) /\ s = "write" => t = "sysname"
    BY <1>1, <1>2, <1>10 DEF Strongest, Weaker, IdType
  <2>4. Honest(o.box) /\ o.box \notin raced /\ s = "write" =>
           \A d \in DeviceIds : ~Sees(r, d, o.box)
    <3>1. SUFFICES ASSUME Honest(o.box), o.box \notin raced, s = "write",
                          NEW d \in DeviceIds, Sees(r, d, o.box)
                   PROVE  FALSE
      OBVIOUS
    <3>2. PICK k \in DOMAIN View(r) : IdOf(k) = NameId(o.box) /\ View(r)[k] = d
      BY <1>4, <3>1, ViewNamed DEF HonestBoxes, HoldsName
    <3>3. IdOf(k) \in ids
      BY <1>9, <2>3, <3>1, <3>2 DEF OfType
    <3> HIDE DEF ids
    <3> QED  BY <1>7, <1>8, <1>12, <3>2, <3>3, OwnersFacts
  <2>5. /\ run[r].hit \in DeviceIds \cup {NoDevice}
        /\ run[r].hit # NoDevice =>
              \E a \in Boxes : Sees(r, run[r].hit, a) /\ Ids(a) \cap Ids(o.box) # {}
    BY <1>2 DEF IInv, TypeOK, RunOK, HitClaimed
  <2>6. ASSUME Honest(o.box), o.box \notin raced, s \in {"base_mac", "sysname"},
               "chassis_id" \in Types(o.ids)
        PROVE  Owners(View(r), OfType(o.ids, "chassis_id")) = {}
    <3>1. t \in {"chassis_id", "base_mac"}
      BY <1>1, <1>2, <2>6 DEF Strongest, Weaker, IdType
    <3>2. CASE t = "chassis_id"
      BY <1>12, <3>2
    <3>3. CASE t = "base_mac"
      BY <1>2, <1>3, <1>11, <2>6, <3>3 DEF Lookups, Missed
    <3> QED  BY <3>1, <3>2, <3>3
  <2>7. Answered(r, s, o, run[r].hit)
    <3> HIDE DEF s
    <3> QED  BY <1>1, <2>2, <2>4, <2>6 DEF Answered
  <2> HIDE DEF s, ids
  <2> QED  BY <1>4, <1>5, <1>12, <2>2, <2>5, <2>7, GoesKeeps DEF s
<1>13. ASSUME NEW d \in Owners(View(r), ids),
              Goes(r, IF Vetoable(o, t) THEN "veto" ELSE "write", o, d, run[r].seen)
       PROVE  IInv'
  <2> DEFINE s == IF Vetoable(o, t) THEN "veto" ELSE "write"
  <2>1. PICK k \in DOMAIN View(r) : View(r)[k] = d /\ IdOf(k) \in ids
    <3> HIDE DEF ids
    <3> QED  BY <1>7, <1>8, <1>13, OwnersFacts
  <2>2. PICK a \in Boxes : d \in DeviceIds /\ Sees(r, d, a) /\ IdOf(k) \in Ids(a)
    BY <2>1, ViewClaimed
  <2>3. Ids(a) \cap Ids(o.box) # {}
    BY <1>8, <2>1, <2>2
  <2>4. s \in Step \ {"idle", "open"} /\ s \in {"veto", "write"}
    BY DEF Step
  <2>5. d # NoDevice
    BY <2>2, FleetAssumption
  <2>6. s = "veto" => t = "sysname" /\ "chassis_id" \in Types(o.ids)
    BY DEF Vetoable
  <2>7. Honest(o.box) /\ o.box \notin raced /\ s = "veto" =>
           Owners(View(r), OfType(o.ids, "chassis_id")) = {}
    BY <1>2, <1>3, <1>11, <2>6 DEF Lookups, Missed
  <2>8. Answered(r, s, o, d)
    <3> HIDE DEF s
    <3> QED  BY <1>1, <2>4, <2>5, <2>6, <2>7 DEF Answered
  <2> HIDE DEF s, ids
  <2> QED  BY <1>4, <1>5, <1>13, <2>2, <2>3, <2>4, <2>8, GoesKeeps DEF s
<1> QED  BY <1>1, <1>2, <1>12, <1>13

(* The device of an honest box is never vetoed: the only chassis it may    *)
(* store is the one the frame shows, and a device was found to store that. *)
LEMMA VetoKeeps ==
    ASSUME IInv, NEW r \in Runs, Veto(r)
    PROVE  IInv'
<1> DEFINE h == IF Contradicts(r, run[r].hit) THEN NoDevice ELSE run[r].hit
<1>1. /\ raced' = raced /\ run[r].step = "veto"
      /\ Goes(r, "write", run[r].obs, h, run[r].seen)
  BY VetoGoes DEF IInv
<1>2. run[r].obs # NoObs
  BY <1>1 DEF IInv, TypeOK, RunOK
<1>3. PICK o : o = run[r].obs
  OBVIOUS
<1>4. o \in Observations /\ o \in run[r].seen /\ o.box \in Boxes /\ o.box \in InHand(r)
  BY <1>2, <1>3, ObsOK
<1>5. /\ run[r].seen = run[r].seen \cup {o} /\ raced' \subseteq Boxes
      /\ \A p \in Runs \ {r} : o.box \in InHand(p) => o.box \in raced'
  BY <1>1, <1>4 DEF IInv, TypeOK, Hands
<1>6. /\ run[r].hit \in DeviceIds \cup {NoDevice}
      /\ run[r].hit # NoDevice =>
            \E a \in Boxes : Sees(r, run[r].hit, a) /\ Ids(a) \cap Ids(o.box) # {}
  BY <1>3 DEF IInv, TypeOK, RunOK, HitClaimed
<1>7. Honest(o.box) /\ o.box \notin raced =>
         run[r].hit # NoDevice /\ ~Contradicts(r, run[r].hit)
  <2>1. SUFFICES ASSUME Honest(o.box), o.box \notin raced
                 PROVE  run[r].hit # NoDevice /\ ~Contradicts(r, run[r].hit)
    OBVIOUS
  <2>2. /\ run[r].hit # NoDevice /\ "chassis_id" \in Types(o.ids)
        /\ Owners(View(r), OfType(o.ids, "chassis_id")) = {}
    BY <1>1, <1>2, <1>3, <2>1 DEF IInv, Lookups, Missed
  <2>3. ASSUME Contradicts(r, run[r].hit)
        PROVE  FALSE
    <3>1. PICK k \in DOMAIN View(r) : k.type = "chassis_id" /\ View(r)[k] = run[r].hit
      BY <2>3 DEF Contradicts, Holds
    <3>2. PICK a \in Boxes : Sees(r, run[r].hit, a) /\ Ids(a) \cap Ids(o.box) # {}
      BY <1>6, <2>2
    <3>3. PICK x \in Boxes : Sees(r, run[r].hit, x) /\ IdOf(k) \in Ids(x)
      BY <3>1, ViewClaimed
    <3>4. a = o.box
      BY <1>4, <2>1, <3>2 DEF Honest
    <3>5. x = o.box
      BY <1>4, <1>6, <2>1, <2>2, <3>2, <3>3, <3>4, SeesAbsorbs DEF IInv, Pure, HonestBoxes
    <3>6. PICK c \in o.ids : c.type = "chassis_id"
      BY <2>2 DEF Types
    <3>7. c \in Ids(o.box) /\ c \in Id
      BY <1>4, <3>6, ObsFacts
    <3>8. IdOf(k) = c
      BY <2>1, <3>1, <3>3, <3>5, <3>6, <3>7 DEF Honest, IdOf
    <3>9. IdOf(k) \in OfType(o.ids, "chassis_id") /\ OfType(o.ids, "chassis_id") \in SUBSET Id
      BY <1>4, <3>6, <3>8, ObsFacts DEF OfType
    <3>10. DOMAIN View(r) \subseteq Key
      BY ViewShape DEF IInv, Partial
    <3> QED  BY <2>2, <3>1, <3>9, <3>10, OwnersFacts
  <2> QED  BY <2>2, <2>3
<1>8. /\ h \in DeviceIds \cup {NoDevice}
      /\ h # NoDevice => \E a \in Boxes : Sees(r, h, a) /\ Ids(a) \cap Ids(o.box) # {}
  BY <1>6
<1>9. Answered(r, "write", o, h)
  BY <1>1, <1>7 DEF Answered
<1> HIDE DEF h
<1>10. "write" \in Step \ {"idle", "open"}
  BY DEF Step
<1> QED  BY <1>1, <1>3, <1>4, <1>5, <1>8, <1>9, <1>10, GoesKeeps

LEMMA RowFacts ==
    ASSUME NEW d, NEW s \in {"unpolled", "active"}
    PROVE  /\ Partial([e \in {d} |-> s], {d}, {"unpolled", "active"})
           /\ DOMAIN [e \in {d} |-> s] = {d}
           /\ Partial([e \in {} |-> e], {d}, {"unpolled", "active"})
           /\ DOMAIN [e \in {} |-> e] = {}
BY DEF Partial

(* A name among the keys is a name held.                                   *)
LEMMA KeysName ==
    ASSUME NEW r \in Runs, NEW b, NEW d, NEW K, NEW k \in K, IdOf(k) = NameId(b)
    PROVE  HoldsName(Overlay(View(r), [l \in K |-> d]), b, d)
BY DEF HoldsName, Overlay

(* The observation that is about to be written.                            *)
LEMMA AboutToWrite ==
    ASSUME IInv, NEW r \in Runs, run[r].step \in {"write", "insert"}
    PROVE  /\ run[r].obs \in Observations /\ run[r].obs.box \in Boxes
           /\ run[r].obs.ids \in SUBSET Id /\ run[r].obs.ids \subseteq Ids(run[r].obs.box)
           /\ Honest(run[r].obs.box) => /\ NameId(run[r].obs.box) \in run[r].obs.ids
                                        /\ NameId(run[r].obs.box).type = "sysname"
           /\ run[r].hit \in DeviceIds \cup {NoDevice}
<1>1. run[r].obs \in Observations /\ run[r].hit \in DeviceIds \cup {NoDevice}
  BY DEF IInv, TypeOK, RunOK
<1> QED  BY <1>1, ObsFacts DEF NameId

LEMMA PollKeeps ==
    ASSUME IInv, NEW r \in Runs, PollKnown(r) \/ PollNew(r)
    PROVE  IInv'
<1> DEFINE K == PollKeys(run[r].obs.ids)
           R(d) == [e \in {d} |-> "active"]
<1>1. run[r].step = "write"
  BY DEF PollKnown, PollNew
<1>2. K \subseteq Key /\ \A k \in K : IdOf(k) \in Ids(run[r].obs.box)
  BY <1>1, AboutToWrite, PollKeysFacts
<1>3. ASSUME NEW d, Honest(run[r].obs.box)
      PROVE  HoldsName(Overlay(View(r), [k \in K |-> d]), run[r].obs.box, d)
  <2>1. PICK k \in K : IdOf(k) = NameId(run[r].obs.box)
    BY <1>1, <1>3, AboutToWrite, PollKeysFacts
  <2> HIDE DEF K
  <2> QED  BY <2>1, KeysName
<1>4. CASE PollKnown(r)
  <2>1. PICK d \in DeviceIds :
           /\ d = run[r].hit /\ ~Locked(r, K, {d})
           /\ Written(r, d, K, R(d)) /\ UNCHANGED <<Tables, raced>>
    BY <1>1, <1>4, AboutToWrite DEF PollKnown
  <2>2. Writes(r, d, K, R(d)) /\ raced' = raced
    BY <2>1, WrittenWrites DEF IInv
  <2>3. /\ Partial(R(d), {d}, {"unpolled", "active"})
        /\ \A p \in Runs \ {r} : /\ K \cap DOMAIN run[p].keys = {}
                                 /\ DOMAIN R(d) \cap DOMAIN run[p].rows = {}
    BY <2>1, RowFacts DEF Locked
  <2> HIDE DEF K, R
  <2>4. WritesOK(r, d, K, R(d))
    BY <1>1, <1>2, <1>3, <2>1, <2>3 DEF WritesOK
  <2> QED  BY <2>2, <2>4, WriteKeeps
<1>5. CASE PollNew(r)
  <2>1. PICK d \in Free :
           /\ run[r].hit = NoDevice /\ ~Locked(r, K, {})
           /\ Written(r, d, K, R(d)) /\ UNCHANGED <<Tables, raced>>
    BY <1>5 DEF PollNew
  <2>2. Writes(r, d, K, R(d)) /\ raced' = raced
    BY <2>1, WrittenWrites DEF IInv
  <2>3. /\ Partial(R(d), {d}, {"unpolled", "active"})
        /\ d \in DOMAIN R(d) /\ d \in DeviceIds
        /\ \A p \in Runs \ {r} : /\ K \cap DOMAIN run[p].keys = {}
                                 /\ DOMAIN R(d) \cap DOMAIN run[p].rows = {}
    BY <2>1, RowFacts DEF Locked, Free
  <2> HIDE DEF K, R
  <2>4. WritesOK(r, d, K, R(d))
    BY <1>1, <1>2, <1>3, <2>1, <2>3 DEF WritesOK
  <2> QED  BY <2>2, <2>4, WriteKeeps
<1> QED  BY <1>4, <1>5

LEMMA HearNewKeeps ==
    ASSUME IInv, NEW r \in Runs, HearNew(r)
    PROVE  IInv'
<1> DEFINE K == HeardKeys(run[r].obs.ids)
           R(d) == [e \in {d} |-> "unpolled"]
<1>1. run[r].step = "write"
  BY DEF HearNew
<1>2. K \subseteq Key /\ \A k \in K : IdOf(k) \in Ids(run[r].obs.box)
  BY <1>1, AboutToWrite, HeardKeysFacts
<1>3. ASSUME NEW d, Honest(run[r].obs.box)
      PROVE  HoldsName(Overlay(View(r), [k \in K |-> d]), run[r].obs.box, d)
  <2>1. PICK k \in K : IdOf(k) = NameId(run[r].obs.box)
    BY <1>1, <1>3, AboutToWrite, HeardKeysFacts
  <2> HIDE DEF K
  <2> QED  BY <2>1, KeysName
<1>4. PICK d \in Free :
         /\ run[r].hit = NoDevice /\ ~Locked(r, K, {})
         /\ Written(r, d, K, R(d)) /\ UNCHANGED <<Tables, raced>>
  BY DEF HearNew
<1>5. Writes(r, d, K, R(d)) /\ raced' = raced
  BY <1>4, WrittenWrites DEF IInv
<1>6. /\ Partial(R(d), {d}, {"unpolled", "active"})
      /\ d \in DOMAIN R(d) /\ d \in DeviceIds
      /\ \A p \in Runs \ {r} : /\ K \cap DOMAIN run[p].keys = {}
                               /\ DOMAIN R(d) \cap DOMAIN run[p].rows = {}
  BY <1>4, RowFacts DEF Locked, Free
<1> HIDE DEF K, R
<1>7. WritesOK(r, d, K, R(d))
  BY <1>1, <1>2, <1>3, <1>4, <1>6 DEF WritesOK
<1> QED  BY <1>5, <1>7, WriteKeeps

LEMMA ReassertKeeps ==
    ASSUME IInv, NEW r \in Runs, Reassert(r)
    PROVE  IInv'
<1>1. run[r].step = "write" /\ run[r].hit # NoDevice
  BY DEF Reassert
<1>2. PICK o : o = run[r].obs
  OBVIOUS
<1>3. /\ o \in Observations /\ o.ids \in SUBSET Id
      /\ run[r].hit \in DeviceIds \cup {NoDevice}
  BY <1>1, <1>2, AboutToWrite
<1>4. /\ raced' = raced /\ Goes(r, "insert", o, run[r].hit, run[r].seen)
      /\ run'[r].due = Reassertable(View(r), o.ids, run[r].hit)
  BY <1>2, <1>3, ReassertGoes DEF IInv
<1>5. o # NoObs
  BY <1>3, ObsFacts
<1>6. o \in run[r].seen /\ o.box \in Boxes /\ o.box \in InHand(r)
  BY <1>2, <1>5, ObsOK
<1>7. /\ run[r].seen = run[r].seen \cup {o} /\ raced' \subseteq Boxes
      /\ \A p \in Runs \ {r} : o.box \in InHand(p) => o.box \in raced'
  BY <1>4, <1>6 DEF IInv, TypeOK, Hands
<1>8. \E a \in Boxes : Sees(r, run[r].hit, a) /\ Ids(a) \cap Ids(o.box) # {}
  BY <1>1, <1>2 DEF IInv, HitClaimed
<1>9. run'[r].due \subseteq HeardKeys(o.ids)
  BY <1>4 DEF Reassertable
<1>10. Answered(r, "insert", o, run[r].hit) /\ "insert" \in Step \ {"idle", "open"}
  BY DEF Answered, Step
<1> QED  BY <1>1, <1>3, <1>4, <1>7, <1>8, <1>9, <1>10, GoesKeeps

LEMMA HearKnownKeeps ==
    ASSUME IInv, NEW r \in Runs, HearKnown(r)
    PROVE  IInv'
<1> DEFINE o == run[r].obs
           R == [e \in {} |-> e]
<1>1. run[r].step = "insert"
  BY DEF HearKnown
<1>2. PICK d \in DeviceIds : d = run[r].hit /\ d # NoDevice
  BY <1>1, AboutToWrite DEF IInv, DueHeard
<1>3. PICK K :
         /\ K = Unconflicted(View(r), run[r].due, d)
         /\ ~Locked(r, run[r].due, {})
         /\ Written(r, d, K, R) /\ UNCHANGED <<Tables, raced>>
  BY <1>1, <1>2 DEF HearKnown
<1>4. /\ HeardKeys(o.ids) \subseteq Key
      /\ \A k \in HeardKeys(o.ids) : IdOf(k) \in Ids(o.box)
  BY <1>1, AboutToWrite, HeardKeysFacts
<1>5. /\ K \subseteq run[r].due /\ K \subseteq HeardKeys(o.ids)
      /\ \A k \in K : k \in DOMAIN View(r) => View(r)[k] = d
  BY <1>1, <1>3 DEF Unconflicted, IInv, DueHeard
<1>6. Writes(r, d, K, R) /\ raced' = raced
  <2> HIDE DEF R
  <2> QED  BY <1>3, WrittenWrites DEF IInv
<1>7. /\ Partial(R, {d}, {"unpolled", "active"})
      /\ \A p \in Runs \ {r} : /\ K \cap DOMAIN run[p].keys = {}
                               /\ DOMAIN R \cap DOMAIN run[p].rows = {}
  BY <1>3, <1>5, RowFacts DEF Locked
(* The device of an honest box held the box's name before, and keeps it.   *)
<1>8. ASSUME Honest(o.box), o.box \notin raced
      PROVE  HoldsName(Overlay(View(r), [k \in K |-> d]), o.box, d)
  <2>1. PICK a \in Boxes : Sees(r, d, a) /\ Ids(a) \cap Ids(o.box) # {}
    BY <1>2 DEF IInv, HitClaimed
  <2>2. a = o.box
    BY <1>1, <1>8, <2>1, AboutToWrite DEF Honest
  <2>3. HoldsName(View(r), o.box, d)
    BY <1>1, <1>8, <2>1, <2>2, AboutToWrite, ViewNamed DEF HonestBoxes
  <2> QED  BY <2>3 DEF HoldsName, Overlay
<1> HIDE DEF R
<1>9. WritesOK(r, d, K, R)
  BY <1>1, <1>2, <1>4, <1>5, <1>7, <1>8 DEF WritesOK
<1> QED  BY <1>6, <1>9, WriteKeeps

----------------------------------------------------------------------------
(* The theorems.                                                           *)

LEMMA IInvInit == Init => IInv
<1> SUFFICES ASSUME Init
             PROVE  IInv
  OBVIOUS
<1>1. /\ DOMAIN run = Runs
      /\ \A r \in Runs : run[r] = Idle
      /\ DOMAIN identity = {} /\ raced = {}
      /\ \A d \in DeviceIds : boxes[d] = {}
  BY DEF Init
<1>2. TypeOK
  BY <1>1, IdleFacts DEF Init, TypeOK, Partial
<1>3. Claimed /\ Fresh /\ HitClaimed
  BY <1>1, IdleFacts DEF Claimed, Fresh, HitClaimed
<1>4. Hands
  BY <1>1, IdleFacts DEF Hands, InHand
<1>5. \A d \in DeviceIds : \A b : ~Absorbs(d, b)
  BY <1>1, IdleFacts DEF Absorbs
<1>6. \A b \in HonestBoxes : Pure(b) /\ Unique(b) /\ Named(b)
  BY <1>1, <1>5, IdleFacts DEF Pure, Unique, Named
<1>7. OneWriter /\ DueHeard
  BY <1>1, IdleFacts DEF OneWriter, DueHeard
<1> QED  BY <1>1, <1>2, <1>3, <1>4, <1>6, <1>7, IdleFacts DEF IInv

LEMMA IInvStep == IInv /\ [Next]_vars => IInv'
<1> SUFFICES ASSUME IInv, [Next]_vars
             PROVE  IInv'
  OBVIOUS
<1>1. ASSUME NEW r \in Runs, Abort(r)
      PROVE  IInv'
  BY <1>1, AbortGoes, AbortKeeps DEF IInv
<1>2. CASE UNCHANGED vars
  <2>1. /\ identity' = identity /\ device' = device /\ boxes' = boxes /\ run' = run
        /\ raced' = raced
    BY <1>2 DEF vars
  <2>2. TypeOK'
    BY <2>1 DEF IInv, TypeOK, RunOK
  <2>3. Claimed' /\ Fresh' /\ HitClaimed'
    BY <2>1, Rigid DEF IInv, Claimed, Fresh, HitClaimed, Sees, IdOf, NoObs
  <2>4. Hands'
    BY <2>1 DEF IInv, Hands, InHand, NoObs
  <2>5. \A d, b : Absorbs(d, b)' <=> Absorbs(d, b)
    BY <2>1 DEF Absorbs
  <2>6. \A b \in HonestBoxes' : Pure(b)' /\ (b \notin raced' => Unique(b)')
    BY <2>1, <2>5, Rigid DEF IInv, Pure, Unique
  <2>7. \A b \in HonestBoxes' : b \notin raced' => Named(b)'
    BY <2>1, Rigid DEF IInv, Named, HoldsName, IdOf, View
  <2>8. \A r \in Runs : run'[r].obs # NoObs => Lookups(r)'
    BY <2>1, Rigid DEF IInv, Lookups, Missed, View, Sees, OfType, Types
  <2>9. OneWriter' /\ DueHeard'
    BY <2>1 DEF IInv, OneWriter, DueHeard, HeardKeys
  <2> QED  BY <2>2, <2>3, <2>4, <2>6, <2>7, <2>8, <2>9 DEF IInv, NoObs
<1> QED  BY <1>1, <1>2, ObserveKeeps, LookUpKeeps, VetoKeeps, PollKeeps, ReassertKeeps,
            HearKnownKeeps, HearNewKeeps, CommitKeeps DEF Next

(* The tables and the open runs keep their shape, and no identifier is     *)
(* stored with a source that may not assert it.                            *)
THEOREM IdentityType == Spec => []TypeOK
<1>1. IInv => TypeOK
  BY DEF IInv
<1> QED  BY <1>1, IInvInit, IInvStep, PTL DEF Spec

(* The device row of an honest box is nothing else, and a box that no two  *)
(* open runs had in hand is one row only: whatever the fleet around it     *)
(* claims, in whatever order polls and frames arrive, and however the      *)
(* statements of the runs interleave.                                      *)
THEOREM HonestOneDevice == Spec => []HonestBoxIsOneDevice
<1>1. IInv => HonestBoxIsOneDevice
  <2>1. ASSUME IInv, NEW b \in HonestBoxes, NEW d \in DeviceIds, b \in boxes[d]
        PROVE  /\ boxes[d] = {b}
               /\ b \notin raced => \A e \in DeviceIds : b \in boxes[e] => e = d
    <3>1. \A e \in DeviceIds : \A c : c \in boxes[e] => Absorbs(e, c)
      BY DEF Absorbs
    <3>2. boxes[d] \subseteq Boxes
      BY <2>1 DEF IInv, TypeOK
    <3> QED  BY <2>1, <3>1, <3>2 DEF IInv, Pure, Unique
  <2> QED  BY <2>1 DEF HonestBoxIsOneDevice
<1> QED  BY <1>1, IInvInit, IInvStep, PTL DEF Spec

=============================================================================
