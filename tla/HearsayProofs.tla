---------------------------- MODULE HearsayProofs ----------------------------
(***************************************************************************)
(* A neighbour's word moves no chassis: runs that hear of devices without  *)
(* polling them leave the chassis of every known device as it was.         *)
(***************************************************************************)
EXTENDS IdentityProofs, FiniteSetTheorems

IsChassis(i) == i.type = "chassis_id"

(* A chassis belongs to one box.  Without it two runs may hear of two      *)
(* boxes with one chassis at once, both find nothing, and the second takes *)
(* the identifier from the device of the first.                            *)
OneBoxPerChassis ==
    \A b, c \in Boxes : \A i \in Ids(b) \cap Ids(c) : IsChassis(i) => b = c

----------------------------------------------------------------------------
(* The inductive invariant, beside that of IdentityProofs.                 *)

(* A run that only heard of boxes, none of them in two hands.              *)
Calm(r) ==
    (\A o \in run[r].seen : o.heard) /\ InHand(r) \cap raced = {}

(* What such a run is about to write is the chassis a known device has, or *)
(* the only chassis of a device it creates.                                *)
Refreshes(r, k) == k \in DOMAIN identity /\ identity[k] = run[r].keys[k]
Creates(r, k) ==
    /\ k \notin DOMAIN identity
    /\ device[run[r].keys[k]] = "absent"
    /\ \A l \in DOMAIN run[r].keys :
           IsChassis(l) /\ run[r].keys[l] = run[r].keys[k] => l = k

KeepsChassis(r) ==
    \A k \in DOMAIN run[r].keys : IsChassis(k) => Refreshes(r, k) \/ Creates(r, k)

(* A run that is past the lookup of the chassis, and not by a match of it, *)
(* still finds nothing with it.                                            *)
PastChassis(r) ==
    \/ run[r].step \in {"base_mac", "sysname", "veto"}
    \/ run[r].step = "write" /\ run[r].hit = NoDevice
Unfound(r) ==
    PastChassis(r) /\ run[r].obs.box \notin raced => Missed(r)

(* The chassis due for insertion is one some device holds.                 *)
DueStored(r) ==
    run[r].step = "insert" =>
        \A k \in run[r].due : IsChassis(k) => k \in DOMAIN View(r)

HInv ==
    /\ \A r \in Runs : DueStored(r)
    /\ \A r \in Runs : (Calm(r) => KeepsChassis(r)) /\ Unfound(r)

----------------------------------------------------------------------------
(* Observations.                                                           *)

LEMMA FrameFacts ==
    ASSUME NEW o \in Observations, o.heard,
           NEW i \in o.ids, NEW j \in o.ids, IsChassis(i), IsChassis(j)
    PROVE  i = j
<1>1. PICK b \in Boxes : o \in ObservationsOf(b)
  BY DEF Observations
<1>2. PICK f \in Frames[b] : o = FrameOf(b, f)
  <2>1. ASSUME NEW c \in Polls[b], o = PollOf(b, c) PROVE FALSE
    BY <2>1 DEF PollOf
  <2> QED  BY <1>1, <2>1 DEF ObservationsOf
<1>3. i \in Candidates(f) /\ j \in Candidates(f)
  BY <1>2 DEF FrameOf
<1>4. i.value = f.chassis /\ j.value = f.chassis /\ i \in Id /\ j \in Id
  BY <1>3 DEF Candidates, IsChassis
<1> QED  BY <1>4 DEF Id, IsChassis

(* No lookup by chassis finds anything exactly when no row bears it.       *)
LEMMA MissedFacts ==
    ASSUME TypeOK, NEW r \in Runs, run[r].obs.ids \in SUBSET Id
    PROVE  Missed(r) <=> \A k \in DOMAIN View(r) :
                            ~(IdOf(k) \in run[r].obs.ids /\ IsChassis(k))
<1> DEFINE ids == OfType(run[r].obs.ids, "chassis_id")
<1>1. ids \in SUBSET Id /\ DOMAIN View(r) \subseteq Key
  BY ViewShape DEF OfType, Partial
<1>2. \A k : IdOf(k) \in ids <=> IdOf(k) \in run[r].obs.ids /\ IsChassis(k)
  BY DEF OfType, IdOf, IsChassis
<1>3. /\ \A d \in Owners(View(r), ids) :
             \E k \in DOMAIN View(r) : View(r)[k] = d /\ IdOf(k) \in ids
      /\ \A k \in DOMAIN View(r) : IdOf(k) \in ids => View(r)[k] \in Owners(View(r), ids)
  <2> HIDE DEF ids
  <2> QED  BY <1>1, OwnersFacts
<1>4. Missed(r) <=> Owners(View(r), ids) = {}
  BY DEF Missed
<1> HIDE DEF ids
<1> QED  BY <1>2, <1>3, <1>4

(* A device with a committed identifier is not absent; one to which an     *)
(* open run gave an identifier is absent only if the run created it.       *)
LEMMA OwnerFacts ==
    ASSUME IInv
    PROVE  /\ \A k \in DOMAIN identity : device[identity[k]] # "absent"
           /\ \A r \in Runs : \A k \in DOMAIN run[r].keys :
                  /\ run[r].keys[k] \in DeviceIds
                  /\ device[run[r].keys[k]] # "absent"
                     \/ run[r].keys[k] \in DOMAIN run[r].rows
<1>1. ASSUME NEW k \in DOMAIN identity PROVE device[identity[k]] # "absent"
  <2>1. identity[k] \in DeviceIds
    BY DEF IInv, TypeOK, Partial
  <2>2. boxes[identity[k]] # {}
    BY DEF IInv, Claimed
  <2> QED  BY <2>1, <2>2 DEF IInv, Fresh
<1>2. ASSUME NEW r \in Runs, NEW k \in DOMAIN run[r].keys
      PROVE  /\ run[r].keys[k] \in DeviceIds
             /\ device[run[r].keys[k]] # "absent"
                \/ run[r].keys[k] \in DOMAIN run[r].rows
  <2>1. run[r].keys[k] \in DeviceIds
    BY DEF IInv, TypeOK, RunOK, Partial
  <2>2. \E a \in Boxes : <<run[r].keys[k], a>> \in run[r].took
    BY DEF IInv, Claimed
  <2> QED  BY <2>1, <2>2 DEF IInv, Fresh
<1> QED  BY <1>1, <1>2

----------------------------------------------------------------------------
(* Steps of run r that leave the tables alone.                             *)

(* The other runs are not concerned.                                       *)
LEMMA OthersKeep ==
    ASSUME HInv, NEW r \in Runs, Only(r), NEW p \in Runs \ {r}
    PROVE  (Calm(p)' => KeepsChassis(p)') /\ Unfound(p)' /\ DueStored(p)'
<1>1. /\ run'[p] = run[p] /\ identity' = identity /\ device' = device
      /\ raced \subseteq raced'
  BY DEF Only
<1>2. Calm(p)' => Calm(p)
  BY <1>1 DEF Calm, InHand
<1>3. KeepsChassis(p)' <=> KeepsChassis(p)
  BY <1>1 DEF KeepsChassis, Refreshes, Creates, IsChassis
<1>4. View(p)' = View(p)
  BY <1>1 DEF View
<1>5. Unfound(p)'
  BY <1>1, <1>4 DEF HInv, Unfound, PastChassis, Missed
<1>6. DueStored(p)'
  BY <1>1, <1>4 DEF HInv, DueStored, IsChassis
<1> QED  BY <1>2, <1>3, <1>5, <1>6 DEF HInv

(* Neither is the run itself when it writes nothing.                       *)
LEMMA QuietKeeps ==
    ASSUME HInv, NEW r \in Runs, NEW s, NEW o, NEW h, NEW seen,
           Goes(r, s, o, h, seen), run[r].seen \subseteq seen
    PROVE  /\ Calm(r)' => KeepsChassis(r)'
           /\ View(r)' = View(r)
<1>1. /\ run'[r].keys = run[r].keys /\ identity' = identity /\ device' = device
      /\ raced \subseteq raced' /\ run'[r].seen = seen
      /\ \A p \in Runs \ {r} : run'[p] = run[p]
  BY DEF Goes, Only
<1>2. Calm(r)' => Calm(r)
  BY <1>1 DEF Calm, InHand
<1>3. KeepsChassis(r)' <=> KeepsChassis(r)
  BY <1>1 DEF KeepsChassis, Refreshes, Creates, IsChassis
<1>4. View(r)' = View(r)
  BY <1>1 DEF View
<1> QED  BY <1>2, <1>3, <1>4 DEF HInv

LEMMA ObserveHears ==
    ASSUME IInv, HInv, NEW r \in Runs, Observe(r)
    PROVE  HInv'
<1>1. PICK o \in Observations :
        Goes(r, Strongest(Types(o.ids)), o, run[r].hit, run[r].seen \cup {o})
  BY ObserveGoes DEF IInv
<1>2. Types(o.ids) \subseteq IdType /\ Types(o.ids) # {} /\ o.ids \in SUBSET Id
  BY ObsFacts DEF Types, Id
<1>3. Unfound(r)'
  <2>1. run'[r].step = Strongest(Types(o.ids)) /\ run'[r].obs = o
    BY <1>1 DEF Goes
  <2>2. PastChassis(r)' => "chassis_id" \notin Types(o.ids)
    BY <1>2, <2>1 DEF PastChassis, Strongest, IdType
  <2>3. "chassis_id" \notin Types(o.ids) => OfType(o.ids, "chassis_id") = {}
    BY DEF Types, OfType
  <2>4. Owners(View(r)', {}) = {}
    BY DEF Owners
  <2> QED  BY <2>1, <2>2, <2>3, <2>4 DEF Unfound, Missed
<1>4. (Calm(r)' => KeepsChassis(r)')
  BY <1>1, QuietKeeps
<1>5. DueStored(r)'
  <2>1. run'[r].step # "insert"
    BY <1>1, <1>2 DEF Goes, Strongest, IdType
  <2> QED  BY <2>1 DEF DueStored
<1> QED  BY <1>1, <1>3, <1>4, <1>5, OthersKeep DEF HInv, Goes

LEMMA LookUpHears ==
    ASSUME IInv, HInv, NEW r \in Runs, LookUp(r)
    PROVE  HInv'
<1> DEFINE t == run[r].step
           o == run[r].obs
           found == Owners(View(r), OfType(o.ids, t))
<1>1. /\ raced' = raced /\ t \in IdType
      /\ \/ /\ found = {}
            /\ Goes(r, Strongest(Types(o.ids) \cap Weaker(t)), o, run[r].hit, run[r].seen)
         \/ \E d \in found :
               Goes(r, IF Vetoable(o, t) THEN "veto" ELSE "write", o, d, run[r].seen)
  BY LookUpGoes DEF IInv
<1>2. PICK s, h : Goes(r, s, o, h, run[r].seen)
  BY <1>1
<1>3. (Calm(r)' => KeepsChassis(r)') /\ View(r)' = View(r)
  BY <1>2, QuietKeeps
<1>4. run'[r].obs = o /\ raced' = raced
  BY <1>1, <1>2 DEF Goes
<1>5. t \in {"base_mac", "sysname"} => Unfound(r)'
  <2>1. t \in {"base_mac", "sysname"} => PastChassis(r)
    BY DEF PastChassis
  <2> QED  BY <1>3, <1>4, <2>1 DEF HInv, Unfound, Missed
<1>6. t = "chassis_id" => Unfound(r)'
  <2> SUFFICES ASSUME t = "chassis_id" PROVE Unfound(r)'
    OBVIOUS
  <2>1. CASE found = {}
    BY <1>3, <1>4, <2>1 DEF Unfound, Missed
  <2>2. ASSUME NEW d \in found,
               Goes(r, IF Vetoable(o, t) THEN "veto" ELSE "write", o, d, run[r].seen)
        PROVE  Unfound(r)'
    <3>1. run'[r].step = "write" /\ run'[r].hit = d
      BY <2>2 DEF Goes, Vetoable
    <3>2. d \in DeviceIds
      <4>1. \A k \in DOMAIN View(r) : View(r)[k] \in DeviceIds
        BY ViewShape DEF IInv, Partial
      <4> QED  BY <4>1 DEF Owners
    <3>3. d # NoDevice
      BY <3>2, FleetAssumption
    <3> QED  BY <3>1, <3>3 DEF Unfound, PastChassis
  <2> QED  BY <1>1, <2>1, <2>2
<1>7. Unfound(r)'
  BY <1>1, <1>5, <1>6 DEF IdType
<1>8. DueStored(r)'
  <2>1. run'[r].step # "insert"
    BY <1>1 DEF Goes, Strongest, IdType
  <2> QED  BY <2>1 DEF DueStored
<1> QED  BY <1>2, <1>3, <1>7, <1>8, OthersKeep DEF HInv, Goes

LEMMA VetoHears ==
    ASSUME IInv, HInv, NEW r \in Runs, Veto(r)
    PROVE  HInv'
<1>1. PICK h : Goes(r, "write", run[r].obs, h, run[r].seen)
  BY VetoGoes DEF IInv
<1>2. raced' = raced /\ run[r].step = "veto"
  BY VetoGoes DEF IInv
<1>3. (Calm(r)' => KeepsChassis(r)') /\ View(r)' = View(r)
  BY <1>1, QuietKeeps
<1>4. Unfound(r)'
  <2>1. PastChassis(r)
    BY <1>2 DEF PastChassis
  <2>2. run'[r].obs = run[r].obs
    BY <1>1 DEF Goes
  <2> QED  BY <1>2, <1>3, <2>1, <2>2 DEF HInv, Unfound, Missed
<1>5. DueStored(r)'
  BY <1>1 DEF DueStored, Goes
<1> QED  BY <1>1, <1>3, <1>4, <1>5, OthersKeep DEF HInv, Goes

(* What is due of a frame was found in the tables.                         *)
LEMMA ReassertHears ==
    ASSUME IInv, HInv, NEW r \in Runs, Reassert(r)
    PROVE  HInv'
<1>1. run[r].step = "write"
  BY DEF Reassert
<1>2. run[r].obs.ids \in SUBSET Id
  BY <1>1, AboutToWrite
<1>3. /\ Goes(r, "insert", run[r].obs, run[r].hit, run[r].seen)
      /\ run'[r].due = Reassertable(View(r), run[r].obs.ids, run[r].hit)
  BY <1>2, ReassertGoes DEF IInv
<1>4. (Calm(r)' => KeepsChassis(r)') /\ View(r)' = View(r)
  BY <1>3, QuietKeeps
<1>5. ASSUME NEW k \in run'[r].due, IsChassis(k)
      PROVE  k \in DOMAIN View(r)
  <2>1. k.type = "chassis_id" /\ k.source = "lldp" /\ k \in HeardKeys(run[r].obs.ids)
        /\ \E l \in DOMAIN View(r) : l.type = k.type /\ l.value = k.value
    BY <1>3, <1>5 DEF Reassertable, IsChassis, Owners, HeardKeys
  <2>2. PICK l \in DOMAIN View(r) : l.type = k.type /\ l.value = k.value
    BY <2>1
  <2>3. l \in Key /\ k \in Key
    BY <1>2, <2>1, HeardKeysFacts, ViewShape DEF IInv, Partial
  <2>4. l = k
    BY <2>1, <2>2, <2>3 DEF Key
  <2> QED  BY <2>4
<1>6. DueStored(r)'
  BY <1>4, <1>5 DEF DueStored, IsChassis
<1>7. Unfound(r)'
  BY <1>3 DEF Unfound, PastChassis, Goes
<1> QED  BY <1>3, <1>4, <1>6, <1>7, OthersKeep DEF HInv, Goes

(* A run that is idle has nothing to keep.                                 *)
LEMMA IdleKeeps ==
    ASSUME NEW r \in Runs, run[r] = Idle
    PROVE  KeepsChassis(r) /\ Unfound(r) /\ DueStored(r)
BY IdleFacts DEF KeepsChassis, Unfound, PastChassis, DueStored

LEMMA AbortHears ==
    ASSUME IInv, HInv, NEW r \in Runs, Abort(r)
    PROVE  HInv'
<1>1. Only(r) /\ run'[r] = Idle
  BY AbortGoes DEF IInv
<1>2. KeepsChassis(r)' /\ Unfound(r)' /\ DueStored(r)'
  BY <1>1, IdleFacts DEF KeepsChassis, Unfound, PastChassis, DueStored
<1> QED  BY <1>1, <1>2, OthersKeep DEF HInv, Only

----------------------------------------------------------------------------
(* Writes.                                                                 *)

(* A run that is done with an observation has looked nothing up; what it   *)
(* wrote before is not written again but with the same device.             *)
LEMMA WriteHears ==
    ASSUME IInv, HInv, NEW r \in Runs, NEW d, NEW K, NEW R, Writes(r, d, K, R),
           Calm(r)' => KeepsChassis(r)'
    PROVE  HInv'
<1>1. /\ Only(r) /\ run'[r].step = "open"
      /\ run'[r].keys = Overlay(run[r].keys, [k \in K |-> d])
  BY DEF Writes
<1>2. Unfound(r)' /\ DueStored(r)'
  BY <1>1 DEF Unfound, PastChassis, DueStored
<1> QED  BY <1>1, <1>2, OthersKeep DEF HInv, Only

LEMMA PollHears ==
    ASSUME IInv, HInv, NEW r \in Runs, PollKnown(r) \/ PollNew(r)
    PROVE  HInv'
<1> DEFINE K == PollKeys(run[r].obs.ids)
<1>1. PICK d, R : Writes(r, d, K, R)
  <2>1. \E d, R : Written(r, d, K, R) /\ UNCHANGED <<Tables, raced>>
    BY DEF PollKnown, PollNew
  <2> QED  BY <2>1, WrittenWrites DEF IInv
<1>2. ~Calm(r)'
  <2>1. run[r].step = "write" /\ ~run[r].obs.heard
    BY DEF PollKnown, PollNew
  <2>2. run[r].obs # NoObs
    BY <2>1 DEF IInv, TypeOK, RunOK
  <2>3. run[r].obs \in run'[r].seen
    BY <1>1, <2>2 DEF IInv, Hands, Writes
  <2> QED  BY <2>1, <2>3 DEF Calm
<1> HIDE DEF K
<1> QED  BY <1>1, <1>2, WriteHears

(* A known device is given no chassis but its own.                         *)
LEMMA HearKnownHears ==
    ASSUME IInv, HInv, NEW r \in Runs, HearKnown(r)
    PROVE  HInv'
<1> DEFINE o == run[r].obs
           K(d) == Unconflicted(View(r), run[r].due, d)
<1>1. run[r].step = "insert"
  BY DEF HearKnown
<1>2. PICK d \in DeviceIds : d = run[r].hit /\ d # NoDevice
  BY <1>1, AboutToWrite DEF IInv, DueHeard
<1>3. PICK R : Writes(r, d, K(d), R)
  <2>1. \E R : Written(r, d, K(d), R) /\ UNCHANGED <<Tables, raced>>
    BY <1>2 DEF HearKnown
  <2> QED  BY <2>1, WrittenWrites DEF IInv
<1>5. ASSUME NEW k \in K(d), IsChassis(k)
      PROVE  k \in DOMAIN View(r) /\ View(r)[k] = d
  BY <1>1, <1>5 DEF Unconflicted, HInv, DueStored
<1>6. ASSUME Calm(r)' PROVE KeepsChassis(r)'
  <2>1. Calm(r)
    BY <1>3, <1>6 DEF Calm, InHand, Writes, Only
  <2>2. KeepsChassis(r)
    BY <2>1 DEF HInv
  <2>3. /\ DOMAIN run'[r].keys = DOMAIN run[r].keys \cup K(d)
        /\ \A k \in K(d) : run'[r].keys[k] = d
        /\ \A k \in DOMAIN run[r].keys \ K(d) : run'[r].keys[k] = run[r].keys[k]
    BY <1>3 DEF Writes, Overlay
  <2>4. identity' = identity /\ device' = device
    BY <1>3 DEF Writes, Only
(* What the run had written keeps its device; what it adds is in the table.*)
  <2>5. ASSUME NEW k \in DOMAIN run[r].keys, IsChassis(k)
        PROVE  run'[r].keys[k] = run[r].keys[k]
    BY <1>5, <2>3, <2>5, ViewShape DEF IInv
  <2>6. ASSUME NEW k \in DOMAIN run'[r].keys \ DOMAIN run[r].keys, IsChassis(k)
        PROVE  k \in DOMAIN identity /\ identity[k] = d /\ run'[r].keys[k] = d
    BY <1>5, <2>3, <2>6, ViewShape DEF IInv
  <2>7. ASSUME NEW k \in DOMAIN run'[r].keys, IsChassis(k)
        PROVE  Refreshes(r, k)' \/ Creates(r, k)'
    <3>1. CASE k \notin DOMAIN run[r].keys
      BY <2>4, <2>6, <2>7, <3>1 DEF Refreshes
    <3>2. CASE k \in DOMAIN run[r].keys /\ Refreshes(r, k)
      BY <2>4, <2>5, <2>7, <3>2 DEF Refreshes
    <3>3. CASE k \in DOMAIN run[r].keys /\ Creates(r, k)
      <4>1. device[run[r].keys[k]] = "absent" /\ run'[r].keys[k] = run[r].keys[k]
        BY <2>5, <2>7, <3>3 DEF Creates
      <4>2. ASSUME NEW l \in DOMAIN run'[r].keys, IsChassis(l),
                   run'[r].keys[l] = run'[r].keys[k]
            PROVE  l = k
        <5>1. CASE l \in DOMAIN run[r].keys
          BY <2>5, <3>3, <4>1, <4>2, <5>1 DEF Creates
        <5>2. CASE l \notin DOMAIN run[r].keys
          BY <2>6, <4>1, <4>2, <5>2, OwnerFacts
        <5> QED  BY <5>1, <5>2
      <4> QED  BY <2>4, <3>3, <4>1, <4>2 DEF Creates
    <3> QED  BY <2>2, <2>7, <3>1, <3>2, <3>3 DEF KeepsChassis
  <2> QED  BY <2>7 DEF KeepsChassis, IsChassis
<1> HIDE DEF K
<1> QED  BY <1>3, <1>6, WriteHears

(* A new device takes a chassis that no row bears.                         *)
LEMMA HearNewHears ==
    ASSUME IInv, HInv, NEW r \in Runs, HearNew(r)
    PROVE  HInv'
<1> DEFINE o == run[r].obs
           K == HeardKeys(o.ids)
<1>1. run[r].step = "write" /\ run[r].hit = NoDevice /\ o.heard
  BY DEF HearNew
<1>2. PICK d \in Free : \E R : Writes(r, d, K, R)
  <2>1. \E d \in Free : \E R : Written(r, d, K, R) /\ UNCHANGED <<Tables, raced>>
    BY DEF HearNew
  <2> QED  BY <2>1, WrittenWrites DEF IInv
<1>3. PICK R : Writes(r, d, K, R)
  BY <1>2
<1>4. /\ o \in Observations /\ o.ids \in SUBSET Id
      /\ K \subseteq Key /\ \A k \in K : IdOf(k) \in o.ids
  BY <1>1, AboutToWrite, HeardKeysFacts
<1>5. \A k, l \in K : IsChassis(k) /\ IsChassis(l) => k = l
  <2> SUFFICES ASSUME NEW k \in K, NEW l \in K, IsChassis(k), IsChassis(l)
               PROVE  k = l
    OBVIOUS
  <2>1. IdOf(k) = IdOf(l)
    <3>1. IsChassis(IdOf(k)) /\ IsChassis(IdOf(l))
      BY DEF IsChassis, IdOf
    <3> HIDE DEF K, o
    <3> QED  BY <1>1, <1>4, <3>1, FrameFacts
  <2>2. k \in Key /\ l \in Key
    BY <1>4
  <2> QED  BY <2>1, <2>2 DEF IdOf, Key, IsChassis
<1>6. ASSUME Calm(r)' PROVE KeepsChassis(r)'
  <2>1. Calm(r)
    BY <1>3, <1>6 DEF Calm, InHand, Writes, Only
  <2>2. o.box \notin raced
    <3>1. o # NoObs
      BY <1>4, ObsFacts
    <3>2. o.box \in InHand(r)
      BY <3>1, ObsOK
    <3> QED  BY <2>1, <3>2 DEF Calm
  <2>3. Missed(r)
    BY <1>1, <2>2 DEF HInv, Unfound, PastChassis
  <2>4. \A k \in K : IsChassis(k) => k \notin DOMAIN View(r)
    <3> HIDE DEF K
    <3> QED  BY <1>4, <2>3, MissedFacts DEF IInv
  <2>5. /\ DOMAIN run'[r].keys = DOMAIN run[r].keys \cup K
        /\ \A k \in K : run'[r].keys[k] = d
        /\ \A k \in DOMAIN run[r].keys \ K : run'[r].keys[k] = run[r].keys[k]
        /\ identity' = identity /\ device' = device
    BY <1>3 DEF Writes, Only, Overlay
  <2>6. /\ device[d] = "absent"
        /\ \A k \in DOMAIN run[r].keys : run[r].keys[k] # d
    BY OwnerFacts DEF Free
  <2>7. \A k \in DOMAIN run[r].keys : IsChassis(k) => k \notin K
    BY <2>4, ViewShape DEF IInv
  <2>8. KeepsChassis(r)
    BY <2>1 DEF HInv
  <2> HIDE DEF K, o
  <2>9. ASSUME NEW k \in DOMAIN run'[r].keys, IsChassis(k)
        PROVE  Refreshes(r, k)' \/ Creates(r, k)'
    <3>1. CASE k \in K
      <4>1. k \notin DOMAIN identity /\ run'[r].keys[k] = d
        BY <2>4, <2>5, <2>9, <3>1, ViewShape DEF IInv
      <4>2. ASSUME NEW l \in DOMAIN run'[r].keys, IsChassis(l), run'[r].keys[l] = d
            PROVE  l = k
        BY <1>5, <2>5, <2>6, <2>7, <2>9, <3>1, <4>2
      <4> QED  BY <2>5, <2>6, <4>1, <4>2 DEF Creates
    <3>2. CASE k \notin K /\ Refreshes(r, k)
      BY <2>5, <3>2 DEF Refreshes
    <3>3. CASE k \notin K /\ Creates(r, k)
      <4>1. k \in DOMAIN run[r].keys /\ run'[r].keys[k] = run[r].keys[k]
        BY <2>5, <2>9, <3>3
      <4>2. ASSUME NEW l \in DOMAIN run'[r].keys, IsChassis(l),
                   run'[r].keys[l] = run'[r].keys[k]
            PROVE  l = k
        BY <2>5, <2>6, <3>3, <4>1, <4>2 DEF Creates
      <4> QED  BY <2>5, <3>3, <4>1, <4>2 DEF Creates
    <3> QED  BY <2>5, <2>8, <2>9, <3>1, <3>2, <3>3 DEF KeepsChassis
  <2> QED  BY <2>9 DEF KeepsChassis, IsChassis
<1> HIDE DEF K
<1> QED  BY <1>3, <1>6, WriteHears

----------------------------------------------------------------------------
(* The end of a run.                                                       *)

LEMMA CommitHears ==
    ASSUME OneBoxPerChassis, IInv, HInv, NEW r \in Runs, Commit(r)
    PROVE  HInv'
<1>1. /\ DOMAIN run' = Runs /\ run'[r] = Idle
      /\ \A p \in Runs \ {r} : run'[p] = run[p]
      /\ identity' = View(r) /\ raced' = raced
      /\ \A d \in DeviceIds : d \notin DOMAIN run[r].rows => device'[d] = device[d]
  BY CommitFacts
<1>2. /\ DOMAIN identity' = DOMAIN identity \cup DOMAIN run[r].keys
      /\ \A k \in DOMAIN identity \ DOMAIN run[r].keys : identity'[k] = identity[k]
  BY <1>1, ViewShape DEF IInv
<1>4. KeepsChassis(r)' /\ Unfound(r)' /\ DueStored(r)'
  BY <1>1, IdleFacts DEF KeepsChassis, Unfound, PastChassis, DueStored
<1>5. ASSUME NEW p \in Runs \ {r}, Calm(p)' PROVE KeepsChassis(p)'
  <2>1. KeepsChassis(p)
    BY <1>1, <1>5 DEF HInv, Calm, InHand
  <2>2. ASSUME NEW k \in DOMAIN run[p].keys, IsChassis(k)
        PROVE  Refreshes(p, k)' \/ Creates(p, k)'
    <3>1. k \notin DOMAIN run[r].keys
      BY DEF IInv, OneWriter
    <3>2. /\ k \in DOMAIN identity' <=> k \in DOMAIN identity
          /\ k \in DOMAIN identity => identity'[k] = identity[k]
      BY <1>2, <3>1
    <3>3. CASE Refreshes(p, k)
      BY <1>1, <3>2, <3>3 DEF Refreshes
    <3>4. CASE Creates(p, k)
      <4> DEFINE e == run[p].keys[k]
      <4>1. e \in DeviceIds /\ e \in DOMAIN run[p].rows
        BY <3>4, OwnerFacts DEF Creates
      <4>2. e \notin DOMAIN run[r].rows
        BY <4>1 DEF IInv, OneWriter
      <4>3. device'[e] = "absent"
        BY <1>1, <3>4, <4>1, <4>2 DEF Creates
      <4> QED  BY <1>1, <3>2, <3>4, <4>3 DEF Creates, IsChassis
    <3> QED  BY <2>1, <2>2, <3>3, <3>4 DEF KeepsChassis
  <2> QED  BY <1>1, <2>2 DEF KeepsChassis, IsChassis
(* No other run brings the chassis that a run has looked for in vain.      *)
<1>6. ASSUME NEW p \in Runs \ {r} PROVE Unfound(p)'
  <2>1. SUFFICES ASSUME PastChassis(p), run[p].obs.box \notin raced
                 PROVE  Missed(p)'
    BY <1>1 DEF Unfound, PastChassis
  <2>2. run[p].obs # NoObs
    BY <2>1 DEF PastChassis, IInv, TypeOK, RunOK
  <2>3. run[p].obs \in Observations /\ run[p].obs.box \in Boxes
        /\ run[p].obs.box \in InHand(p)
    BY <2>2, ObsOK
  <2>4. run[p].obs.ids \in SUBSET Id /\ run[p].obs.ids \subseteq Ids(run[p].obs.box)
    BY <2>3, ObsFacts
  <2>5. Missed(p)
    BY <2>1 DEF HInv, Unfound
  <2>6. \A k \in DOMAIN View(p) : ~(IdOf(k) \in run[p].obs.ids /\ IsChassis(k))
    BY <2>4, <2>5, MissedFacts DEF IInv
  <2>7. ASSUME NEW k \in DOMAIN run[r].keys, IdOf(k) \in run[p].obs.ids, IsChassis(k)
        PROVE  FALSE
    <3>1. PICK a \in Boxes : <<run[r].keys[k], a>> \in run[r].took /\ IdOf(k) \in Ids(a)
      BY DEF IInv, Claimed
    <3>2. IsChassis(IdOf(k))
      BY <2>7 DEF IsChassis, IdOf
    <3>3. a = run[p].obs.box
      BY <2>3, <2>4, <2>7, <3>1, <3>2 DEF OneBoxPerChassis
    <3>4. a \in InHand(r)
      BY <3>1, OwnerFacts DEF IInv, Hands
    <3> QED  BY <2>1, <2>3, <3>3, <3>4 DEF IInv, Hands
  <2>8. DOMAIN View(p)' \subseteq DOMAIN View(p) \cup DOMAIN run[r].keys
    BY <1>1, <1>2, ViewShape DEF View, Overlay
  <2>9. \A k \in DOMAIN View(p)' : ~(IdOf(k) \in run'[p].obs.ids /\ IsChassis(k))
    BY <1>1, <2>6, <2>7, <2>8
  <2>10. TypeOK'
    BY CommitKeeps DEF IInv
  <2>11. OfType(run[p].obs.ids, "chassis_id") \in SUBSET Id
    BY <2>4 DEF OfType
  <2>12. ASSUME NEW k \in DOMAIN View(p)',
                NEW c \in OfType(run[p].obs.ids, "chassis_id"),
                k.type = c.type, k.value = c.value
         PROVE  FALSE
    <3>1. c \in Id /\ c \in run[p].obs.ids /\ c.type = "chassis_id"
      BY <2>11 DEF OfType
    <3>2. IdOf(k) = c /\ IsChassis(k)
      BY <2>12, <3>1 DEF IdOf, Id, IsChassis
    <3> QED  BY <1>1, <2>9, <3>1, <3>2
  <2> QED  BY <1>1, <2>12 DEF Missed, Owners
<1>7. ASSUME NEW p \in Runs \ {r} PROVE DueStored(p)'
  <2>1. DOMAIN View(p) \subseteq DOMAIN View(p)'
    BY <1>1, <1>2, <1>7, ViewShape DEF IInv, View, Overlay
  <2> QED  BY <1>1, <2>1 DEF HInv, DueStored, IsChassis
<1> QED  BY <1>4, <1>5, <1>6, <1>7 DEF HInv

(* What the commit of a calm run does to the chassis of a device.          *)
LEMMA CommitCalm ==
    ASSUME IInv, HInv, NEW r \in Runs, Commit(r), Calm(r), NEW d \in DeviceIds
    PROVE  \/ ChassisOf(d)' = ChassisOf(d)
           \/ device[d] = "absent" /\ Cardinality(ChassisOf(d)') = 1
<1>1. /\ DOMAIN identity' = DOMAIN identity \cup DOMAIN run[r].keys
      /\ \A k \in DOMAIN run[r].keys : identity'[k] = run[r].keys[k]
      /\ \A k \in DOMAIN identity \ DOMAIN run[r].keys : identity'[k] = identity[k]
  <2>1. identity' = View(r)
    BY CommitFacts
  <2> QED  BY <2>1, ViewShape DEF IInv
<1>2. KeepsChassis(r)
  BY DEF HInv
<1>3. ASSUME NEW k \in DOMAIN run[r].keys, IsChassis(k), run[r].keys[k] = d, Creates(r, k)
      PROVE  device[d] = "absent" /\ Cardinality(ChassisOf(d)') = 1
  <2>1. device[d] = "absent"
    BY <1>3 DEF Creates
  <2>2. ASSUME NEW l \in DOMAIN identity', IsChassis(l), identity'[l] = d
        PROVE  l = k
    BY <1>1, <1>3, <2>1, <2>2, OwnerFacts DEF Creates
  <2>3. k \in DOMAIN identity' /\ identity'[k] = d
    BY <1>1, <1>3
  <2>4. ChassisOf(d)' = {k.value}
    BY <1>3, <2>2, <2>3 DEF ChassisOf, IsChassis
  <2> QED  BY <2>1, <2>4, FS_Singleton
<1>4. CASE \A k \in DOMAIN run[r].keys :
              IsChassis(k) /\ run[r].keys[k] = d => ~Creates(r, k)
  <2>1. ASSUME NEW k, IsChassis(k)
        PROVE  k \in DOMAIN identity' /\ identity'[k] = d
                   <=> k \in DOMAIN identity /\ identity[k] = d
    <3>1. CASE k \in DOMAIN run[r].keys
      BY <1>1, <1>2, <1>4, <2>1, <3>1 DEF KeepsChassis, Refreshes, Creates
    <3>2. CASE k \notin DOMAIN run[r].keys
      BY <1>1, <3>2
    <3> QED  BY <3>1, <3>2
  <2>2. ChassisOf(d)' = ChassisOf(d)
    BY <2>1 DEF ChassisOf, IsChassis
  <2> QED  BY <2>2
<1> QED  BY <1>3, <1>4

----------------------------------------------------------------------------
(* The theorem.                                                            *)

LEMMA HInvInit == Init => HInv
<1> SUFFICES ASSUME Init PROVE HInv
  OBVIOUS
<1>1. \A r \in Runs : run[r] = Idle
  BY DEF Init
<1> QED  BY <1>1, IdleFacts, IdleKeeps DEF HInv

LEMMA HInvStep ==
    ASSUME OneBoxPerChassis
    PROVE  IInv /\ HInv /\ [Next]_vars => HInv'
<1> SUFFICES ASSUME IInv, HInv, [Next]_vars PROVE HInv'
  OBVIOUS
<1>1. CASE UNCHANGED vars
  <2>1. identity' = identity /\ device' = device /\ run' = run /\ raced' = raced
    BY <1>1 DEF vars
  <2>2. ASSUME NEW r \in Runs
        PROVE  (Calm(r)' => KeepsChassis(r)') /\ Unfound(r)' /\ DueStored(r)'
    <3>1. (Calm(r)' <=> Calm(r)) /\ (KeepsChassis(r)' <=> KeepsChassis(r))
      BY <2>1 DEF Calm, InHand, KeepsChassis, Refreshes, Creates, IsChassis
    <3>2. View(r)' = View(r)
      BY <2>1 DEF View
    <3> QED  BY <2>1, <3>1, <3>2 DEF HInv, Unfound, PastChassis, Missed, DueStored, IsChassis
  <2> QED  BY <2>2 DEF HInv
<1> QED  BY <1>1, ObserveHears, LookUpHears, VetoHears, PollHears, ReassertHears,
            HearKnownHears, HearNewHears, CommitHears, AbortHears DEF Next

(* Where a chassis belongs to one box, a run that only heard of boxes, and *)
(* had none in hand together with another run, leaves the chassis of every *)
(* known device as they were, and gives one it creates one at most         *)
(* (HearsayMovesNoChassis): whatever names and addresses boxes share.      *)
THEOREM HearsayIsHarmless ==
    ASSUME OneBoxPerChassis
    PROVE  Spec => HearsayMovesNoChassis
<1>1. IInv /\ HInv /\ [Next]_vars => HInv'
  BY HInvStep
<1>2. IInv /\ HInv /\ [Next]_vars =>
        [\A r \in Runs :
          Commit(r) /\ (\A o \in run[r].seen : o.heard) /\ InHand(r) \cap raced = {} =>
              \A d \in DeviceIds :
                  \/ ChassisOf(d)' = ChassisOf(d)
                  \/ device[d] = "absent" /\ Cardinality(ChassisOf(d)') = 1]_vars
  BY CommitCalm DEF Calm
<1> QED  BY <1>1, <1>2, HInvInit, IInvInit, IInvStep, PTL DEF Spec, HearsayMovesNoChassis

=============================================================================
