------------------------------ MODULE Identity ------------------------------
(***************************************************************************)
(* Entity resolution: which device row an observation belongs to.  A poll  *)
(* goes through resolve_device (collector/store.py), a neighbour's         *)
(* advertisement through resolve_peer_device (collector/topology.py); both *)
(* look identifiers up in the table device_identity and then write it.     *)
(* Runs are transactions of several observations each, and the steps of    *)
(* runs that are open together interleave (READ COMMITTED): the SELECTs    *)
(* for one type of identifier, the veto, the SELECTs of a re-assertion,    *)
(* the writes.  A write waits for a run that has written the same row.     *)
(* The writes of one observation are one step: each is decided without a   *)
(* look at the others, their rows are locked to the end of the run and     *)
(* seen by nobody before it, so that what another run does between two of  *)
(* them it may as well do before the first.                                *)
(*                                                                         *)
(* The boxes are the real hardware, which the program never sees: the      *)
(* variable boxes remembers, for each device row, what was taken for it.   *)
(* mgmt_ip is left out: it is stored and never resolves (RESOLVING_TYPES). *)
(***************************************************************************)
EXTENDS Naturals, FiniteSets

CONSTANTS
    Boxes,         \* real devices
    NoBox,
    Values,        \* sysNames and MAC addresses
    NoValue,       \* NULL
    GenericNames,  \* GENERIC_SYSNAMES: names of a product line
    Polls,         \* per box: the claim sets a poll of it may yield
    Frames,        \* per box: the LLDP frames it may send
    DeviceIds,     \* device ids: the bound on the number of device rows
    NoDevice,
    Runs,          \* transactions that can be open at the same time
    MaxSeen        \* bound on the observations of a run

IdType == {"chassis_id", "base_mac", "sysname"}
Id == [type : IdType, value : Values]
Frame == [chassis : Values \cup {NoValue}, name : Values \cup {NoValue}]
(* A chassis is announced; a port's address is inferred, never announced.  *)
Key ==
    {k \in [type : IdType, value : Values, source : {"inferred", "lldp"}] :
        /\ k.type = "chassis_id" => k.source = "lldp"
        /\ k.type = "base_mac" => k.source = "inferred"}

ASSUME FleetAssumption ==
    /\ Polls \in [Boxes -> SUBSET SUBSET Id]
    /\ Frames \in [Boxes -> SUBSET Frame]
    /\ NoBox \notin Boxes /\ NoValue \notin Values /\ NoDevice \notin DeviceIds

VARIABLES
    identity,   \* device_identity: the device of each (type, value, source)
    device,     \* the state of each device row
    boxes,      \* per device row, the boxes whose observations it absorbed
    run,        \* the open transactions
    raced       \* boxes that two open runs had in hand at once

vars == <<identity, device, boxes, run, raced>>

----------------------------------------------------------------------------
(* Observations.                                                           *)

(* A generic name is no claim.                                             *)
Usable(claims) ==
    {c \in claims : ~(c.type = "sysname" /\ c.value \in GenericNames)}

(* What a frame claims: the chassis, the same address as a port's, the     *)
(* name.                                                                   *)
Candidates(f) ==
    {id \in Id :
        \/ id.type \in {"chassis_id", "base_mac"} /\ id.value = f.chassis
        \/ /\ id.type = "sysname" /\ id.value = f.name
           /\ id.value \notin GenericNames}

PollOf(b, c) == [box |-> b, heard |-> FALSE, ids |-> Usable(c)]
FrameOf(b, f) == [box |-> b, heard |-> TRUE, ids |-> Candidates(f)]

(* An observation without a usable claim is not resolved.                  *)
ObservationsOf(b) ==
    {o \in {PollOf(b, c) : c \in Polls[b]} \cup {FrameOf(b, f) : f \in Frames[b]} :
        o.ids # {}}
Observations == UNION {ObservationsOf(b) : b \in Boxes}
NoObs == [box |-> NoBox, heard |-> FALSE, ids |-> {}]

----------------------------------------------------------------------------
(* Runs.                                                                   *)

(* A run at "open" is between two observations; else it is about to look   *)
(* identifiers of that type up, to check the veto, to write, or to insert  *)
(* what is due of a frame.                                                 *)
Step == {"idle", "open", "veto", "write", "insert"} \cup IdType

Idle == [step |-> "idle", obs |-> NoObs, hit |-> NoDevice, due |-> {},
         keys |-> [k \in {} |-> k], rows |-> [d \in {} |-> d], took |-> {}, seen |-> {}]

InHand(r) == {o.box : o \in run[r].seen}

(* What a statement of run r sees.                                         *)
Overlay(table, mine) ==
    [k \in DOMAIN table \cup DOMAIN mine |->
        IF k \in DOMAIN mine THEN mine[k] ELSE table[k]]
View(r) == Overlay(identity, run[r].keys)

Owners(table, ids) ==
    {table[k] : k \in {l \in DOMAIN table :
                          \E id \in ids : l.type = id.type /\ l.value = id.value}}
Holds(table, d, t) == \E k \in DOMAIN table : k.type = t /\ table[k] = d

OfType(ids, t) == {id \in ids : id.type = t}
Types(ids) == {id.type : id \in ids}

(* IDENTITY_PRECEDENCE: the strongest of some types is looked up first.    *)
Strongest(types) ==
    IF "chassis_id" \in types THEN "chassis_id"
    ELSE IF "base_mac" \in types THEN "base_mac"
    ELSE IF "sysname" \in types THEN "sysname" ELSE "write"
Weaker(t) ==
    CASE t = "chassis_id" -> {"base_mac", "sysname"}
      [] t = "base_mac" -> {"sysname"}
      [] OTHER -> {}

Free == {d \in DeviceIds : device[d] = "absent" /\ \A r \in Runs : d \notin DOMAIN run[r].rows}

(* The row locks: keys and device rows another run has written.            *)
Locked(r, keys, rows) ==
    \E p \in Runs \ {r} :
        keys \cap DOMAIN run[p].keys # {} \/ rows \cap DOMAIN run[p].rows # {}

----------------------------------------------------------------------------
(* What is written.                                                        *)

Source(t) == IF t = "chassis_id" THEN "lldp" ELSE "inferred"

PollKeys(ids) ==
    {[type |-> c.type, value |-> c.value, source |-> Source(c.type)] : c \in ids}

(* An operator named F_... is a wrong variant of the operator it precedes; *)
(* no specification uses it.                                               *)

(* F: the guess that a chassis is also a port's address is asserted too.   *)
F_HeardKeys(ids) == {[type |-> c.type, value |-> c.value, source |-> "lldp"] : c \in ids}

(* What a frame may assert.                                                *)
HeardKeys(ids) ==
    {[type |-> c.type, value |-> c.value, source |-> "lldp"] :
         c \in {i \in ids : i.type # "base_mac"}}

(* F: every candidate is asserted, held or not.                            *)
F_Reassertable(table, ids, d) == {k \in HeardKeys(ids) : d \in DeviceIds}

(* The SELECTs of _reassert_peer_identity: a frame may refresh what the    *)
(* device it hit holds, or give it a name when it holds none.              *)
Reassertable(table, ids, d) ==
    {k \in HeardKeys(ids) :
        d \in Owners(table, {k}) \/ (k.type = "sysname" /\ ~Holds(table, d, "sysname"))}

(* Its INSERT leaves a row that belongs to another device alone.           *)
Unconflicted(table, keys, d) == {k \in keys : k \in DOMAIN table => table[k] = d}

(* Run r writes keys and rows for device d, and its observation is done.   *)
Written(r, d, keys, rows) ==
    LET q == run[r]
    IN  run' = [run EXCEPT ![r] =
                   [q EXCEPT !.step = "open", !.obs = NoObs, !.hit = NoDevice,
                             !.due = {}, !.keys = Overlay(q.keys, [k \in keys |-> d]),
                             !.rows = Overlay(q.rows, rows),
                             !.took = q.took \cup {<<d, q.obs.box>>}]]

----------------------------------------------------------------------------
(* Actions.                                                                *)

Init ==
    /\ identity = [k \in {} |-> k]
    /\ device = [d \in DeviceIds |-> "absent"]
    /\ boxes = [d \in DeviceIds |-> {}]
    /\ run = [r \in Runs |-> Idle]
    /\ raced = {}

Tables == <<identity, device, boxes>>

(* The next observation of a run; the first one opens it.                  *)
Observe(r) ==
    /\ run[r].step \in {"idle", "open"}
    /\ Cardinality(run[r].seen) < MaxSeen
    /\ \E o \in Observations \ run[r].seen :
           /\ run' = [run EXCEPT ![r].step = Strongest(Types(o.ids)), ![r].obs = o,
                                 ![r].seen = @ \cup {o}]
           /\ raced' = raced \cup {b \in {o.box} : \E p \in Runs \ {r} : b \in InHand(p)}
    /\ UNCHANGED Tables

(* A frame whose chassis nobody stores, found by its name alone.           *)
Vetoable(o, t) == o.heard /\ t = "sysname" /\ "chassis_id" \in Types(o.ids)

(* The SELECTs for the identifiers of one type.  The first type that       *)
(* matches decides; which of several devices it is depends on the order of *)
(* the rows.                                                               *)
LookUp(r) ==
    LET o == run[r].obs
        t == run[r].step
        found == Owners(View(r), OfType(o.ids, t))
    IN  /\ t \in IdType
        /\ \/ /\ found = {}
              /\ run' = [run EXCEPT ![r].step = Strongest(Types(o.ids) \cap Weaker(t))]
           \/ \E d \in found :
                 run' = [run EXCEPT ![r].hit = d,
                             ![r].step = IF Vetoable(o, t) THEN "veto" ELSE "write"]
        /\ UNCHANGED <<Tables, raced>>

(* F: the known device's chassis, or lack of one, is set aside.            *)
F_Contradicts(r, d) == d \in DeviceIds

(* The device stores a chassis of its own.                                 *)
Contradicts(r, d) == Holds(View(r), d, "chassis_id")

(* The veto: a device that stores another chassis is not the one.          *)
Veto(r) ==
    /\ run[r].step = "veto"
    /\ run' = [run EXCEPT ![r].step = "write",
                   ![r].hit = IF Contradicts(r, @) THEN NoDevice ELSE @]
    /\ UNCHANGED <<Tables, raced>>

(* resolve_device: the claims match a device, which is updated and takes   *)
(* all of them, the ones that belonged to another device included.         *)
PollKnown(r) ==
    LET o == run[r].obs
        d == run[r].hit
    IN  /\ run[r].step = "write" /\ ~o.heard /\ d # NoDevice
        /\ ~Locked(r, PollKeys(o.ids), {d})
        /\ Written(r, d, PollKeys(o.ids), [e \in {d} |-> "active"])
        /\ UNCHANGED <<Tables, raced>>

(* resolve_device: the claims match nothing, a device is created.          *)
PollNew(r) ==
    LET o == run[r].obs
    IN  /\ run[r].step = "write" /\ ~o.heard /\ run[r].hit = NoDevice
        /\ ~Locked(r, PollKeys(o.ids), {})
        /\ \E d \in Free : Written(r, d, PollKeys(o.ids), [e \in {d} |-> "active"])
        /\ UNCHANGED <<Tables, raced>>

(* resolve_peer_device: the frame belongs to a device already known.  What *)
(* it may refresh there is looked up, and then inserted.                   *)
Reassert(r) ==
    LET o == run[r].obs
        d == run[r].hit
    IN  /\ run[r].step = "write" /\ o.heard /\ d # NoDevice
        /\ run' = [run EXCEPT ![r].step = "insert",
                              ![r].due = Reassertable(View(r), o.ids, d)]
        /\ UNCHANGED <<Tables, raced>>

HearKnown(r) ==
    LET d == run[r].hit
        due == run[r].due
    IN  /\ run[r].step = "insert"
        /\ ~Locked(r, due, {})
        /\ Written(r, d, Unconflicted(View(r), due, d), [e \in {} |-> e])
        /\ UNCHANGED <<Tables, raced>>

(* resolve_peer_device: nothing matches, or the match is vetoed.  A        *)
(* placeholder is created, and takes the identifiers of the frame.         *)
HearNew(r) ==
    LET o == run[r].obs
    IN  /\ run[r].step = "write" /\ o.heard /\ run[r].hit = NoDevice
        /\ ~Locked(r, HeardKeys(o.ids), {})
        /\ \E d \in Free : Written(r, d, HeardKeys(o.ids), [e \in {d} |-> "unpolled"])
        /\ UNCHANGED <<Tables, raced>>

(* conn.commit().                                                          *)
Commit(r) ==
    /\ run[r].step = "open"
    /\ identity' = View(r)
    /\ device' = Overlay(device, run[r].rows)
    /\ boxes' = [d \in DeviceIds |-> boxes[d] \cup {b \in Boxes : <<d, b>> \in run[r].took}]
    /\ run' = [run EXCEPT ![r] = Idle]
    /\ UNCHANGED raced

(* Anything else ends the run: a later phase of it raises, the server      *)
(* restarts, it is the victim of a deadlock.                               *)
Abort(r) ==
    /\ run[r].step # "idle"
    /\ run' = [run EXCEPT ![r] = Idle]
    /\ UNCHANGED <<Tables, raced>>

Next ==
    \/ \E r \in Runs : Observe(r)
    \/ \E r \in Runs : LookUp(r)
    \/ \E r \in Runs : Veto(r)
    \/ \E r \in Runs : PollKnown(r)
    \/ \E r \in Runs : PollNew(r)
    \/ \E r \in Runs : Reassert(r)
    \/ \E r \in Runs : HearKnown(r)
    \/ \E r \in Runs : HearNew(r)
    \/ \E r \in Runs : Commit(r)
    \/ \E r \in Runs : Abort(r)

Spec == Init /\ [][Next]_vars

----------------------------------------------------------------------------
(* Properties.                                                             *)

Partial(f, D, S) == DOMAIN f \subseteq D /\ f \in [DOMAIN f -> S]

RunOK(q) ==
    /\ DOMAIN q = {"step", "obs", "hit", "due", "keys", "rows", "took", "seen"}
    /\ q.step \in Step
    /\ q.obs \in Observations \cup {NoObs}
    /\ q.obs = NoObs <=> q.step \in {"idle", "open"}
    /\ q.hit \in DeviceIds \cup {NoDevice}
    /\ q.due \subseteq Key
    /\ Partial(q.keys, Key, DeviceIds)
    /\ Partial(q.rows, DeviceIds, {"unpolled", "active"})
    /\ q.took \subseteq DeviceIds \X Boxes
    /\ q.seen \subseteq Observations

(* Types; each kind of identifier is stored with the sources that may      *)
(* assert it.                                                              *)
TypeOK ==
    /\ Partial(identity, Key, DeviceIds)
    /\ device \in [DeviceIds -> {"absent", "unpolled", "active"}]
    /\ boxes \in [DeviceIds -> SUBSET Boxes]
    /\ DOMAIN run = Runs /\ \A r \in Runs : RunOK(run[r])
    /\ raced \subseteq Boxes

(* What the observations of a box look up or store.                        *)
Ids(b) == UNION {o.ids : o \in ObservationsOf(b)}

(* An honest box shares no identifier with another one, has one chassis at *)
(* most, and gives one name in every poll and every frame.                 *)
Honest(b) ==
    /\ \A c \in Boxes \ {b} : Ids(b) \cap Ids(c) = {}
    /\ \A i, j \in Ids(b) : i.type = "chassis_id" /\ j.type = "chassis_id" => i = j
    /\ \E n \in Values \ GenericNames :
           /\ \A c \in Polls[b] : [type |-> "sysname", value |-> n] \in c
           /\ \A f \in Frames[b] : f.name = n

HonestBoxes == {b \in Boxes : Honest(b)}

(* The device row of an honest box is nothing else, in whatever order it   *)
(* is polled and heard of, by however many runs at once, and whatever the  *)
(* other boxes claim: "two unrelated devices silently become one"          *)
(* (store.py, 32) does not happen to it.  The opposite, one box that is    *)
(* two rows, happens only to boxes that two open runs had in hand.         *)
HonestBoxIsOneDevice ==
    \A b \in HonestBoxes, d \in DeviceIds : b \in boxes[d] =>
        /\ boxes[d] = {b}
        /\ b \notin raced => \A e \in DeviceIds : b \in boxes[e] => e = d

(* A neighbour's word is not enough to give a device a second chassis, nor *)
(* to move one from a device to another ("It never adds a chassis_id ...   *)
(* A row owned by another device is left alone", topology.py, 66-76): not  *)
(* unless an open run had the box in hand at the same time.                *)
ChassisOf(d) == {k.value : k \in {l \in DOMAIN identity :
                                      l.type = "chassis_id" /\ identity[l] = d}}

HearsayMovesNoChassis ==
    [][\A r \in Runs :
          Commit(r) /\ (\A o \in run[r].seen : o.heard) /\ InHand(r) \cap raced = {} =>
              \A d \in DeviceIds :
                  \/ ChassisOf(d)' = ChassisOf(d)
                  \/ device[d] = "absent" /\ Cardinality(ChassisOf(d)') = 1]_vars

(* Two chassis on one device row mean "two boxes were collapsed into one"  *)
(* (scripts/check_identity.py, 53-54); identity-design.md requires that an *)
(* unmatched chassis veto a weaker match.                                  *)
OneChassisPerDevice ==
    \A d \in DeviceIds : Cardinality(ChassisOf(d)) <= 1

============================================================================
