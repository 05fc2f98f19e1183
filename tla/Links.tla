------------------------------- MODULE Links -------------------------------
(***************************************************************************)
(* The link table of the inventory: how one discovery run turns adjacency  *)
(* observations (LLDP, or the forwarding database) into link rows and      *)
(* evidence, and how the rollup at its end scores or retires every row     *)
(* (collector/topology.py, called by server/ingest.py in one transaction). *)
(*                                                                         *)
(* link_id is abstracted away: link_pair_unique (migrations/002) makes     *)
(* (device_a, device_b, endpoint_a, endpoint_b) a key, NULL endpoints      *)
(* included, so the table is a function from keys to rows and the evidence *)
(* of a row, keyed by (source, reporter), is part of the row.              *)
(***************************************************************************)
EXTENDS Integers, FiniteSets, FiniteSetsExt

CONSTANTS
    Devices,         \* device ids, ordered: "<" stands for the order of UUIDs
    Interfaces,      \* interface ids
    Owner,           \* the device of each interface
    NoIf,            \* NULL: no interface
    Sources,         \* the sources that assert a link: "lldp", "mac_table"
    SourceBase,      \* prior of a source, in percent
    AgreementBonus,  \* what each further confirmation adds, in percent
    AutoCeiling,     \* what no automatic source goes beyond, in percent
    Window,          \* freshness window of link_evidence_fresh, in ticks
    Cables,          \* adjacencies: sets of two interfaces frames cross
    Faces,           \* the rows that may own the MAC addresses of a port
    Movable,         \* the sights that may come and go
    Detailed,        \* devices whose reports may name their port
    Portless,        \* devices whose reports may lack a port (RouterOS)
    Learners         \* devices whose forwarding database infers a neighbour

ASSUME DevicesAssumption == Devices \subseteq Nat /\ IsFiniteSet(Devices)
ASSUME InterfaceAssumption ==
    Owner \in [Interfaces -> Devices] /\ NoIf \notin Interfaces
ASSUME SourceAssumption ==
    /\ IsFiniteSet(Sources)
    /\ {"lldp", "mac_table"} \subseteq Sources
    /\ SourceBase \in [Sources -> 0..100]
(* No single source reaches the confidence suppression asks for: "manual"  *)
(* would, and nothing in the program writes it.                            *)
ASSUME PriorAssumption == \A s \in Sources : SourceBase[s] < 70
ASSUME ScoreAssumption == AgreementBonus \in Nat /\ AutoCeiling \in 0..100
ASSUME WindowAssumption == Window \in Nat \ {0}
(* A MAC address learned behind a port belongs to a row of the device that *)
(* port is on: the port, a VLAN, bridge or management interface, or to     *)
(* none of its rows (NoIf: an address of the chassis, or several rows).    *)
ASSUME FaceAssumption ==
    \A i \in Interfaces :
        Faces[i] \subseteq {j \in Interfaces : Owner[j] = Owner[i]} \cup {NoIf}

(* What one device may see of one adjacency, by one protocol.              *)
SourcesOf(d) == {"lldp"} \cup (IF d \in Learners THEN {"mac_table"} ELSE {})
Sights ==
    {x \in Sources \X Interfaces \X Interfaces :
        /\ x[1] \in SourcesOf(Owner[x[2]])
        /\ x[2] # x[3] /\ {x[2], x[3]} \in Cables}

ASSUME MovableAssumption == Movable \subseteq Sights

VARIABLES
    seen,       \* the sights a run may store (the network, not the program)
    link,       \* the link table as the open transaction sees it
    committed,  \* the link table every reader sees
    tx,         \* is a run's transaction open?
    doubted     \* pairs of devices once reported by other ports, or retired:
                \* a history variable, which no action reads

vars == <<seen, link, committed, tx, doubted>>

----------------------------------------------------------------------------
(* Rows.                                                                   *)

Endpoint == Interfaces \cup {NoIf}
Key == [a : Devices, b : Devices, ea : Endpoint, eb : Endpoint]
Confirmation == Sources \X Devices
(* The age of a piece of evidence, in ticks: Window stands for any age     *)
(* beyond it, Never for a confirmation that was never given.               *)
Never == Window + 1
Row == [state : {"active", "stale"}, conf : 0..100,
        ev : [Confirmation -> 0..Never]]
IsTable(t) == DOMAIN t \subseteq Key /\ \A k \in DOMAIN t : t[k] \in Row
EmptyTable == [k \in {} |-> k]

(* A link is of interface fidelity when both endpoints are known, and the  *)
(* constraint link_fidelity_consistent refuses a half-populated one.       *)
InterfaceLevel(k) == k.ea # NoIf /\ k.eb # NoIf
DeviceLevel(k) == k.ea = NoIf /\ k.eb = NoIf
Admissible(k) == k.a < k.b /\ (InterfaceLevel(k) \/ DeviceLevel(k))
SamePair(k, l) == k.a = l.a /\ k.b = l.b
Pair(k) == <<k.a, k.b>>

(* The rows of link_evidence of a link, and those link_evidence_fresh      *)
(* selects.                                                                *)
Evidence(row) == {c \in Confirmation : row.ev[c] # Never}
FreshEvidence(row) == {c \in Confirmation : row.ev[c] < Window}

(* link_suppressible: the rows alert suppression may rest on.              *)
Suppressible(k, row) ==
    InterfaceLevel(k) /\ row.state = "active" /\ row.conf >= 70

----------------------------------------------------------------------------
(* Observations, as build_links and build_links_from_fdb hand them to      *)
(* upsert_link: who saw whom, on which local port and which remote port.   *)
(*                                                                         *)
(* A sight in `seen` stands in the neighbour table or the forwarding       *)
(* database of a device, or in a poll of them that no run has stored yet.  *)
(* It may outlive its cable (the LLDP hold time, MAC ageing, a late run),  *)
(* be missing while the cable is there (a port with more than one known    *)
(* device behind it is no leaf), or show two ports no cable joins (a       *)
(* bridge that floods LLDP).                                               *)

(* LLDP names a port by name on both sides; either name may be unknown.    *)
NamedPorts(d, e, f) ==
    (IF d \in Detailed THEN {<<e, f>>} ELSE {})
    \cup (IF d \in Portless THEN {<<e, NoIf>>, <<NoIf, f>>} ELSE {})

(* The forwarding database names the local port by ifIndex, and the peer's *)
(* by whichever interface row owns the addresses learned there.            *)
LearnedPorts(d, e, f) ==
    ((IF d \in Detailed THEN {e} ELSE {})
     \cup (IF d \in Portless THEN {NoIf} ELSE {})) \X Faces[f]

PortsSeen(s, e, f) ==
    IF s = "lldp" THEN NamedPorts(Owner[e], e, f)
                  ELSE LearnedPorts(Owner[e], e, f)

(* A device that hears itself (a reflected frame) is skipped.              *)
ReportsOf(s, e, f) ==
    IF Owner[e] = Owner[f] THEN {} ELSE
    {[reporter |-> Owner[e], peer |-> Owner[f],
      rif |-> p[1], pif |-> p[2], source |-> s] : p \in PortsSeen(s, e, f)}

ReportsIn(sights) == UNION {ReportsOf(x[1], x[2], x[3]) : x \in sights}
Reports == ReportsIn(seen)

----------------------------------------------------------------------------
(* upsert_link and record_evidence, one statement at a time.               *)

(* Faults.  An operator named F_... is a wrong variant of the operator it  *)
(* precedes; no specification uses it.  Putting one in the place of its    *)
(* original must break a property: that shows the property can fail.       *)

(* F: the devices are put in order and their interfaces are not.           *)
F_LinkKeyNoSwap(r) ==
    LET known == r.rif # NoIf /\ r.pif # NoIf
    IN  [a |-> Min({r.reporter, r.peer}), b |-> Max({r.reporter, r.peer}),
         ea |-> IF known THEN r.rif ELSE NoIf,
         eb |-> IF known THEN r.pif ELSE NoIf]

(* The canonical order: smaller device first, its interface with it.  A    *)
(* report that lacks either port keeps neither.                            *)
LinkKey(r) ==
    LET known == r.rif # NoIf /\ r.pif # NoIf
        i == IF known THEN r.rif ELSE NoIf
        j == IF known THEN r.pif ELSE NoIf
    IN  IF r.reporter > r.peer
        THEN [a |-> r.peer, b |-> r.reporter, ea |-> j, eb |-> i]
        ELSE [a |-> r.reporter, b |-> r.peer, ea |-> i, eb |-> j]

Bare(k) == [k EXCEPT !.ea = NoIf, !.eb = NoIf]

(* F: a portless report never looks for the cable it may confirm.          *)
F_KnownCables(k) == {l \in {k} : FALSE}

(* The active interface-level rows of the pair of k.                       *)
KnownCables(k) ==
    {l \in DOMAIN link : /\ SamePair(k, l)
                         /\ InterfaceLevel(l)
                         /\ link[l].state = "active"}

NewRow ==
    [state |-> "active", conf |-> 50, ev |-> [c \in Confirmation |-> Never]]

(* The row a report confirms: active again, its evidence refreshed.        *)
Confirmed(row, r) ==
    [row EXCEPT !.state = "active", !.ev[<<r.source, r.reporter>>] = 0]

(* F: the interface-level row replaces the device-level one.               *)
F_Moved(k, l, r) ==
    [m \in (DOMAIN link \ {k}) \cup {l} |->
        IF m = l THEN Confirmed(NewRow, r) ELSE link[m]]

(* UPDATE ... WHERE link_id = ...: the row under key k continues under key *)
(* l, and nothing else changes.                                            *)
Moved(k, l, r) ==
    [m \in (DOMAIN link \ {k}) \cup {l} |->
        IF m = l THEN Confirmed(link[k], r) ELSE link[m]]

(* F: the evidence is recorded for every link of the pair.                 *)
F_Stored(k, r) ==
    [m \in DOMAIN link \cup {k} |->
        IF ~SamePair(m, k) THEN link[m]
        ELSE Confirmed(IF m \in DOMAIN link THEN link[m] ELSE NewRow, r)]

(* INSERT ... ON CONFLICT DO UPDATE.                                       *)
Stored(k, r) ==
    [m \in DOMAIN link \cup {k} |->
        IF m # k THEN link[m]
        ELSE Confirmed(IF k \in DOMAIN link THEN link[k] ELSE NewRow, r)]

----------------------------------------------------------------------------
(* rollup_confidence.                                                      *)

(* F: nothing bounds the agreement.                                        *)
F_ScoreUncapped(confirmations) ==
    Max({SourceBase[c[1]] : c \in confirmations})
        + AgreementBonus * (Cardinality(confirmations) - 1)

Score(confirmations) ==
    Min({AutoCeiling,
         Max({SourceBase[c[1]] : c \in confirmations})
             + AgreementBonus * (Cardinality(confirmations) - 1)})

(* F: a link without fresh evidence is passed over.                        *)
F_RolledUp(row) ==
    IF FreshEvidence(row) = {} THEN row
    ELSE [row EXCEPT !.state = "active", !.conf = Score(FreshEvidence(row))]

(* F: evidence of any age counts towards the score.                        *)
F_RolledUpExpired(row) ==
    IF FreshEvidence(row) = {}
    THEN [row EXCEPT !.state = "stale"]
    ELSE [row EXCEPT !.state = "active", !.conf = Score(Evidence(row))]

RolledUp(row) ==
    IF FreshEvidence(row) = {}
    THEN [row EXCEPT !.state = "stale"]
    ELSE [row EXCEPT !.state = "active", !.conf = Score(FreshEvidence(row))]

Rollup(table) == [k \in DOMAIN table |-> RolledUp(table[k])]

----------------------------------------------------------------------------
(* Actions.                                                                *)

Init ==
    /\ seen = Sights
    /\ link = EmptyTable
    /\ committed = EmptyTable
    /\ tx = "idle"
    /\ doubted = {}

BeginRun ==
    /\ tx = "idle"
    /\ tx' = "open"
    /\ UNCHANGED <<seen, link, committed, doubted>>

(* The pair of a report that names other ports than a row of it does.      *)
Contradicted(k) ==
    {Pair(l) : l \in {m \in DOMAIN link :
                          /\ SamePair(m, k) /\ m # k
                          /\ InterfaceLevel(m) /\ InterfaceLevel(k)}}

(* An interface-level report of a pair that has a device-level row: the    *)
(* row is rewritten to name the ports.                                     *)
Upgrade(r) ==
    LET k == LinkKey(r)
    IN  /\ tx = "open"
        /\ InterfaceLevel(k)
        /\ Bare(k) \in DOMAIN link
        /\ k \notin DOMAIN link
        /\ link' = Moved(Bare(k), k, r)
        /\ doubted' = doubted \cup Contradicted(k)
        /\ UNCHANGED <<seen, committed, tx>>

(* The constraints of the table refuse the statement: the rewrite of the   *)
(* device-level row meets a row that already names these ports, or the row *)
(* is inadmissible.  The exception leaves process_run, the transaction is  *)
(* rolled back and the collector is answered 500.                          *)
Refused(r) ==
    LET k == LinkKey(r)
    IN  \/ InterfaceLevel(k) /\ {k, Bare(k)} \subseteq DOMAIN link
        \/ ~Admissible(k)

Refuse(r) ==
    /\ tx = "open"
    /\ Refused(r)
    /\ link' = committed
    /\ tx' = "idle"
    /\ UNCHANGED <<seen, committed, doubted>>

(* A portless report of a pair with exactly one known cable confirms it.   *)
Attach(r) ==
    LET k == LinkKey(r)
    IN  /\ tx = "open"
        /\ DeviceLevel(k)
        /\ Cardinality(KnownCables(k)) = 1
        /\ link' = Moved(CHOOSE l \in KnownCables(k) : TRUE,
                         CHOOSE l \in KnownCables(k) : TRUE, r)
        /\ UNCHANGED <<seen, committed, tx, doubted>>

(* Every other report inserts its row, or refreshes the one it names.      *)
Insert(r) ==
    LET k == LinkKey(r)
    IN  /\ tx = "open"
        /\ Admissible(k)
        /\ \/ InterfaceLevel(k) /\ Bare(k) \notin DOMAIN link
           \/ DeviceLevel(k) /\ Cardinality(KnownCables(k)) # 1
        /\ link' = Stored(k, r)
        /\ doubted' = doubted \cup Contradicted(k)
        /\ UNCHANGED <<seen, committed, tx>>

(* The server or the database stops while a run is open: nothing of it is  *)
(* kept, and the collector is told nothing.                                *)
Abort ==
    /\ tx = "open"
    /\ link' = committed
    /\ tx' = "idle"
    /\ UNCHANGED <<seen, committed, doubted>>

FinishRun ==
    /\ tx = "open"
    /\ link' = Rollup(link)
    /\ committed' = link'
    /\ tx' = "idle"
    /\ doubted' = doubted \cup
          {Pair(k) : k \in {l \in DOMAIN link :
                                InterfaceLevel(l) /\ FreshEvidence(link[l]) = {}}}
    /\ UNCHANGED seen

(* Time.  Every now() of a transaction is its start, so a run takes no     *)
(* time here.                                                              *)
Older(row) ==
    [row EXCEPT !.ev = [c \in Confirmation |->
                           IF row.ev[c] < Window THEN row.ev[c] + 1
                           ELSE row.ev[c]]]

Tick ==
    /\ tx = "idle"
    /\ committed' = [k \in DOMAIN committed |-> Older(committed[k])]
    /\ link' = committed'
    /\ UNCHANGED <<seen, tx, doubted>>

Vanish(x) ==
    /\ x \in seen
    /\ seen' = seen \ {x}
    /\ UNCHANGED <<link, committed, tx, doubted>>

Appear(x) ==
    /\ x \notin seen
    /\ seen' = seen \cup {x}
    /\ UNCHANGED <<link, committed, tx, doubted>>

Next ==
    \/ BeginRun
    \/ \E r \in Reports : Upgrade(r)
    \/ \E r \in Reports : Refuse(r)
    \/ \E r \in Reports : Attach(r)
    \/ \E r \in Reports : Insert(r)
    \/ Abort
    \/ FinishRun
    \/ Tick
    \/ \E x \in Movable : Vanish(x)
    \/ \E x \in Movable : Appear(x)

Spec == Init /\ [][Next]_vars

(* The timer starts a run again and again (deploy/nms-collector.timer), a  *)
(* run's request is answered, and time passes however often runs start.    *)
FairSpec ==
    Spec /\ WF_vars(BeginRun) /\ WF_vars(FinishRun) /\ SF_vars(Tick)

----------------------------------------------------------------------------
(* Properties.                                                             *)

(* Every variable keeps its type; no piece of evidence is older than the   *)
(* age that stands for "too old", and no confidence leaves 0..100.         *)
TypeOK ==
    /\ seen \subseteq Sights
    /\ IsTable(link)
    /\ IsTable(committed)
    /\ tx \in {"idle", "open"}
    /\ doubted \subseteq Devices \X Devices

(* "Endpoints, when present, must belong to their side of the pair.        *)
(* Enforced in application code" (migrations/002): whichever end reported  *)
(* a cable, each endpoint is an interface of its side's device, and only   *)
(* the two ends testify for a link.                                        *)
EndpointsOnOwnSide ==
    \A k \in DOMAIN link :
        /\ k.a < k.b
        /\ InterfaceLevel(k) => Owner[k.ea] = k.a /\ Owner[k.eb] = k.b
        /\ \A c \in Evidence(link[k]) : c[2] \in {k.a, k.b}

(* A link enters the view link_suppressible on agreement only: when a run  *)
(* commits, each of its rows has at least two confirmations that are still *)
(* fresh, by different sources or from both ends.  One reporter polled     *)
(* many times counts once, and expired evidence does not count             *)
(* (migrations/003).  No code reads the view yet: the incident engine      *)
(* takes every active or stale link (server/incidents.py, 57-78).          *)
SuppressibleOnFreshAgreement ==
    [][FinishRun =>
          \A k \in DOMAIN committed' :
              Suppressible(k, committed'[k]) =>
                  Cardinality(FreshEvidence(committed'[k])) >= 2]_vars

(* A committed row never disappears, and never loses a confirmation or     *)
(* changes its ports: the one change of key is the device-level row that   *)
(* learns its ports and keeps its history (collector/topology.py, 251).    *)
Continues(k, l) ==
    Evidence(committed[k]) \subseteq Evidence(committed'[l])

HistoryKept ==
    [][\A k \in DOMAIN committed :
           \/ k \in DOMAIN committed' /\ Continues(k, k)
           \/ /\ DeviceLevel(k)
              /\ \E l \in DOMAIN committed' \ DOMAIN committed :
                     SamePair(k, l) /\ InterfaceLevel(l) /\ Continues(k, l)
      ]_vars

(* Every observation lands on a link: no report a run may bring is refused *)
(* by the table.  "Insert or find the link ... the same cable reported     *)
(* from either end lands on one row" (collector/topology.py, 235-240).     *)
ObservationsLand ==
    \A r \in Reports : ~Refused(r)

(* ... and when one is refused, the pair is in doubt: earlier reports gave *)
(* it two different port pairs, or its cable had been retired.             *)
RefusedOnlyInDoubt ==
    \A r \in Reports : Refused(r) => Pair(LinkKey(r)) \in doubted

(* One cable, one row: a pair of devices has two rows only after reports   *)
(* gave it two different port pairs or its cable was retired.  Portless    *)
(* and detailed reports of either end, in any order and through any number *)
(* of refused or interrupted runs, stay on one row before that ("it        *)
(* silently creates a SECOND link for one cable", topology.py, 279).       *)
OneRowPerPair ==
    \A k, l \in DOMAIN link :
        SamePair(k, l) /\ Pair(k) \notin doubted => k = l

(* A portless report of the pair of k is laid on the one known cable.      *)
ConfirmedPortless(k) ==
    \E r \in Reports : SamePair(LinkKey(r), k) /\ Attach(r)

Shown(k) == k \in {LinkKey(r) : r \in Reports}

(* A link nobody shows any more is retracted for good: its row does not    *)
(* stay, or become again, active.  It needs runs that get through, and an  *)
(* end to the portless reports of the pair, which would confirm the row as *)
(* the only active one (topology.py, 282).                                 *)
Nameable == {k \in {LinkKey(r) : r \in ReportsIn(Sights)} : InterfaceLevel(k)}

Retracted(k) == k \in DOMAIN committed => committed[k].state # "active"

UnseenRetracted ==
    \A k \in Nameable :
        /\ []<><<FinishRun>>_vars
        /\ <>[]~Shown(k)
        /\ <>[][~ConfirmedPortless(k)]_vars
        => <>[]Retracted(k)

(* What leads there: no report makes the evidence of a row younger, in a   *)
(* run or by its failure, but one that names its two ports, or a portless  *)
(* one of its pair that Attach lays on it.                                 *)
UnseenOnlyAges ==
    [][\A k \in DOMAIN link \cap DOMAIN link' :
          (InterfaceLevel(k) /\ ~Shown(k) /\ ~ConfirmedPortless(k)) =>
              \A w \in Confirmation : link[k].ev[w] <= link'[k].ev[w]
      ]_vars

============================================================================
