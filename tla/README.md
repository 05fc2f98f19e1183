# Verification of the Sovereign NMS inventory core

TLA+ models of the parts of Sovereign NMS that decide *what is true about the
network*: which box a record is, which cables exist, what the last poll said
of each target, and what an outage is put down to. Every model is translated
from the Python and SQL of this repository. TLC checks each one on small
instances; TLAPS proves the theorems listed below for every instance.

Paths are relative to the repository root; `topology.py` is
`collector/topology.py`, `005` is `migrations/005_reachability.sql`, and so on.

1. [The system](#1-the-system)
2. [Modules](#2-modules)
3. [Runs](#3-runs)
4. [Where the code and its documents disagree](#4-where-the-code-and-its-documents-disagree)
5. [Theorems](#5-theorems)
6. [What is not modelled](#6-what-is-not-modelled)
7. [Plan](#7-plan)

## 1. The system

A collector on a timer walks every target of its inventory over SNMP and posts
all observations of the cycle in one request. The API handles the request in
one PostgreSQL transaction, a **run**: for each target it resolves the device,
records reachability, and stores interfaces and metrics; then it turns LLDP
neighbours into links; then it infers links from forwarding databases; then it
scores every link and commits. Readers, and the incident engine, see only
committed tables and views over them.

    timer -> poll.main -> observe_one (SNMP)          one cycle
                 |
                 v  POST /v1/ingest/run               collector waits 30 s
             app.ingest_run -> ingest.process_run     one transaction
                 |   1 resolve_device, record_reachability, upsert_interfaces
                 |   2 build_links -> resolve_peer_device, upsert_link
                 |   3 mac_ownership, find_leaf_ports, build_links_from_fdb
                 |   4 rollup_confidence
                 v
             tables --- views --- incidents.load_world/compute --- read API

| component | state | operations | what makes it hard | what makes it correct |
|---|---|---|---|---|
| link table (`topology.py`, `002`, `003`) | `link`, `link_evidence` | `upsert_link`, `record_evidence`, `rollup_confidence` | the same cable comes from either end, with or without ports, from LLDP or inference, by one interface of the peer or another, in any order; what devices report outlives the cable or lacks it; rows age, retire and come back; one refused statement undoes a whole run | endpoints on their own side; no second row and no refused run before a pair was reported by two port pairs or retired; `link_suppressible` on fresh agreement only; history kept; links nobody shows retracted |
| identity (`store.py`, `topology.py`) | `device`, `device_identity` | `resolve_device`, `resolve_peer_device`, `_reassert_peer_identity` | boxes are polled and heard of in any order, share names, change or withhold identifiers; runs look identifiers up, then write them, and interleave; a wrong merge raises no error | a box with an identity of its own is alone in its row, and is one row unless two open runs had it in hand; hearsay gives no device a second chassis |
| reachability (`store.py`, `005`) | `device_reachability`, its change log | `record_reachability` | a `SELECT` decides what is logged before the upsert takes the row lock; runs overlap, fail, or outlive their collector's wait | the log is the sequence of transitions; every outage of a known device names it |
| ingest transaction (`app.py`, `ingest.py`) | none of its own | one commit per run, rollback on any exception | partial failure inside a run-wide transaction | all of a run or nothing of it |
| incident engine (`incidents.py`) | none: computed on read | `load_world`, `bfs`, `compute` | several failures, stale links, partial polls, links never discovered, hidden views, redundant paths | roots really failed; they explain what is suppressed, by the links discovered and, in a tree, in the network; one failure in scope is one incident; no discovered device's outage is lost |
| interfaces (`poll.py`, `snmp.py`, `mib.py`, `store.py`) | `interface` | walks, `parse_interfaces`, `upsert_interfaces` | an agent renumbers its ports when it restarts, between polls or between two walks of one poll; a walk may stop halfway and is taken as complete | an index names one active interface, a row never bears another port's address |
| leaf ports (`fdb.py`, `topology.py`) | none of its own | `find_leaf_ports`, `mac_ownership`, `interface_by_ifindex` | the lookup joins this poll's database with stored rows; knowledge of who owns which address grows run by run | a neighbour is claimed on the port it was learned on |
| metrics and rates (`store.py`, `006`) | `metric_sample` | `write_metrics`, `write_device_metrics`, view `interface_rate` | reboots, stopped clocks, cleared counters, runs stored late or out of order, equal timestamps | a reliable rate spans no restart and invents no traffic; none is held back without a reason; no division by zero |
| collector (`poll.py`, timer, unit, `poll_cycle.sh`) | none | `observe_one`, `post_run`, a cycle of two runs | partial answers, give-up after 30 s; jitter and run time against the freshness window | one bad device does not spoil the others; a link survives a few failed polls |
| text decoding of SNMP, wire format, authentication and read API, simulator, gates, deployment, web page | none that the models need | | | see [section 6](#6-what-is-not-modelled) |

Components share state only through the database. Identity feeds the link
table (which device a neighbour is), interface rows feed leaf ports and links,
leaf ports feed the link table, and links plus reachability feed incidents.
The models follow those seams: a component takes the other's result as an
input it does not control, over the kinds of result that matter to it. `Links`
takes what a device shows as any set of entries, each naming any row that may
own the addresses; `Incidents` takes any part of the cables as discovered, and
no link that is not a cable; both are narrower than everything the other might
write, and section 6 says where.

## 2. Modules

Each component has a specification (`Links`, `Identity`, `Reachability` with
its abstraction `ReachLog`, `Incidents`, `Interfaces` with `Fdb` on top of it,
`Rates`, `Freshness`), an `MC...` module that gives
its constants values for TLC (`Freshness` has numbers in its configuration), and
a `...Proofs` module (`Identity` has a second
one, `HearsayProofs`). Operators named
`F_...` are deliberately wrong variants of the operator they precede. No
specification uses one: each shows that some property fails when the code is
wrong in that way.

### Links

`link` is the table as the open transaction sees it, `committed` the table
readers see. `link_pair_unique` treats NULL endpoints as equal, so
(device_a, device_b, endpoint_a, endpoint_b) is a key and a table is a function
from keys to rows; a row carries `state`, `conf` (percent) and the age in ticks
of each (source, reporter) piece of evidence.

What devices show is no part of the program. `seen` holds entries ("sights") of
neighbour tables and forwarding databases, or of polls not yet stored: who may
store a report of which two ports, by which protocol. `Movable` entries come and
go whenever they like (`Appear`, `Vanish`). An entry may thus outlive its cable,
as LLDP's hold time, MAC ageing and the delay of a run let it; be missing while
the cable is there, as on a port that is no strict leaf; or show two ports no
cable joins, as where a bridge floods LLDP (HANDOFF.md, 1162-1180). `Reports`
are what `build_links` and `build_links_from_fdb` make of the entries. LLDP
names both ports, or, from a RouterOS-like device, one of them (`NamedPorts`).
The forwarding database names its own port by index and the peer's by whichever
interface row owns the learned address: `Faces` gives the rows it may be, the
port itself, a VLAN or bridge interface, or none (`LearnedPorts`).

`doubted` is a history variable: the pairs of devices that reports gave two
different port pairs, or whose cable was retired. No action reads it.

| action | code |
|---|---|
| `BeginRun`, `FinishRun` | start of `process_run`; `rollup_confidence` and commit |
| `Upgrade` | `upsert_link`: an interface-level report rewrites the pair's device-level row |
| `Attach` | a portless report confirms the pair's only active cable |
| `Insert` | `INSERT ... ON CONFLICT DO UPDATE`, and the refresh of a row already named |
| `Refuse` | a table constraint refuses the statement; exception, rollback, answer 500 |
| `Abort` | the server or the database stops in the middle of a run; rollback, no answer |
| `Tick` | time passes: evidence ages towards the window of `link_evidence_fresh` |
| `Vanish`, `Appear` | the world |

`now()` is the start of the transaction in PostgreSQL, so a run takes no time
(`Tick` needs `tx = "idle"`). One run is open at a time, which is what the
sequential `poll_cycle.sh` makes of one collector.

### Identity

`identity` is `device_identity`, keyed by type, value and source; `device` is
each row's state. `run` holds the open transactions: which statement comes next,
the observation in hand, the device it hit, and the uncommitted rows. `boxes` and
`raced` are what the program never sees: which real boxes were taken for which
row, and which boxes two open runs had in hand.

| action | code |
|---|---|
| `Observe` | the next observation of a run: a poll (`process_run`, phase 1) or a neighbour's frame |
| `LookUp` | the `SELECT`s for the identifiers of one type, strongest first |
| `Veto` | the `SELECT` for a chassis of the device that only the name matched (`topology.py`, 176-183) |
| `PollKnown`, `PollNew` | `resolve_device` updates the device that matched, or inserts one, and writes every claim |
| `Reassert`, `HearKnown` | `_reassert_peer_identity`: the `SELECT`s that decide what the frame may refresh, then the `INSERT` of it |
| `HearNew` | `resolve_peer_device` inserts a placeholder with the frame's identifiers |
| `Commit`, `Abort` | the commit of the request; exception, restart, deadlock victim |

Each `SELECT` sees what is committed at that moment and the run's own writes
(`View`, READ COMMITTED). A write waits while another open run has written one of
its rows (`Locked`). The writes of one observation (the claims of a poll, the
identifiers of a frame) are one step: each is decided without a look at the
others, its row is locked to the end of the run and nobody sees it before, so
what another run does between two of them it may as well do before the first.
The `SELECT`s of `_reassert_peer_identity` are another step than its `INSERT`,
since another run's commit may fall in between; its `ON CONFLICT ... WHERE`
(`Unconflicted`) looks at the row again.
A fleet is two constants, the claim sets a poll of a box may
yield and the frames it may send, so one model covers LLDP switched on and off,
several ports, generic names and missing chassis. A lookup that matches several
rows of one type picks any of them: neither query gives an order. The code goes
on looking after a first match; what it finds then is only logged.

### ReachLog and Reachability

`ReachLog` is the promise: a table of current answers and, per target, the log
of their transitions, a run being one step. `Reachability` is the code: a
request is an open transaction with the observations still to do (`todo`), the
status read for the first of them (`prior`) and its uncommitted writes
(`mine`).

| action | code |
|---|---|
| `Post` | a collector posts a run; the previous one may still be open |
| `ReadPrior` | the `SELECT reach_status` of `record_reachability`, READ COMMITTED |
| `Upsert` | the upsert (waits for another open run that wrote the row), and the history row |
| `Raise` | `resolve_device` raises `ValueError`; nothing catches it, answer 500 |
| `Commit`, `Abort` | the only commit; restart, deadlock victim or an exception of a later phase |

`RecordsTransitions == Abstract!Spec` states that `Reachability` implements
`ReachLog` under the identity mapping of `row` and `log`.

### Incidents

The real network (`cables`, `failed`, `restricted`) and what polls recorded of
it (`row`, `placed`, `found`). `Run` polls any set of targets and discovers any
of the cables at a device that answered, or none: `found` is any part of the
network, and a device whose links were never found is out of scope, which
scripts/check_incidents.py (20-22) records of acc-sw-03. `Fail`, `Repair`,
`Restrict`, `Release` change the world. `Links`, `Down`, `ReachableNow`,
`Group`, `Roots` are `load_world` and `compute`; links of every fidelity,
confidence and state count, as in the code. A breadth-first search is
written as the least closed set that contains its start, which is what a search
returns and what can be proved about.

### Interfaces and Fdb

`Interfaces` is one polled device: `index` is its present numbering of ports,
`poll` the columns read so far, `iface` its rows of the table `interface`, by
name. Hardware addresses and names are told by the port they belong to, so that
the properties can ask whose they are.

| action | code |
|---|---|
| `WalkIfTable`, `WalkIfXTable` | the two walks of `observe_one`; each returns the rows up to some index, none if it fails (`Cuts`) |
| `StoreInterfaces` | `parse_interfaces` joins the columns by index, `upsert_interfaces` writes the rows by name and retires the others |
| `DropPoll` | the run is not posted or is rolled back |
| `Renumber` | the agent restarts: other numbers, other ports; `torn` remembers a stored poll that read two numberings |

`Fdb` extends it with the last walk of the poll, of the bridge MIB, and the run
that carries the poll (`Run`): identities and interfaces first, then the strict
leaf rule and the lookup of the port. `polled` and `heard` are what
`mac_ownership` can know, `shown` is what the walk returned, `claims` what the
step hands to `upsert_link`. The network is constant: which port a card's frames
come in on, and which boxes forwarded them before.

### Rates

One counter of one interface. `clock` is true time, `since` and `octets` are the
agent's, `ticking` says whether its clock runs. `ReadUptime` and `ReadOctets` are
the two walks of a poll through one target; `Store` is the commit of a run that
carries the polls of some targets, all under the timestamp of its transaction.
`Tick`, `Restart` and `Clear` are the world. The view is the operators from
`Series` to `Answers`, one for each of its subqueries; where SQL leaves a choice
(ties of `lag()`, several uptimes in the join) the operators yield every outcome.
`carried`, and the reading times in a sample, are history: the properties compare
the view with them.

### Freshness

One link with one confirmation, of one device that one of the two runs of a cycle
polls (`Mine`), in units of 30 seconds. `since` is the time since the timer
started the cycle, `done` how many of its runs are over, `age` the evidence's,
`missed` the failed polls in a row.

| action | code |
|---|---|
| `Elapse`, `Activate` | time; the timer, at `OnUnitActiveSec` from the last start and up to `RandomizedDelaySec` later, never while a cycle still runs |
| `Heard` | a run that carries a report of the device: evidence is refreshed |
| `Unheard` | a run without one, its own or the other inventory's: the rollup scores every link |
| `Lost`, `Killed` | a run that is not stored (`poll_cycle.sh` goes on); systemd's time limit for the cycle |

## 3. Runs

Passing runs, with the states TLC finds (all of them exhausted):

| run | states | question and instance |
|---|---|---|
| `links_lag` | 131 464 | A router that may leave ports out, a switch that names ports and learns addresses of the router's port, of its VLAN interface or of no interface, a cable that loops back. What the switch shows comes and goes. `TypeOK`, `EndpointsOnOwnSide`, `OneRowPerPair`, `RefusedOnlyInDoubt`, `SuppressibleOnFreshAgreement`, `HistoryKept`, `UnseenOnlyAges`, and liveness `UnseenRetracted` under `FairSpec`. This run also refuses and aborts runs, and gives one cable two rows |
| `identity_fleet` | 1 357 908 | Two mesh units that share a name and a router without a chassis of its own, polled and heard of by two open runs. `TypeOK`, `HonestBoxIsOneDevice`, `HearsayMovesNoChassis` |
| `reach_sites` | 149 887 | Two open requests of different inventories, with failed and aborted runs, replaced devices and devices without identity. `TypeOK`, `OutagesAttributed`, `LogTellsRow`, refinement `RecordsTransitions` |
| `incidents_reports` | 1 128 924 | Every network of at most four cables between a vantage and three devices, any part of it discovered, up to two failures, a target with a restricted view, partial runs. `TypeOK`, `RootsFailed`, `RootsExplain`, `TreeOutages`, `SingleFailureOneIncident`, `EveryOutageReported` |
| `fdb_leaves` | 281 558 | A bridge with two ports, one of which has an `ifDescr` of its own, an access point and a host behind it. `TypeOK`, `OneActivePerIndex`, `RowsBearOwnAddress`, `RightPort` |
| `rates` | 2 579 756 | A device polled through two targets. `TypeOK`, `RatesReal`, `RatesAnswered` |

**Bounds.** Links: with `Window = 1` tick evidence is fresh (age 0) or expired;
the code compares ages with the window and with nothing else, and the ages in
between would only lengthen behaviours (`links_replug` has `Window = 2`). The
router's port with three `Faces` gives one pair of devices two port pairs and
portless reports, which makes every branch of `upsert_link` possible: its count
of known cables distinguishes 0, 1 and more. A row concerns one pair of devices
only, so one pair is enough. `AgreementBonus` is 20 in `links_lag` where the code
has 15: with two reporters and two sources a row gets three confirmations, and
65 + 2 * 20 is beyond the ceiling of 95 which the type invariant relies on, as
65 + 3 * 15 is where both ends learn addresses; with either value two
confirmations can reach the threshold of 70 and one cannot. Freshness: the deployed figures, in units
of 30 s, no bound but the age and the count of failures that stand for "more".
Identity: two runs of one
observation each (`MaxSeen`) are the least that race; `OneRaced` stops a
behaviour once two boxes have been raced, and three device rows are enough for a
box that is two rows beside another. Runs of several observations, which see
their own writes, are covered by the proofs. Rates: two observations stored or
under way (`MaxSamples`) make one interval; three ticks are a poll, a restart and
a later poll, with a run in between that is stored late; `Unfinished` cuts states
that can only repeat their answers. Fdb: `Bounded` keeps the first port present
and stops after the first torn poll that is stored, so that poll's own claims are
checked and its consequences are not. `MaxLog = 2` transitions per
target (guard `Fits`) allow one change and a history before it; two open
requests are the least that race, and a third adds no new kind of step since a
statement meets one lock holder at a time. Incidents: four devices are
the smallest network with a cycle beside the vantage, a device behind another,
and two failed neighbours of which only one is a root; four cables give every
tree, every network with one loop and every unconnected one (those of five and
six cables are left to the proofs), and two failures, with the restricted view,
three devices that count as down. `MaxLeafMacs = 2` (six in the code) lets
a port exceed it with the cards of the instance. The proofs of section 5 remove
these bounds for the properties they cover.

**Deadlock** is checked in every run: each system can always do something.

**Symmetry.** The incident runs permute the two devices `y` and `z`, which no
constant tells apart and which no temporal property concerns; `identity_fleet`
permutes runs and device ids, `rates` the two targets. No run that checks liveness
uses symmetry.

**Fairness.** Only `UnseenRetracted` needs any. `FairSpec` asks that a run is
begun again and again (`nms-collector.timer`; the shell script goes on to the
next poll after a failure), that a begun run finishes (`process_run` loops over
the posted devices and the rows of its tenant and waits for nothing else), and that time
passes even though runs keep starting: `Tick` is disabled while a run is open,
so strong fairness. Nothing is assumed about devices, which may stay silent. The
property's own hypotheses are that runs go on getting through (`[]<><<FinishRun>>_vars`:
while a pair is refused, section 4, no run ends and nothing is retracted), that
from some moment nobody shows the link's two ports, and that portless reports of
its pair stop confirming its row. The last is needed because a portless report of
another cable of the pair finds the row if it is the only active one
(`topology.py`, 282). TLC satisfies all of them in `links_lag`.

**Preconditions.** `OneRowPerPair` and `RefusedOnlyInDoubt` except pairs in
`doubted`: two port pairs, by two cables or by two rows that may own one port's
addresses, or a retired cable. These really lead to second rows and refused runs
(section 4), and the properties say that nothing else does. The incident
properties that compare the report with the world speak of moments when every
target was found and answers now as recorded (`Current`); with partial runs,
repairs and failures in between, TLC reaches such states by many histories.
`RootsExplain` is about the report and the discovered links alone and holds at
any time, unless a device that is not known to be down is discovered only behind
devices that are (`NoGap`). `TreeOutages` and `SingleFailureOneIncident` also ask
that no view is restricted: see `incidents_filtered`. `TreeOutages` is the claim
about the real network, and about trees; section 4 has the meshes. `HonestBoxIsOneDevice` gives "alone in its row" without
condition and "one row" for boxes that no two open runs had in hand (`raced`);
`HearsayMovesNoChassis` has the same condition, and TLC refutes both without it.
`RightPort` is about polls that read one numbering and some interface.
`RatesReal` is about `Reliable` intervals: each poll alone in its run, both with
an uptime, the later one within one life of the agent, read in the order stored,
and less apart than the agent had been up, on a device whose clock runs. Without
an uptime there is nothing to compare; TLC refutes the property without any one
of the others. Each is a fact about the code, listed at the end of section 4.

## 4. Where the code and its documents disagree

Each of these runs checks one property that a document, comment or check of the
repository states. TLC finds a counterexample in the code as modelled.

- **`links_replug`** (`ObservationsLand`). One cable, between two ports that
  everybody names alike. Nobody shows it for longer than the
  freshness window, so its interface-level row goes stale. It comes back, and a
  portless report arrives first: `upsert_link` looks for *active* cables only,
  finds none and inserts a device-level row. The next detailed report wants to
  rewrite that row to the ports of the stale row, and `link_pair_unique`
  refuses. The whole run is rolled back, and so is every later run that carries
  the report.
- **`identity_two_chassis`** (`OneChassisPerDevice`). The veto of
  identity-design.md is in `resolve_peer_device` and not in `resolve_device`:
  two units that share a name end up as one device with two chassis by polls
  alone. HANDOFF.md (440-452) records that only one of the two functions was
  changed.
- **`reach_overlap`** (`LogTellsRow`). Two open runs of one inventory both read
  the old status before either commits, so both log the transition. The
  collector gives up after 30 s while the server goes on, so the next cycle can
  overlap.
- **`reach_nameless`** (`OneBadDeviceIsolated`). A device whose only resolving
  claim is a generic name passes `process_run`'s test and makes
  `resolve_device` raise; the run of every other device is lost with it.
- **`incidents_filtered`** (`EveryIncidentHasRoot`). A device with a restricted
  view counts as down and cuts `reachable_now` although it forwards. An outage
  two hops behind it is an incident whose devices are all suppressed. The
  property asks for a network that was discovered completely, so no missing link
  has a part in it.
- **`freshness_five`** (`SurvivesFailures`). nms-collector.timer (31-32): "At a
  5-minute interval you survive FIVE consecutive failed polls before topology
  starts decaying"; HANDOFF.md (1242-1244) repeats it. The jitter makes a cycle
  up to 5:30, a run may be 4 minutes into its cycle, and before the device's next
  poll can end the rollup of the other inventory's run scores all links. After
  five failures, and also after four, it finds the evidence 30 minutes old and
  retires the link. Three failures are survived (`FailuresSurvived`):
  4 * 5:30 + 4:00 is 26 minutes, with one more cycle it is 31:30.

More facts came out of the models and have no run of their own. Most of them are
the reason for a condition in a property, which TLC refutes without it.

Interfaces and leaf ports:

- `walk_live` raises only when nothing was printed (`snmp.py`, 117-130), though
  its first line promises an error on transport failure. A walk that stops
  halfway is stored as complete: interfaces behind the cut are retired, and one
  whose `ifName` was not reached is stored a second time under its `ifDescr`.
- `observe_one` goes on when IF-MIB fails (`poll.py`, 88-97) and may still read
  the bridge MIB. If the bridge renumbered since the last poll,
  `interface_by_ifindex` answers from the old rows and the link is recorded on
  the wrong port.
- A restart between the walks of one poll joins the columns of two numberings:
  a row gets another port's address, and keeps it (`COALESCE`, `store.py`, 211)
  as long as no later walk returns one.

Identity under races (two open runs with one box in hand):

- Both may find nothing and create a row each. The later write takes the
  identifiers over, so that one row is left with none, or with a part of them.
- The creation path of `resolve_peer_device` writes `ON CONFLICT DO UPDATE SET
  device_id` (`topology.py`, 206-215): a frame can then move a chassis from the
  device that a poll stored meanwhile.
- A chassis that another run commits between the lookup by chassis and the veto
  makes the veto reject the very device the frame belongs to, and a placeholder
  duplicates it.

Rates:

- A restart is not recognised when the interval is longer than the earlier
  uptime, or when one of the two uptimes is missing (`006`, 57-58, 82); a counter
  that went on or caught up then gives a rate across it.
- `006` (8-11) and `store.py` (239-240) call the uptime "read by the same walk
  that read the counters". `observe_one` walks the system group first and the
  interfaces later (75, 91); a restart in between stores an old uptime with new
  counters.
- A run that observes one device through two targets stores two uptimes under
  one timestamp; the join (`006`, 49-52) multiplies intervals and mixes readings.
- Samples are ordered by the start of their transaction. Two runs stored in the
  other order than they were polled give a rate that counts backwards.

Links:

- One cable can be two rows in a network that never changes. `mac_ownership`
  (`topology.py`, 460-466) gives an address to whichever of its interface rows
  comes last, be it the port, a VLAN, a bridge or a management interface, and
  `find_leaf_ports` (`fdb.py`, 166-173) names that row as the peer's port, where
  LLDP names the port itself. A portless report then finds two known cables and
  inserts a device-level row, and the next detailed report is refused as in
  `links_replug`. `links_lag` reaches all of this; `OneRowPerPair` and
  `RefusedOnlyInDoubt` say that two port pairs, or a retired cable, are needed.
- `Upgrade` moves a device-level row, with its evidence, to whichever cable of
  the pair is first reported with ports. If the pair already has two known
  cables, the evidence of "one of those two" becomes evidence of the third,
  though topology.py (293-296) keeps such a row apart to avoid attributing it
  arbitrarily.
- What a neighbour table holds after its cable is gone, or of a cable that never
  was (HANDOFF.md, 1162-1180), is confirmed by every poll, stamped with the time
  of the run. `UnseenRetracted` and `UnseenOnlyAges` are about what *nobody
  shows*, not about cables that are out.
- Read from the code, not modelled: two open runs that write one pair, one with
  ports and one without, both insert, since their keys differ. That leaves the
  two rows from which `links_replug` goes wrong.

Incidents:

- The engine suppresses over every active or stale link, whatever its fidelity
  and confidence (`incidents.py`, 57-78). `002` (72-79) makes `link_suppressible`
  the view that suppression rests on, so that it "cannot be forgotten at query
  time", and HANDOFF.md (1032) and ROADMAP.md (40) call device-fidelity links not
  suppression-capable. No code reads the view. `SuppressibleOnFreshAgreement` is
  about what enters it, and no property says that it gates anything.
- incidents.py (22-27) and HANDOFF.md (1709-1712) call the engine right for a tree
  and wrong for a mesh with redundant paths. What the models show: in a tree, of
  which any part is discovered, each incident has one root cause, and it really
  cuts off the rest (`TreeOutages`). In any network the report is right *by the
  discovered links*: every discovered path to a suppressed device leads through a
  root of its incident (`RootsExplain`), a single failure in scope is a single
  incident (`SingleFailureOneIncident`). With redundant paths an undiscovered
  cable can be a way around a root cause, so that a device is suppressed which
  the root did not cut off; and with two failures on a ring both are roots of one
  incident and neither alone explains the device between them. That is the extent
  to which the engine serves a mesh; direction of dependence is not among it.
- A device that is not known to be down can be discovered only behind devices that
  are (it was never polled, or answers over a cable discovery missed). Then an
  incident may touch nothing reachable and have no root cause, without any
  restricted view; `NoGap` in `RootsExplain` excepts this, and TLC refutes the
  property without it.

## 5. Theorems

All are `THEOREM Spec => ...`, for every value of the constants that the named
`ASSUME`s of the modules allow (finite sets of devices and cards, interfaces
with owners, cables of two ports, and so on; TLC evaluates each in the runs).

**LinksProofs.** `LinksType` is the type invariant; its core is that a score
stays within 0..100 for any finite set of confirmations (`ScoreFacts`, resting
on `MaxPercent` and `MinOfTwo`). The other properties are about `committed`, and
a refused run copies it back, so each inductive invariant speaks of both tables:

- `LinksOwnSide`: `SidedBoth`, the property for both tables, and `LinkKeyFacts`:
  whatever a report says, the key made of it is ordered and each port is on its
  side.
- `LinksAgreement` (`SuppressibleOnFreshAgreement`): a single confirmation scores
  no more than its source's prior. It rests on `PriorAssumption`: no source that
  is written has a prior of 70 or more. `SOURCE_BASE` gives `manual` 100, and no
  code writes it.
- `LinksHistory`: `Ahead` relates the two tables during a run: each committed
  row lives on in the working table, under its key or under the key of the cable
  that took it over.
- `PortsKnownNeverRefused`: where no report leaves a port out (`PortsKnown`: no
  portless device, and no address without an interface row)
  no run is ever refused. The counterexample of `links_replug` thus needs a
  portless reporter.
- `DoubtBeforeSecondRow`, `DoubtBeforeRefusal` (`OneRowPerPair`,
  `RefusedOnlyInDoubt`), for any cables, any faces and any entries coming and
  going. Neither is inductive alone: a portless report finds its cable among the
  active rows only, so a second row needs a retired one. `Settled` says of a pair
  not in `doubted` that it has one row, and that this row is active if it has
  ports; `SettledBoth` says it of the committed table too, to which a refused or
  aborted run goes back.
- `UnseenAges` (`UnseenOnlyAges`), for any network and any faults: the
  evidence of a row nobody shows gets no younger except by a portless report laid
  on its row. `Behind` says that the committed age of a confirmation is no less
  than the working one's, since a refused or aborted run goes back to it. It is
  the safety half of `UnseenRetracted`: nothing else delays the retraction.

**IdentityProofs.** `IdentityType` and `HonestOneDevice`, for any fleet, any
number of open runs and runs of any length. An honest box shares no identifier
with another, has at most one chassis and always gives its name; nothing is asked
of the other boxes. `HonestBoxIsOneDevice` is not inductive: it says who was
absorbed, not what the next lookup will find. `IInv` adds, for the tables as each
run sees them: every identifier was claimed by a box its device absorbed
(`Claimed`), a row nobody absorbed owns nothing (`Fresh`), what a run has in hand
is an observation it counts (`Hands`), and a device it hit was hit by an
identifier of that box (`HitClaimed`). From these an honest box is alone in its
rows (`Pure`), races or not. For a box that was never raced, its rows are one
(`Unique`), that row holds its name (`Named`), and a lookup that went past the
name's type found nothing because there was nothing (`Lookups`): that is the part
a race breaks.

**HearsayProofs.** `HearsayIsHarmless` (`HearsayMovesNoChassis`), for any number
of runs of any length, where a chassis belongs to one box (`OneBoxPerChassis`,
which the fleet of `identity_fleet` satisfies). Without it two runs may hear of
two boxes with one chassis at once, both find nothing, and the second takes the
identifier from the first; no box is in two hands, so `raced` does not excuse it.
The property is about a commit; `HInv` says it of the uncommitted rows: a run that
only heard of boxes, none of them raced, has in its `keys` only chassis that
their device holds already, or the one chassis of a device it creates
(`KeepsChassis`). That a creation finds the chassis unowned at the commit is
`Unfound`: what a lookup missed is still missing while the box was in no other
hand. It uses `IInv` of IdentityProofs.

**ReachabilityProofs.** `LogTells`: the abstract log's entries
alternate and end with the current answer. The proof is local to a target (`Tells`), which
makes it short. `AttributionHolds`, for any number of overlapping runs of
any inventories. `AInv` adds that two open runs never hold the same target
(`Exclusive`, which is the row lock), that a run does not forget a device
committed before (`KnownKept`), and that the last log entry's device is still in
the row (`LogKnown`). `DisjointRunsRecord` is the refinement: where no two
requests share a target (`OwnTargets`), `Reachability` implements `ReachLog`.
`RInv` adds that a status read is still the committed one at the commit
(`PriorFresh`, `ChangedFresh`). That is precisely what overlapping runs of one
inventory break in `reach_overlap`. `DisjointRunsTellStory` carries `LogTells`
over to the code through the refinement: with targets of their own, concurrent
runs write a log that satisfies `LogTellsRow`.

**IncidentsProofs.** `RootCausesFailed`, `SuppressedAreBehind`,
`TreesAreExplained`, `OneFailureOneIncident`, `OutagesAreReported`, for networks
of any size of which any part is discovered. They
follow from the type invariant (`found` is a part of `cables`) and from three
facts about `Reach`: it contains
its start, it is closed, and it is within every closed set that contains the
start (`ReachFacts`, `ReachLeast`). `SuppressedAreBehind`: the devices outside an
incident are closed up to its roots, since what leads into it comes from a device
not known to be down, which the engine reaches now unless there is a gap.
`TreesAreExplained`: in a tree, all that lies across the cable from a device
reached now to a down one is cut off (`BehindCable`), discovered or not; so there
is no gap (`TreeHasNoGap`), and the one root is the near end of that part.

**FdbProofs.** `IndexIsUnambiguous` (`OneActivePerIndex`): the rows that are
active are those of the last poll with any interface, and each slot of it has its
own index. `AddressesStayOnTheirPort` (`RowsBearOwnAddress`): columns of one
numbering agree on whose index it is (`PollTrue`: what was read is what the ports
are now, unless they were renumbered since), and a kept address was stored under a name
of its own port. `ClaimsNameTheirPort` (`RightPort`) combines the two facts for
the lookup.

**RatesProofs.** `RatesType`, `RatesAreReal`, `RatesAreAnswered`, for any traffic,
number of targets, delay and bounds. The inductive invariant says of every
reading, under way or stored, what it owes to the device: an uptime that is the
time since the start of its life (`UpRight`), lives that do not overlap
(`InOrder`), and a counter that never gains on what the interface carried
(`CountRight`, `CountOrder`). `RatesReal` then is arithmetic: if
the two uptimes belong to different lives and the polls are less apart than the
first uptime, the second uptime is smaller, and the view holds its answer back.

**FreshnessProofs.** `FailuresSurvived` (`SurvivesFailures`), for every interval,
jitter, time limit, window and number of tolerated failures that satisfy
`Budget`: (Tolerated + 1) * (Interval + Jitter) + Limit < Window. `BInv` bounds the
age of the evidence by the cycles begun since the device was last heard (`Begun`)
at the timer's slowest pace. The deployed figures satisfy `Budget` for three.

**Only model-checked.** Liveness (`UnseenRetracted`) and anything about
`ENABLED` are outside the prover. Every safety and action property of a passing
run is proved; `HearsayIsHarmless` and `DisjointRuns...` have a hypothesis on the
constants, which the instance of the run that checks the property satisfies.
`PortsKnownNeverRefused` and `FailuresSurvived` are about instances other than
those of section 4, on which their properties do not hold.

## 6. What is not modelled

- **Text decoding** (`_parse_lines` of `snmp.py`, OIDs, addresses and enumerations
  in `mib.py`, `lldp.py` and `fdb.py`): conversions without state. The models start from what
  they return, including "no port", "no chassis" and "no rows".
- **Wire format** (`common/wire.py`): dataclasses and JSON. A run that is
  rejected as a whole leaves no trace, as `Post` with an empty batch.
- **Authentication, tenants, read API**: every statement carries the tenant of
  the caller's key; the models are of one tenant.
- **Utilisation** (`006`, 93-97): the rate divided by a stored constant.
- **Pinned and manual links**: columns and a source nothing in the program
  writes.
- **mgmt_ip and serial**: the first never resolves; no collector claims the
  second.
- **Two transactions that write links at once**: `poll_cycle.sh` (12-14) runs
  polls in sequence because this was never tested. Identity and Reachability have
  concurrent runs, `Links` and `Freshness` have one at a time.
- **A reader between two commits**: `load_world` and the topology endpoint read in
  several statements; the report of `Incidents` is one step.
- **What stands between a claim's two boxes**: no property says that a leaf port's
  peer is the next box. The strict rule's test for one known box is the code's
  own statement, and "nothing can be hiding behind it" (`fdb.py`, 12-13) does not
  follow for a box that only forwards, or is not known yet.
- **Links no cable is behind**: `Incidents` has discovered links for cables only.
  A bridge that floods LLDP makes others (HANDOFF.md, 1162-1180), and with them
  the report is about another network.
- **The time of a run**: `Freshness` and `Links` have a run take no time, since
  `now()` is the start of its transaction; evidence is stamped with that, not
  with the moment of the poll.
- **A network card moved to another box**: `Fdb`'s cards stay in place.
- **Simulator, gate scripts, deployment, web page**: not the system. The gates'
  conditions are stated as properties; the timer and the unit are in `Freshness`
  and behind the fairness.

## 7. Plan

In order:

1. **Links**: a second open run, with the rows it locks and the keys it waits for;
   faces that move from one row to another as `mac_ownership` changes.
2. **Incidents**: the search as the code's worklist, shown to compute `Reach`; the
   report read statement by statement against a committing run; placeholders (a
   device known only from a neighbour's frame).
3. **Identity**: `OneChassisPerDevice` from the absence of shared names, which
   would bound what `identity_two_chassis` shows.
4. **Ingest**: a composition of Identity and Links in one transaction.
5. **Fdb**: cards that move; ownership where two devices claim one address.
