----------------------------- MODULE Incidents ------------------------------
(***************************************************************************)
(* The incident report of server/incidents.py, over what the polls of a    *)
(* network recorded.  The network is real cables between real devices, one *)
(* of which, the vantage, the collector sits on; the engine sees only the  *)
(* links that were discovered and the last answer of each poll target.     *)
(***************************************************************************)
EXTENDS Naturals, FiniteSets

CONSTANTS
    Devices,
    Targets,      \* poll_target names
    DeviceOf,     \* the device behind each poll target
    Vantage,      \* NMS_VANTAGE
    Networks,     \* the sets of cables to consider, each cable a pair {a, b}
    Restrictable, \* targets whose SNMP view may be restricted
    MaxFailed     \* bound on the devices that are down together

ASSUME NetworkAssumption ==
    /\ DeviceOf \in [Targets -> Devices]
    /\ Vantage \in Devices
    /\ \A net \in Networks : \A c \in net : \E a, b \in Devices : a # b /\ c = {a, b}
    /\ Restrictable \subseteq Targets

VARIABLES
    cables,      \* the real network: it does not change
    failed,      \* devices that neither answer nor forward
    restricted,  \* targets whose SNMP agent hides the system MIB
    row,         \* device_reachability: the last answer, by poll target
    placed,      \* targets whose row has a device_id
    found        \* the cables discovery has a link for, active or stale

vars == <<cables, failed, restricted, row, placed, found>>

ReachStatus == {"ok", "unreachable", "filtered"}

----------------------------------------------------------------------------
(* Graphs.  An operator named F_... is a wrong variant of the operator it  *)
(* precedes; no specification uses it.                                     *)

Closed(S, edges, skip) == \A c \in edges : c \cap S # {} => c \subseteq S \cup skip

(* bfs: the least set with start in it that is closed under the neighbours *)
(* that are not skipped.                                                   *)
Reach(start, edges, skip) ==
    IF start \in skip THEN {}
    ELSE LET enough == {S \in SUBSET Devices : start \in S /\ Closed(S, edges, skip)}
         IN  {d \in Devices : \A S \in enough : d \in S}

(* The devices a packet from the vantage comes to.                         *)
Live == Reach(Vantage, cables, failed)

(* F: a restricted view has an answer of its own.                          *)
F_Answers ==
    [t \in Targets |->
        IF DeviceOf[t] \notin Live THEN "unreachable"
        ELSE IF t \in restricted THEN "restricted" ELSE "ok"]

(* What a poll of each target answers now (observe_one).                   *)
Answers ==
    LET live == Live
    IN  [t \in Targets |->
            IF DeviceOf[t] \notin live THEN "unreachable"
            ELSE IF t \in restricted THEN "filtered" ELSE "ok"]

----------------------------------------------------------------------------
(* The world as loaded: load_world.                                        *)

(* F: a device that failed its last poll takes its links away.             *)
F_Links ==
    {c \in found : \E t \in placed : DeviceOf[t] \in c /\ row[t] = "ok"}

(* Active and stale links count, of any fidelity and confidence.           *)
Links == found

KnownDevices == {DeviceOf[t] : t \in placed} \cup UNION Links

(* Rule 1.  A row without a device is unplaceable.                         *)
Down == {DeviceOf[t] : t \in {u \in placed : row[u] # "ok"}}

----------------------------------------------------------------------------
(* The report: compute.                                                    *)

Concludes == Vantage \in KnownDevices /\ Vantage \notin Down

(* F: down devices are walked through.                                     *)
F_ReachableNow == Reach(Vantage, Links, {})

InScope == Reach(Vantage, Links, {})
ReachableNow == Reach(Vantage, Links, Down)

Scoped == Down \cap InScope

(* F: a device and its own neighbours, not theirs.                         *)
F_Group(d, scoped) == scoped \cap UNION ({{d}} \cup {c \in Links : d \in c})

(* Rule 3: a connected group of down devices.                              *)
Group(d, scoped) == Reach(d, Links, Devices \ scoped)
Incidents ==
    LET scoped == Scoped
    IN  IF Concludes THEN {Group(d, scoped) : d \in scoped} ELSE {}

Touches(d, S) == \E c \in Links : d \in c /\ (c \ {d}) \cap S # {}

(* F: one root cause is enough.                                            *)
F_Roots(g) ==
    LET touching == {d \in g : Touches(d, ReachableNow)}
    IN  IF touching = {} THEN {} ELSE {CHOOSE d \in touching : TRUE}

(* Rule 4.                                                                 *)
Roots(g) == LET now == ReachableNow IN {d \in g : Touches(d, now)}
Suppressed(g) == g \ Roots(g)

----------------------------------------------------------------------------
(* Actions.                                                                *)

Init ==
    /\ cables \in Networks
    /\ failed = {}
    /\ restricted = {}
    /\ row = [t \in {} |-> t]
    /\ placed = {}
    /\ found = {}

(* The cables a device that answers may report, by LLDP or by the          *)
(* addresses it learned.  Which of them it does report is its own affair.  *)
Discoverable(S, answers) ==
    {c \in cables : \E t \in S : answers[t] = "ok" /\ DeviceOf[t] \in c}

(* One run over some of the targets: what it polls between two changes of  *)
(* the network (a run during which the network changes is several).        *)
Run ==
    /\ \E answers \in {Answers}, S \in SUBSET Targets \ {{}} :
           /\ row' = [t \in DOMAIN row \cup S |->
                         IF t \in S THEN answers[t] ELSE row[t]]
           /\ placed' = placed \cup {t \in S : answers[t] = "ok"}
           /\ \E new \in SUBSET (Discoverable(S, answers) \ found) :
                  found' = found \cup new
    /\ UNCHANGED <<cables, failed, restricted>>

Fail(d) ==
    /\ d \notin failed
    /\ Cardinality(failed) < MaxFailed
    /\ failed' = failed \cup {d}
    /\ UNCHANGED <<cables, restricted, row, placed, found>>

Repair(d) ==
    /\ d \in failed
    /\ failed' = failed \ {d}
    /\ UNCHANGED <<cables, restricted, row, placed, found>>

Restrict(t) ==
    /\ t \notin restricted
    /\ restricted' = restricted \cup {t}
    /\ UNCHANGED <<cables, failed, row, placed, found>>

Release(t) ==
    /\ t \in restricted
    /\ restricted' = restricted \ {t}
    /\ UNCHANGED <<cables, failed, row, placed, found>>

Next ==
    \/ Run
    \/ \E d \in Devices : Fail(d)
    \/ \E d \in Devices : Repair(d)
    \/ \E t \in Restrictable : Restrict(t)
    \/ \E t \in Restrictable : Release(t)

Spec == Init /\ [][Next]_vars

----------------------------------------------------------------------------
(* Properties.                                                             *)

TypeOK ==
    /\ cables \in Networks
    /\ failed \subseteq Devices
    /\ restricted \subseteq Targets
    /\ DOMAIN row \subseteq Targets
    /\ \A t \in DOMAIN row : row[t] \in ReachStatus
    /\ placed \subseteq DOMAIN row
    /\ found \subseteq cables

(* Every target has been found, and answers now as it is recorded.         *)
Current == placed = Targets /\ row = Answers

(* Every device has a target, so no placeholder hides an outage.           *)
AllPolled == \A d \in Devices : \E t \in Targets : DeviceOf[t] = d

Broken(d) == d \in failed \/ \E t \in restricted : DeviceOf[t] = d

(* "Every root cause the engine names is a device that actually failed"    *)
(* (scripts/check_incidents.py, 10), or that hides its view.               *)
RootsFailed ==
    AllPolled /\ Current => \A g \in Incidents : \A d \in Roots(g) : Broken(d)

(* The devices that are not known to be down, yet are discovered only      *)
(* behind down ones: where the engine knows of none, its picture is whole. *)
NoGap == InScope \ Down \subseteq ReachableNow

(* "Every suppressed device was genuinely collateral" (11), by the links   *)
(* the engine has, whatever it was told and when: an incident has a root   *)
(* cause, and every discovered path from the vantage to a suppressed       *)
(* device leads through a root cause of its own incident, several failures *)
(* and redundant paths included.                                           *)
RootsExplain ==
    NoGap =>
        \A g \in Incidents :
            /\ Roots(g) # {}
            /\ Suppressed(g) \cap Reach(Vantage, Links, Roots(g)) = {}

(* No cable is on a loop.                                                  *)
Tree ==
    \A c \in cables : \A a, b \in c : a # b => b \notin Reach(a, cables \ {c}, {})

(* "Correct for ... one collector, tree-shaped topology" (incidents.py,    *)
(* 22-27): in a tree each incident has one root cause, which did fail, and *)
(* all the rest of the incident is cut off by it in the real network, with *)
(* any part of the tree discovered.                                        *)
TreeOutages ==
    AllPolled /\ Current /\ restricted = {} /\ Tree =>
        \A g \in Incidents : \E r \in failed :
            /\ Roots(g) = {r}
            /\ (g \ {r}) \cap Reach(Vantage, cables, {r}) = {}

(* "With one in-scope failure, the engine names exactly that device as the *)
(* single root of exactly one incident" (13-14): in scope by the links     *)
(* discovered so far, in any network.                                      *)
SingleFailureOneIncident ==
    AllPolled /\ Current /\ restricted = {} =>
        \A d \in InScope \ {Vantage} : failed = {d} =>
            \E g \in Incidents : Incidents = {g} /\ Roots(g) = {d}

(* "A dead device's links go stale, and losing them would erase the        *)
(* topology this reasons over" (incidents.py, 57-58): every device that    *)
(* discovery ever connected to the vantage and that is cut off now is in   *)
(* an incident.  What was never discovered is out of scope, the known gap  *)
(* of scripts/check_incidents.py, 20.                                      *)
EveryOutageReported ==
    AllPolled /\ Current /\ Vantage \notin failed /\ Vantage \notin Down =>
        Reach(Vantage, found, {}) \ Live \subseteq UNION Incidents

(* Rule 4 (incidents.py, 13-15): everything else in the group "is down     *)
(* because the root cause is down", so there is one.                       *)
EveryIncidentHasRoot ==
    AllPolled /\ Current /\ found = cables => \A g \in Incidents : Roots(g) # {}

=============================================================================
