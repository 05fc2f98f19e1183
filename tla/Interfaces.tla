----------------------------- MODULE Interfaces -----------------------------
(***************************************************************************)
(* The interfaces of one polled device: the walks of IF-MIB and of its     *)
(* extension (observe_one in collector/poll.py over collector/snmp.py),    *)
(* the join of their columns by ifIndex (parse_interfaces in               *)
(* collector/mib.py), and the rows they become (upsert_interfaces in       *)
(* collector/store.py).                                                    *)
(*                                                                         *)
(* A walk may come back cut short: snmpwalk prints what it got before the  *)
(* agent went quiet, and walk_live takes whatever was printed.  An agent   *)
(* that restarts numbers its interfaces anew, between two polls or between *)
(* two walks of one poll.                                                  *)
(***************************************************************************)
EXTENDS Naturals, FiniteSetsExt, Functions

CONSTANTS
    Ports,    \* the device's interfaces
    Indexes,  \* ifIndex values
    Names,    \* values of ifName and ifDescr
    NameOf,   \* the ifName of a port
    DescrOf,  \* the ifDescr of a port
    NoPort    \* NULL: no hardware address

ASSUME PortAssumption ==
    /\ Indexes \subseteq Nat
    /\ \A S \in SUBSET Indexes : S # {} => \E m \in S : \A i \in S : m >= i
    /\ NameOf \in [Ports -> Names] /\ DescrOf \in [Ports -> Names]
    /\ \A p, q \in Ports :
           {NameOf[p], DescrOf[p]} \cap {NameOf[q], DescrOf[q]} # {} => p = q
    /\ NoPort \notin Ports

VARIABLES
    index,  \* the ifIndex of each port the device has now
    poll,   \* what the poll under way has read
    iface,  \* the device's interface rows, by key_name
    torn    \* some stored poll read two numberings (a history variable)

ifVars == <<index, poll, iface, torn>>

Numberings == UNION {Injection(P, Indexes) : P \in SUBSET Ports}

(* A column as far as a walk got: the port that each index stood for.  A   *)
(* hardware address is told by the port it was burned into.                *)
Columns == UNION {[I -> Ports] : I \in SUBSET Indexes}
Column(I) == [i \in I |-> CHOOSE p \in DOMAIN index : index[p] = i]
Empty == [i \in {} |-> i]

Poll == [stage : {"idle", "ifTable", "ifXTable"}, descr : Columns, phys : Columns,
         name : Columns, whole : BOOLEAN]
IfRow == [index : Indexes, mac : Ports \cup {NoPort}, state : {"active", "stale"}]

Idle == [stage |-> "idle", descr |-> Empty, phys |-> Empty, name |-> Empty, whole |-> TRUE]

----------------------------------------------------------------------------
(* parse_interfaces.  An operator named F_... is a wrong variant of the    *)
(* operator it precedes; no specification uses it.                         *)

(* The slots the columns made.                                             *)
Slots == DOMAIN poll.descr \cup DOMAIN poll.name

(* key_name: ifName, else ifDescr.  Its last resort, a name made of the    *)
(* index, is never reached: ifDescr is the first column that is read.      *)
Key(i) ==
    IF i \in DOMAIN poll.name THEN NameOf[poll.name[i]] ELSE DescrOf[poll.descr[i]]

Keys == {Key(i) : i \in Slots}
SlotsOf(k) == {i \in Slots : Key(i) = k}

(* The slot that comes last: those of ifTable are made first, by index.    *)
Latest(S) ==
    IF S \subseteq DOMAIN poll.descr THEN Max(S) ELSE Max(S \ DOMAIN poll.descr)

----------------------------------------------------------------------------
(* upsert_interfaces.                                                      *)

(* F: rows conflict on their index.                                        *)
F_Kept(k) ==
    LET same == {r \in DOMAIN iface : iface[r].index = Latest(SlotsOf(k))}
    IN  IF same = {} THEN NoPort ELSE iface[CHOOSE r \in same : TRUE].mac

(* COALESCE: an address that was not read keeps the one in the row.        *)
Kept(k) == IF k \in DOMAIN iface THEN iface[k].mac ELSE NoPort

MacOf(k) ==
    LET told == SlotsOf(k) \cap DOMAIN poll.phys
    IN  IF told = {} THEN Kept(k) ELSE poll.phys[Latest(told)]

Seen(k) == [index |-> Latest(SlotsOf(k)), mac |-> MacOf(k), state |-> "active"]

(* F: interfaces that were not seen stay as they are.                      *)
F_Unseen(r) == IF Keys = {} THEN [r EXCEPT !.state = "stale"] ELSE r

(* The interfaces that were not seen retire, unless none was.              *)
Unseen(r) == IF Keys = {} THEN r ELSE [r EXCEPT !.state = "stale"]

Upserted ==
    [k \in DOMAIN iface \cup Keys |-> IF k \in Keys THEN Seen(k) ELSE Unseen(iface[k])]

----------------------------------------------------------------------------
(* Steps.                                                                  *)

InterfacesInit ==
    /\ index \in Numberings
    /\ poll = Idle
    /\ iface = [k \in {} |-> k]
    /\ torn = FALSE

(* What a walk may return of a column: the rows up to some index.          *)
Cuts == {{i \in Range(index) : i <= n} : n \in Indexes \cup {0}}

(* ifTable arrives column by column, ifDescr first.                        *)
WalkIfTable ==
    /\ poll.stage = "idle"
    /\ \E D, M \in Cuts :
           /\ M # {} => D = Range(index)
           /\ poll' = [poll EXCEPT !.stage = "ifTable", !.descr = Column(D),
                                   !.phys = Column(M)]
    /\ UNCHANGED <<index, iface, torn>>

WalkIfXTable ==
    /\ poll.stage = "ifTable"
    /\ \E N \in Cuts :
           poll' = [poll EXCEPT !.stage = "ifXTable", !.name = Column(N)]
    /\ UNCHANGED <<index, iface, torn>>

(* The run that carries the poll reaches this device.                      *)
StoreInterfaces ==
    /\ poll.stage = "ifXTable"
    /\ iface' = Upserted
    /\ torn' = (torn \/ ~poll.whole)
    /\ poll' = Idle
    /\ UNCHANGED index

(* The run is not posted, or is rolled back.                               *)
DropPoll ==
    /\ poll.stage = "ifXTable"
    /\ poll' = Idle
    /\ UNCHANGED <<index, iface, torn>>

Renumber ==
    /\ index' \in Numberings
    /\ poll' = [poll EXCEPT !.whole = @ /\ (poll.stage = "idle" \/ index' = index)]
    /\ UNCHANGED <<iface, torn>>

----------------------------------------------------------------------------
(* Properties.                                                             *)

IfTypeOK ==
    /\ index \in Numberings
    /\ poll \in Poll
    /\ poll.stage = "idle" => poll = Idle
    /\ DOMAIN iface \subseteq Names
    /\ \A k \in DOMAIN iface : iface[k] \in IfRow
    /\ torn \in BOOLEAN

(* interface_by_ifindex takes the first active interface with the index    *)
(* (fetchone, topology.py 478): there is never a second one, whatever was  *)
(* renumbered, cut short or torn.                                          *)
OneActivePerIndex ==
    \A k, l \in DOMAIN iface :
        iface[k].state = "active" /\ iface[l].state = "active"
            /\ iface[k].index = iface[l].index => k = l

(* ifIndex "is reassigned across reboots and when virtual interfaces churn.*)
(* Keying on it silently moves metrics between ports" (mib.py, 81-83): as  *)
(* long as no poll reads two numberings, a row that bears a name of a port *)
(* never bears the address of another, however the ports are renumbered    *)
(* between polls and wherever the walks stop.                              *)
RowsBearOwnAddress ==
    ~torn => \A k \in DOMAIN iface :
        iface[k].mac # NoPort => k \in {NameOf[iface[k].mac], DescrOf[iface[k].mac]}

============================================================================
