-------------------------------- MODULE Fdb --------------------------------
(***************************************************************************)
(* Leaf-port inference: what one bridge's forwarding database says about   *)
(* its neighbours (find_leaf_ports in collector/fdb.py, called by          *)
(* process_run), over the interface rows of the bridge, which turn a port  *)
(* into an interface (interface_by_ifindex in collector/topology.py).      *)
(*                                                                         *)
(* The network does not change here: the frames of a network card come in  *)
(* on one port.  The ports do: the bridge restarts, numbers its interfaces *)
(* anew, gains and loses some.                                             *)
(***************************************************************************)
EXTENDS Interfaces

CONSTANTS
    Devices,      \* boxes, the bridge among them
    Switch,       \* the bridge
    Cards,        \* network cards: MAC addresses
    Holder,       \* the box a card sits in
    Chassis,      \* the card whose address a box advertises, or NoCard
    PortOf,       \* the port the frames of a card come in on
    NoIf,         \* NULL: no interface
    NoCard,       \* no address
    Pollable,     \* boxes with an SNMP agent
    Audible,      \* boxes that some LLDP neighbour names
    MaxLeafMacs   \* MAX_LEAF_MACS

ASSUME NetworkAssumption ==
    /\ IsFiniteSet(Cards) /\ IsFiniteSet(Devices) /\ Switch \in Devices
    /\ Holder \in [Cards -> Devices]
    /\ \A d \in Devices :
           Chassis[d] # NoCard => Chassis[d] \in Cards /\ Holder[Chassis[d]] = d
    /\ PortOf \in [Cards -> Ports]
    /\ NoIf \notin Names \cup Cards /\ NoCard \notin Cards
    /\ Pollable \subseteq Devices /\ Audible \subseteq Devices

VARIABLES
    polled,   \* the devices with interface rows
    heard,    \* the devices with an identity row for their chassis
    shown,    \* the cards that this step's walk of the database returned
    claims    \* what this step hands to upsert_link

vars == <<ifVars, polled, heard, shown, claims>>

Claim == [local : Names \cup {NoIf}, peer : Devices \ {Switch},
          remote : Cards \cup {NoIf}, macs : SUBSET Cards]

----------------------------------------------------------------------------
(* An operator named F_... is a wrong variant of the operator it precedes; *)
(* no specification uses it.                                               *)

(* mac_ownership: the cards whose device is known, P polled and H heard.   *)
Owned(P, H) ==
    {c \in Cards : Holder[c] \in P \/ (Holder[c] \in H /\ Chassis[Holder[c]] = c)}

Macs(p, read) == {c \in read : PortOf[c] = p}

(* F: the bridge's own addresses count.                                    *)
F_Hits(p, read, owned) == Macs(p, read) \cap owned

Hits(p, read, owned) == {c \in Macs(p, read) \cap owned : Holder[c] # Switch}

Peers(p, read, owned) == {Holder[c] : c \in Hits(p, read, owned)}

(* The strict rule.                                                        *)
IsLeaf(p, read, owned) ==
    /\ Cardinality(Macs(p, read)) <= MaxLeafMacs
    /\ Cardinality(Peers(p, read, owned)) = 1

(* The one interface of the peer that the port shows, if it is one.        *)
Remote(hits, P) ==
    LET cards == {c \in hits : Holder[c] \in P}
    IN  IF Cardinality(cards) = 1 THEN CHOOSE c \in cards : TRUE ELSE NoIf

(* F: retired interfaces are found too.                                    *)
F_LocalPort(p, rows) ==
    LET found == {k \in DOMAIN rows : rows[k].index = index[p]}
    IN  IF found = {} THEN NoIf ELSE CHOOSE k \in found : TRUE

(* interface_by_ifindex: the active interface with the index of the port.  *)
LocalPort(p, rows) ==
    LET found == {k \in DOMAIN rows : rows[k].state = "active" /\ rows[k].index = index[p]}
    IN  IF found = {} THEN NoIf ELSE CHOOSE k \in found : TRUE

ClaimOf(p, read, rows, P, H) ==
    LET hits == Hits(p, read, Owned(P, H))
    IN  [local |-> LocalPort(p, rows), peer |-> Holder[CHOOSE c \in hits : TRUE],
         remote |-> Remote(hits, P), macs |-> hits]

----------------------------------------------------------------------------
(* Actions.                                                                *)

(* No step but a run concerns the database or claims anything.             *)
Silent ==
    /\ UNCHANGED <<polled, heard>>
    /\ shown' = {} /\ claims' = {}

Init ==
    /\ InterfacesInit
    /\ polled = {} /\ heard = {}
    /\ shown = {} /\ claims = {}

(* The walk of the bridge MIB, the last of a poll, and the run that carries*)
(* the poll: it polls the boxes P as well and hears of H.  The walk returns*)
(* any cards whose port is there: the database starts empty and forgets,   *)
(* and the walk may be cut short.  The ports come before the entries, so a *)
(* walk that returned an entry returned every port.                        *)
Run(P, H) ==
    /\ StoreInterfaces
    /\ polled' = polled \cup P \cup {Switch}
    /\ heard' = heard \cup H
    /\ shown' \in SUBSET {c \in Cards : PortOf[c] \in DOMAIN index}
    /\ claims' = {ClaimOf(p, shown', iface', polled', heard') :
                      p \in {q \in DOMAIN index : IsLeaf(q, shown', Owned(polled', heard'))}}

SomeRun == \E P \in SUBSET Pollable, H \in SUBSET Audible : Run(P, H)

ReadIfTable == WalkIfTable /\ Silent
ReadIfXTable == WalkIfXTable /\ Silent
Lose == DropPoll /\ Silent
Restart == Renumber /\ Silent

Next == SomeRun \/ ReadIfTable \/ ReadIfXTable \/ Lose \/ Restart

Spec == Init /\ [][Next]_vars

----------------------------------------------------------------------------
(* Properties.                                                             *)

(* Every variable keeps its type; no claim makes the bridge its own peer.  *)
TypeOK ==
    /\ IfTypeOK
    /\ polled \subseteq Devices /\ heard \subseteq Devices
    /\ shown \subseteq Cards
    /\ claims \subseteq Claim

(* The addresses of a claim were learned on another port than the one      *)
(* whose interface it names.                                               *)
Misplaced(o) ==
    o.local # NoIf /\ \E c \in o.macs : o.local \notin {NameOf[PortOf[c]], DescrOf[PortOf[c]]}

(* ifIndex "is the correlation key WITHIN a single poll ... It is not      *)
(* persisted as identity" (mib.py, 127-128): a run whose poll read one     *)
(* numbering, and any interface at all, claims no neighbour on a port its  *)
(* addresses were not learned on, wherever its walks were cut short and    *)
(* whatever earlier runs stored.                                           *)
RightPort ==
    [][poll.whole /\ Keys # {} => \A o \in claims' : ~Misplaced(o)]_vars

============================================================================
