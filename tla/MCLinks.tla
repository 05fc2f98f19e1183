------------------------------ MODULE MCLinks ------------------------------
(***************************************************************************)
(* Instances of Links for TLC.  Device 1 is a router that leaves the ports *)
(* out, device 2 a switch that names its port.  p3 is a VLAN interface of  *)
(* device 1: its addresses may be learned where p1 is connected.           *)
(***************************************************************************)
EXTENDS Links

CONSTANTS p1, p2, p3, q1   \* interfaces of devices 1 and 2

MCPorts == {p1, p2, p3, q1}
MCOwner == [i \in MCPorts |-> IF i \in {p1, p2, p3} THEN 1 ELSE 2]

(* SOURCE_BASE of collector/topology.py, for the sources the code uses.    *)
MCSources == {"lldp", "mac_table"}
MCSourceBase == [s \in MCSources |-> IF s = "lldp" THEN 65 ELSE 40]

OneCable == {{p1, q1}}
(* A cable between two ports of one switch: heard, and never a link.       *)
WithLoop == OneCable \cup {{p1, p2}}

MCFaces == [i \in MCPorts |-> IF i = p1 THEN {p1, p3, NoIf} ELSE {i}]

(* Every address belongs to the port it is learned from.                   *)
OwnFaces == [i \in MCPorts |-> {i}]

SwitchSights == {x \in Sights : Owner[x[2]] = 2}

============================================================================
