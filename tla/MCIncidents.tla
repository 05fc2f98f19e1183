---------------------------- MODULE MCIncidents -----------------------------
(***************************************************************************)
(* A vantage and three other devices, one target each, under every network *)
(* of at most four cables: all the trees, all with one loop, all the parts.*)
(***************************************************************************)
EXTENDS Incidents, TLC

CONSTANTS mon, x, y, z

MCDevices == {mon, x, y, z}
MCDeviceOf == [t \in MCDevices |-> t]
MCPairs == {c \in SUBSET MCDevices : Cardinality(c) = 2}
MCNetworks == {net \in SUBSET MCPairs : Cardinality(net) <= 4}
\* x is set apart: its view may be restricted.
MCSymmetry == Permutations({y, z})

=============================================================================
