----------------------------- MODULE MCIdentity -----------------------------
(***************************************************************************)
(* A small fleet: two mesh units that share a name and differ by chassis,  *)
(* and an honest router that never reports its own chassis (RouterOS).     *)
(***************************************************************************)
EXTENDS Identity, TLC

CONSTANTS mesh1, mesh2, router,          \* boxes
          nMesh, nRouter, nGeneric,      \* names
          m1, m2, m3, m4,                \* MAC addresses
          r1, r2,                        \* runs
          d1, d2, d3                     \* device ids

Chassis(v) == [type |-> "chassis_id", value |-> v]
Mac(v) == [type |-> "base_mac", value |-> v]
Name(v) == [type |-> "sysname", value |-> v]

MCBoxes == {mesh1, mesh2, router}
MCValues == {nMesh, nRouter, nGeneric, m1, m2, m3, m4}
MCGeneric == {nGeneric}

(* The first mesh unit is polled with or without its chassis (LLDP on or   *)
(* off) and sends no frames; the router gives its name and the address of  *)
(* one of two ports, and its frames give one of these as its chassis.      *)
MCPolls ==
    [b \in MCBoxes |->
        CASE b = mesh1 -> {{Chassis(m1), Name(nMesh)}, {Name(nMesh)}}
          [] b = mesh2 -> {{Chassis(m2), Name(nMesh)}}
          [] b = router -> {{Mac(m3), Name(nRouter)}, {Mac(m4), Name(nRouter)}}]

MCFrames ==
    [b \in MCBoxes |->
        CASE b = mesh1 -> {}
          [] b = mesh2 -> {[chassis |-> m2, name |-> nMesh]}
          [] b = router -> {[chassis |-> m3, name |-> nRouter]}]

(* At most one box is ever in the hands of two runs.                       *)
OneRaced == Cardinality(raced) <= 1

Permuted == Permutations(Runs) \cup Permutations(DeviceIds)

=============================================================================
