------------------------------- MODULE MCFdb -------------------------------
(***************************************************************************)
(* A bridge with two ports, one of them with an ifDescr of its own.  An    *)
(* access point hangs off it, reflects the bridge's own frames, and has a  *)
(* host behind it.                                                         *)
(***************************************************************************)
EXTENDS Fdb

CONSTANTS sw, ap, host, cSw, cAp, cHost, e1, e2, d1

MCNames == {e1, e2, d1}
MCNameOf == [p \in Ports |-> p]
MCDescrOf == [p \in Ports |-> IF p = e1 THEN d1 ELSE p]

MCDevices == {sw, ap, host}
MCCards == {cSw, cAp, cHost}
MCHolder == [c \in MCCards |-> CASE c = cSw -> sw [] c = cAp -> ap [] OTHER -> host]
MCChassis == [d \in MCDevices |-> CASE d = sw -> cSw [] d = ap -> cAp [] OTHER -> NoCard]
MCPortOf == [c \in MCCards |-> e1]

(* The first port is always there, no run follows the first poll that read *)
(* two numberings, and none follows one that knew just one of the two.     *)
Bounded == e1 \in DOMAIN index /\ ~torn /\ (host \in polled <=> ap \in heard)

============================================================================
