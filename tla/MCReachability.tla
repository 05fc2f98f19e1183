--------------------------- MODULE MCReachability ---------------------------
(***************************************************************************)
(* Two open requests.  In the runs of two sites their inventories share no *)
(* name; in the runs of one site both post the same inventory.             *)
(***************************************************************************)
EXTENDS Reachability

CONSTANTS r1, r2, a, b, c, d1, d2

Ok(t, d) == [target |-> t, status |-> "ok", device |-> d]
Down(t) == [target |-> t, status |-> "unreachable", device |-> NoDevice]
Hidden(t) == [target |-> t, status |-> "filtered", device |-> NoDevice]

(* A poll of a answers with its device, not at all, or, replaced, with     *)
(* another device; b answers with an identity or without one.              *)
OfA == {Ok(a, d1), Down(a), Ok(a, d2)}
OfB == {Ok(b, d2), Ok(b, NoDevice), Hidden(b)}
OfC == {Ok(c, d2), Down(c)}

(* An exception in the collector leaves a target out of a run.             *)
SiteBatches ==
    [q \in {r1, r2} |->
        IF q = r1 THEN {<<x, y>> : x \in OfA, y \in OfB} \cup {<<y>> : y \in OfB} \cup {<<>>}
        ELSE {<<z>> : z \in OfC \cup {Ok(c, Generic)}}]

OneSiteBatches ==
    [q \in {r1, r2} |-> {<<x>> : x \in OfA}]

(* A second device of the site answers with nothing but a generic name.    *)
NamelessBatches ==
    [q \in {r1, r2} |->
        {<<x, y>> : x \in OfA, y \in {Ok(b, d2), Ok(b, Generic)}}]

=============================================================================
