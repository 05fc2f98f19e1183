-------------------------- MODULE IncidentsProofs ---------------------------
(***************************************************************************)
(* The incident report against the real network, for every network.        *)
(***************************************************************************)
EXTENDS Incidents, TLAPS

Graph(edges) == \A c \in edges : \E a, b \in Devices : a # b /\ c = {a, b}

----------------------------------------------------------------------------
(* Reach is the least closed set.                                          *)

LEMMA ReachFacts ==
    ASSUME NEW edges, Graph(edges), NEW skip, NEW start \in Devices, start \notin skip
    PROVE  LET R == Reach(start, edges, skip)
           IN  /\ R \in SUBSET Devices /\ start \in R /\ R \cap skip = {}
               /\ Closed(R, edges, skip)
<1> DEFINE R == Reach(start, edges, skip)
<1>1. R \in SUBSET Devices /\ start \in R
  BY DEF Reach
<1>2. R \cap skip = {}
  <2>1. Closed(Devices \ skip, edges, skip)
    BY DEF Closed, Graph
  <2>2. Devices \ skip \in SUBSET Devices /\ start \in Devices \ skip
    OBVIOUS
  <2> QED  BY <2>1, <2>2 DEF Reach
<1>3. ASSUME NEW c \in edges, NEW x \in c \cap R, NEW y \in c, y \notin skip
      PROVE  y \in R
  <2>1. y \in Devices
    BY <1>3 DEF Graph
  <2>2. ASSUME NEW S \in SUBSET Devices, start \in S, Closed(S, edges, skip)
        PROVE  y \in S
    <3>1. x \in S
      BY <1>3, <2>2 DEF Reach
    <3> QED  BY <1>3, <2>2, <3>1 DEF Closed
  <2> QED  BY <2>1, <2>2 DEF Reach
<1>4. Closed(R, edges, skip)
  BY <1>3 DEF Closed
<1> QED  BY <1>1, <1>2, <1>4

LEMMA ReachLeast ==
    ASSUME NEW edges, NEW skip, NEW start \in Devices,
           NEW S \in SUBSET Devices, start \in S, Closed(S, edges, skip)
    PROVE  Reach(start, edges, skip) \subseteq S
BY DEF Reach

(* What a closed set holds of a cable, it holds of both ends.              *)
LEMMA ReachCrosses ==
    ASSUME NEW S, NEW edges, NEW skip, Closed(S, edges, skip),
           NEW c \in edges, NEW x \in c, x \in S, NEW y \in c
    PROVE  y \in S \/ y \in skip
BY DEF Closed

----------------------------------------------------------------------------
(* The record of the network.                                              *)

LEMMA LinksGraph ==
    ASSUME TypeOK
    PROVE  Graph(cables) /\ Graph(Links) /\ Links \subseteq cables
BY NetworkAssumption DEF TypeOK, Graph, Links

LEMMA LiveFacts ==
    ASSUME TypeOK, Vantage \notin failed
    PROVE  /\ Live \in SUBSET Devices /\ Vantage \in Live /\ Live \cap failed = {}
           /\ Closed(Live, cables, failed)
BY LinksGraph, ReachFacts, NetworkAssumption DEF Live

LEMMA DownFacts ==
    ASSUME TypeOK
    PROVE  Down \subseteq Devices
BY NetworkAssumption DEF TypeOK, Down

LEMMA CurrentFacts ==
    ASSUME TypeOK, AllPolled, Current
    PROVE  /\ \A d \in Devices : d \notin Live => d \in Down
           /\ \A d \in Devices : d \notin Down => d \in Live
           /\ \A d \in Down : d \in Devices /\ (d \in Live => Broken(d))
           /\ KnownDevices = Devices
<1>1. \A t \in Targets : row[t] = IF DeviceOf[t] \notin Live THEN "unreachable"
                                  ELSE IF t \in restricted THEN "filtered" ELSE "ok"
  BY DEF Current, Answers
<1>2. placed = Targets
  BY DEF Current
<1>3. \A d \in Devices : d \notin Live => d \in Down
  BY <1>1, <1>2 DEF AllPolled, Down
<1>4. \A d \in Down : d \in Devices /\ (d \in Live => Broken(d))
  BY <1>1, <1>2, NetworkAssumption DEF Down, Broken
<1>5. KnownDevices = Devices
  <2>1. \A c \in Links : c \subseteq Devices
    BY LinksGraph DEF Graph
  <2>2. {DeviceOf[t] : t \in placed} = Devices
    BY <1>2, NetworkAssumption DEF AllPolled
  <2> QED  BY <2>1, <2>2 DEF KnownDevices
<1> QED  BY <1>3, <1>4, <1>5

(* In an open network the down devices are those no packet comes to.       *)
LEMMA OpenFacts ==
    ASSUME TypeOK, AllPolled, Current, restricted = {}
    PROVE  Down = Devices \ Live
<1>1. \A d \in Down : d \notin Live
  <2> SUFFICES ASSUME NEW d \in Down, d \in Live
               PROVE  FALSE
    OBVIOUS
  <2>1. d \in failed
    BY CurrentFacts DEF Broken
  <2>2. Live = {} \/ Vantage \notin failed
    BY DEF Live, Reach
  <2> QED  BY <2>1, <2>2, LiveFacts
<1> QED  BY <1>1, CurrentFacts

LEMMA ConcludesFacts ==
    ASSUME TypeOK, AllPolled, Current, Concludes
    PROVE  /\ Vantage \in Live /\ Vantage \notin failed /\ Vantage \notin Down
<1>1. Vantage \in Live
  BY CurrentFacts, NetworkAssumption DEF Concludes
<1>2. Vantage \notin failed
  BY <1>1 DEF Live, Reach
<1> QED  BY <1>1, <1>2 DEF Concludes

(* What the engine walks, with and without the down devices.               *)
LEMMA ScopeFacts ==
    ASSUME TypeOK
    PROVE  /\ InScope \in SUBSET Devices /\ Vantage \in InScope
           /\ Closed(InScope, Links, {})
           /\ \A S \in SUBSET Devices :
                 Vantage \in S /\ Closed(S, Links, {}) => InScope \subseteq S
<1>1. Graph(Links) /\ Vantage \in Devices
  BY LinksGraph, NetworkAssumption
<1> QED  BY <1>1, ReachFacts, ReachLeast DEF InScope

LEMMA NowFacts ==
    ASSUME TypeOK, Concludes
    PROVE  /\ ReachableNow \in SUBSET Devices /\ Vantage \in ReachableNow
           /\ ReachableNow \cap Down = {}
           /\ Closed(ReachableNow, Links, Down)
           /\ \A S \in SUBSET Devices :
                 Vantage \in S /\ Closed(S, Links, Down) => ReachableNow \subseteq S
<1>1. Graph(Links) /\ Vantage \in Devices /\ Vantage \notin Down
  BY LinksGraph, NetworkAssumption DEF Concludes
<1> QED  BY <1>1, ReachFacts, ReachLeast DEF ReachableNow

(* A group is made of down devices in scope, and holds its neighbours.     *)
LEMMA GroupFacts ==
    ASSUME TypeOK, NEW d \in Scoped
    PROVE  LET g == Group(d, Scoped)
           IN  /\ d \in g /\ g \subseteq Scoped /\ g \in SUBSET Devices
               /\ Closed(g, Links, Devices \ Scoped)
               /\ \A S \in SUBSET Devices :
                     d \in S /\ Closed(S, Links, Devices \ Scoped) => g \subseteq S
<1>1. d \in Devices /\ d \notin Devices \ Scoped
  BY DownFacts DEF Scoped
<1>2. Graph(Links)
  BY LinksGraph
<1>3. LET g == Group(d, Scoped)
      IN  /\ g \in SUBSET Devices /\ d \in g /\ g \cap (Devices \ Scoped) = {}
          /\ Closed(g, Links, Devices \ Scoped)
  BY <1>1, <1>2, ReachFacts DEF Group
<1> QED  BY <1>1, <1>3, ReachLeast DEF Group

LEMMA GroupOf ==
    ASSUME NEW g \in Incidents
    PROVE  Concludes /\ \E d \in Scoped : g = Group(d, Scoped)
BY DEF Incidents

(* Groups that share a device are one.                                     *)
LEMMA GroupsDisjoint ==
    ASSUME TypeOK, NEW u \in Scoped, NEW d \in Group(u, Scoped)
    PROVE  d \in Scoped /\ Group(u, Scoped) = Group(d, Scoped)
<1> DEFINE skip == Devices \ Scoped
           gu == Group(u, Scoped)
           gd == Group(d, Scoped)
<1>1. gu \subseteq Scoped /\ gu \in SUBSET Devices /\ Closed(gu, Links, skip) /\ u \in gu
  BY GroupFacts
<1>2. d \in Scoped
  BY <1>1
<1>3. gd \subseteq Scoped /\ gd \in SUBSET Devices /\ Closed(gd, Links, skip) /\ d \in gd
  BY <1>2, GroupFacts
<1>4. u \in Devices /\ d \in Devices
  BY <1>1
<1>5. gd \subseteq gu
  BY <1>1, <1>4, ReachLeast DEF Group
<1>6. u \in gd
  <2> SUFFICES ASSUME u \notin gd
               PROVE  FALSE
    OBVIOUS
  <2> DEFINE S == gu \ gd
  <2>1. Closed(S, Links, skip)
    <3> SUFFICES ASSUME NEW c \in Links, NEW x \in c, x \in S, NEW y \in c,
                        y \notin skip
                 PROVE  y \in S
      BY DEF Closed
    <3>1. y \in gu
      BY <1>1, ReachCrosses
    <3>2. y \notin gd
      <4> SUFFICES ASSUME y \in gd
                   PROVE  FALSE
        OBVIOUS
      <4>1. x \in gd \/ x \in skip
        BY <1>3, ReachCrosses
      <4> QED  BY <1>1, <4>1
    <3> QED  BY <3>1, <3>2
  <2>2. S \in SUBSET Devices /\ u \in S
    BY <1>1
  <2>3. gu \subseteq S
    <3> HIDE DEF S
    <3> QED  BY <1>4, <2>1, <2>2, ReachLeast DEF Group
  <2> QED  BY <1>3, <2>3
<1>7. gu \subseteq gd
  BY <1>3, <1>4, <1>6, ReachLeast DEF Group
<1> QED  BY <1>2, <1>5, <1>7

(* A neighbour of a group that is not in it is not known to be down.       *)
LEMMA OutsideGroup ==
    ASSUME TypeOK, NEW g \in Incidents, NEW c \in Links,
           NEW x \in c, x \notin g, NEW y \in c, y \in g
    PROVE  x \in InScope /\ x \notin Down
<1>1. /\ g \subseteq Scoped /\ g \in SUBSET Devices
      /\ Closed(g, Links, Devices \ Scoped)
  <2>1. PICK d \in Scoped : g = Group(d, Scoped)
    BY GroupOf
  <2> QED  BY <2>1, GroupFacts
<1>2. x \in InScope
  BY <1>1, ScopeFacts, ReachCrosses DEF Scoped
<1>3. x \notin Scoped
  BY <1>1, ReachCrosses
<1> QED  BY <1>2, <1>3 DEF Scoped

----------------------------------------------------------------------------
(* The reports.                                                            *)

(* The part of the network the engine walks without a down device really   *)
(* answers.                                                                *)
LEMMA NowIsLive ==
    ASSUME TypeOK, AllPolled, Current, Concludes
    PROVE  ReachableNow \subseteq Live
<1>1. /\ Live \in SUBSET Devices /\ Vantage \in Live
  BY LiveFacts, ConcludesFacts
<1>2. Closed(Live, Links, Down)
  <2> SUFFICES ASSUME NEW c \in Links, NEW x \in c, x \in Live, NEW y \in c,
                      y \notin Live
               PROVE  y \in Down
    BY DEF Closed
  <2>1. y \in Devices
    BY LinksGraph DEF Graph
  <2> QED  BY <2>1, CurrentFacts
<1> QED  BY <1>1, <1>2, NowFacts

LEMMA RootsFailedNow ==
    ASSUME TypeOK
    PROVE  RootsFailed
<1> SUFFICES ASSUME AllPolled, Current, NEW g \in Incidents, NEW d \in Roots(g)
             PROVE  Broken(d)
  BY DEF RootsFailed
<1>1. Concludes /\ d \in Down
  <2>1. Concludes /\ g \subseteq Scoped
    BY GroupOf, GroupFacts
  <2> QED  BY <2>1 DEF Roots, Scoped
<1>2. PICK c \in Links : d \in c /\ \E n \in c : n \in ReachableNow
  BY DEF Roots, Touches
<1>3. PICK n \in c : n \in Live
  BY <1>1, <1>2, NowIsLive
<1>4. Closed(Live, cables, failed) /\ c \in cables
  BY <1>1, LiveFacts, ConcludesFacts, LinksGraph
<1>5. d \in Live \/ d \in failed
  BY <1>2, <1>3, <1>4, ReachCrosses
<1> QED  BY <1>1, <1>5, CurrentFacts DEF Broken

(* An incident without a root cause, or a path to a suppressed device that *)
(* avoids the root causes, would enter the group from a device that is not *)
(* known to be down; without a gap the engine reaches that device now.     *)
LEMMA RootsExplainNow ==
    ASSUME TypeOK
    PROVE  RootsExplain
<1> SUFFICES ASSUME NoGap, NEW g \in Incidents
             PROVE  /\ Roots(g) # {}
                    /\ Suppressed(g) \cap Reach(Vantage, Links, Roots(g)) = {}
  BY DEF RootsExplain
<1> DEFINE S == Devices \ g
<1>1. PICK d \in Scoped : g = Group(d, Scoped)
  BY GroupOf
<1>2. d \in g /\ g \subseteq Scoped /\ g \in SUBSET Devices /\ Concludes
  BY <1>1, GroupOf, GroupFacts
<1>3. Closed(S, Links, Roots(g))
  <2> SUFFICES ASSUME NEW c \in Links, NEW x \in c, x \notin g, NEW y \in c, y \in g
               PROVE  y \in Roots(g)
    <3>1. \A c \in Links : c \subseteq Devices
      BY LinksGraph DEF Graph
    <3> QED  BY <3>1 DEF Closed
  <2>1. x \in ReachableNow
    BY OutsideGroup DEF NoGap
  <2> QED  BY <2>1 DEF Roots, Touches
<1>4. Vantage \in S /\ S \in SUBSET Devices /\ Vantage \in Devices
  BY <1>2, NetworkAssumption DEF Scoped, Concludes
<1>5. Reach(Vantage, Links, Roots(g)) \subseteq S
  <2> HIDE DEF S
  <2> QED  BY <1>3, <1>4, ReachLeast
<1>6. Roots(g) # {}
  <2> SUFFICES ASSUME Roots(g) = {}
               PROVE  FALSE
    OBVIOUS
  <2>1. d \in InScope
    BY DEF Scoped
  <2>2. InScope \subseteq S
    BY <1>5 DEF InScope
  <2> QED  BY <1>2, <2>1, <2>2
<1> QED  BY <1>5, <1>6 DEF Suppressed

(* With one failure all that is down is one group, as what enters it would *)
(* come from another device that failed; and the group has a root cause,   *)
(* as otherwise nothing in scope would be down.                            *)
LEMMA SingleFailureNow ==
    ASSUME TypeOK
    PROVE  SingleFailureOneIncident
<1> SUFFICES ASSUME AllPolled, Current, restricted = {},
                    NEW f \in InScope \ {Vantage}, failed = {f}
             PROVE  \E g \in Incidents : Incidents = {g} /\ Roots(g) = {f}
  BY DEF SingleFailureOneIncident
<1>1. f \in Devices
  BY ScopeFacts
<1>2. /\ Live \in SUBSET Devices /\ Vantage \in Live /\ f \notin Live
      /\ Closed(Live, cables, {f})
  BY LiveFacts
<1>3. Down = Devices \ Live
  BY OpenFacts
<1>4. Concludes
  BY <1>2, <1>3, CurrentFacts, NetworkAssumption DEF Concludes
<1>5. f \in Scoped
  BY <1>1, <1>2, <1>3 DEF Scoped
<1> DEFINE g == Group(f, Scoped)
<1>6. f \in g /\ g \subseteq Scoped /\ g \in SUBSET Devices /\ g \in Incidents
  BY <1>4, <1>5, GroupFacts DEF Incidents
<1>7. Scoped \subseteq g
  <2> DEFINE S == (Devices \ Scoped) \cup g
  <2>1. Closed(S, Links, {})
    <3> SUFFICES ASSUME NEW c \in Links, NEW x \in c, x \in S, NEW y \in c,
                        y \in Scoped, y \notin g
                 PROVE  FALSE
      <4>1. \A c \in Links : c \subseteq Devices
        BY LinksGraph DEF Graph
      <4> QED  BY <4>1 DEF Closed
    <3>1. y \in InScope /\ y \notin Live /\ y # f
      BY <1>3, <1>6 DEF Scoped
    <3>2. x \notin g
      BY <1>5, <3>1, GroupFacts, ReachCrosses
    <3>3. x \in InScope /\ x \in Devices
      BY <3>1, ScopeFacts, ReachCrosses
    <3>4. x \in Live
      BY <1>3, <3>2, <3>3 DEF Scoped
    <3>5. c \in cables
      BY LinksGraph
    <3> QED  BY <1>2, <3>1, <3>4, <3>5, ReachCrosses
  <2>2. Vantage \in S /\ S \in SUBSET Devices
    BY <1>2, <1>3, <1>6, NetworkAssumption DEF Scoped
  <2>3. InScope \subseteq S
    <3> HIDE DEF S
    <3> QED  BY <2>1, <2>2, ScopeFacts
  <2> QED  BY <2>3 DEF Scoped
<1>8. \A u \in Scoped : Group(u, Scoped) = g
  BY <1>5, <1>7, GroupsDisjoint
<1>9. Incidents = {g}
  BY <1>4, <1>5, <1>8 DEF Incidents
<1>10. Roots(g) \subseteq {f}
  BY <1>6, RootsFailedNow DEF RootsFailed, Broken
<1>11. f \in Roots(g)
  <2> SUFFICES ASSUME f \notin Roots(g)
               PROVE  FALSE
    OBVIOUS
  <2>1. Closed(ReachableNow, Links, {})
    <3> SUFFICES ASSUME NEW c \in Links, NEW x \in c, x \in ReachableNow,
                        NEW y \in c, y \notin ReachableNow
                 PROVE  FALSE
      BY DEF Closed
    <3>1. y \in Down
      BY <1>4, NowFacts, ReachCrosses
    <3>2. y \in InScope
      <4>1. ReachableNow \subseteq InScope
        <5>1. Closed(InScope, Links, Down)
          BY ScopeFacts DEF Closed
        <5> QED  BY <1>4, <5>1, ScopeFacts, NowFacts
      <4> QED  BY <4>1, ScopeFacts, ReachCrosses
    <3>3. y \in g
      BY <1>7, <3>1, <3>2 DEF Scoped
    <3>4. x # y
      BY <3>1, <1>4, NowFacts
    <3>5. y \in Roots(g)
      BY <3>3, <3>4 DEF Roots, Touches
    <3> QED  BY <1>10, <3>5
  <2>2. InScope \subseteq ReachableNow
    BY <1>4, <2>1, NowFacts, ScopeFacts
  <2> QED  BY <1>4, <2>2, <1>5, NowFacts DEF Scoped
<1>12. Roots(g) = {f}
  BY <1>10, <1>11
<1> QED  BY <1>6, <1>9, <1>12

(* In a tree, what lies behind a cable from a device the engine reaches to *)
(* a down one is cut off, and the down one failed.                         *)
LEMMA BehindCable ==
    ASSUME TypeOK, AllPolled, Current, restricted = {}, Tree, Concludes,
           NEW c \in Links, NEW u \in c, u \in ReachableNow,
           NEW f \in c, f \in Down
    PROVE  LET Z == Reach(f, cables \ {c}, {})
           IN  /\ c = {u, f} /\ u \notin Z /\ f \in Z /\ f \in failed
               /\ Z \in SUBSET Devices /\ Closed(Z, cables \ {c}, {})
               /\ Z \cap Live = {} /\ Z \cap Reach(Vantage, cables, {f}) = {}
<1> DEFINE Z == Reach(f, cables \ {c}, {})
<1>1. u # f /\ u \in Live /\ c \in cables /\ f \in Devices /\ f \notin Live
  BY NowFacts, NowIsLive, OpenFacts, LinksGraph
<1>2. c = {u, f}
  BY <1>1, LinksGraph DEF Graph
<1>3. u \notin Z
  BY <1>1 DEF Tree
<1>4. f \in Z /\ Z \in SUBSET Devices /\ Closed(Z, cables \ {c}, {})
  <2>1. Graph(cables \ {c})
    BY LinksGraph DEF Graph
  <2> QED  BY <1>1, <2>1, ReachFacts
<1>5. /\ Live \in SUBSET Devices /\ Vantage \in Live /\ Vantage \in Devices
      /\ Closed(Live, cables, failed)
  BY ConcludesFacts, LiveFacts, NetworkAssumption
<1> HIDE DEF Z
<1>6. ASSUME NEW e \in cables, NEW x \in e, x \notin Z, NEW y \in e, y \in Z
      PROVE  y = f
  <2>1. e = c
    <3> SUFFICES ASSUME e # c
                 PROVE  FALSE
      OBVIOUS
    <3>1. e \in cables \ {c}
      OBVIOUS
    <3> QED  BY <1>4, <1>6, <3>1, ReachCrosses
  <2> QED  BY <1>2, <1>3, <1>6, <2>1
<1>7. f \in failed
  BY <1>1, <1>5, ReachCrosses
<1>8. Vantage \notin Z
  <2> SUFFICES ASSUME Vantage \in Z
               PROVE  FALSE
    OBVIOUS
  <2> DEFINE S == ReachableNow \cap Z
  <2>1. Closed(S, Links, Down)
    <3> SUFFICES ASSUME NEW e \in Links, NEW x \in e, x \in S, NEW y \in e,
                        y \notin Down
                 PROVE  y \in S
      BY DEF Closed
    <3>1. y \in ReachableNow
      BY NowFacts, ReachCrosses
    <3>2. x # f /\ e \in cables
      BY NowFacts, LinksGraph
    <3>3. y \in Z
      BY <1>6, <3>2
    <3> QED  BY <3>1, <3>3
  <2>2. S \in SUBSET Devices /\ Vantage \in S
    BY NowFacts
  <2>3. ReachableNow \subseteq S
    <3> HIDE DEF S
    <3> QED  BY <2>1, <2>2, NowFacts
  <2> QED  BY <1>3, <2>3
<1>9. Z \cap Live = {}
  <2> DEFINE S == Live \ Z
  <2>1. Closed(S, cables, failed)
    <3> SUFFICES ASSUME NEW e \in cables, NEW x \in e, x \in S, NEW y \in e,
                        y \notin failed
                 PROVE  y \in S
      BY DEF Closed
    <3>1. y \in Live
      BY <1>5, ReachCrosses
    <3> QED  BY <1>1, <1>6, <3>1
  <2>2. Vantage \in S /\ S \in SUBSET Devices
    BY <1>5, <1>8
  <2>3. Live \subseteq S
    <3> HIDE DEF S
    <3> QED  BY <1>5, <2>1, <2>2, ReachLeast DEF Live
  <2> QED  BY <2>3
<1>10. Z \cap Reach(Vantage, cables, {f}) = {}
  <2> DEFINE S == Devices \ Z
  <2>1. Closed(S, cables, {f})
    <3> SUFFICES ASSUME NEW e \in cables, NEW x \in e, x \in S, NEW y \in e,
                        y # f
                 PROVE  y \in S
      BY DEF Closed
    <3>1. y \in Devices
      BY LinksGraph DEF Graph
    <3> QED  BY <1>6, <3>1
  <2>2. Vantage \in S /\ S \in SUBSET Devices
    BY <1>5, <1>8
  <2>3. Reach(Vantage, cables, {f}) \subseteq S
    <3> HIDE DEF S
    <3> QED  BY <1>5, <2>1, <2>2, ReachLeast
  <2> QED  BY <2>3
<1> QED  BY <1>2, <1>3, <1>4, <1>7, <1>9, <1>10 DEF Z

(* So in a tree no device is discovered only behind down ones and up.      *)
LEMMA TreeHasNoGap ==
    ASSUME TypeOK, AllPolled, Current, restricted = {}, Tree, Concludes
    PROVE  NoGap
<1> DEFINE Border(c, u, f) ==
               u \in c /\ f \in c /\ u \in ReachableNow /\ f \in Down
           Z(c, f) == Reach(f, cables \ {c}, {})
           Behind == {x \in Devices : \E c \in Links, u, f \in Devices :
                                         Border(c, u, f) /\ x \in Z(c, f)}
           S == ReachableNow \cup Behind
<1>1. Closed(S, Links, {})
  <2> SUFFICES ASSUME NEW e \in Links, NEW x \in e, x \in S, NEW y \in e
               PROVE  y \in S
    BY DEF Closed
  <2>1. x \in Devices /\ y \in Devices /\ e \in cables
    BY LinksGraph DEF Graph
  <2>2. CASE x \in ReachableNow
    <3>1. y \in ReachableNow \/ y \in Down
      BY <2>2, NowFacts, ReachCrosses
    <3>2. ASSUME y \in Down
          PROVE  y \in Behind
      <4>1. Border(e, x, y)
        BY <2>2, <3>2
      <4>2. y \in Z(e, y)
        BY <2>2, <3>2, BehindCable
      <4> QED  BY <2>1, <4>1, <4>2
    <3> QED  BY <3>1, <3>2
  <2>3. ASSUME NEW c \in Links, NEW u \in Devices, NEW f \in Devices,
               Border(c, u, f), x \in Z(c, f)
        PROVE  y \in S
    <3>1. /\ c = {u, f} /\ f \in Z(c, f)
          /\ Z(c, f) \in SUBSET Devices /\ Closed(Z(c, f), cables \ {c}, {})
      BY <2>3, BehindCable
    <3>2. CASE e = c
      <4>1. y = u \/ y = f
        BY <3>1, <3>2
      <4> QED  BY <2>3, <3>1, <4>1
    <3>3. CASE e # c
      <4>1. e \in cables \ {c}
        BY <2>1, <3>3
      <4>2. y \in Z(c, f)
        BY <2>3, <3>1, <4>1, ReachCrosses
      <4> QED  BY <2>1, <2>3, <4>2
    <3> QED  BY <3>2, <3>3
  <2> QED  BY <2>2, <2>3
<1>2. Vantage \in S /\ S \in SUBSET Devices
  BY NowFacts
<1>3. Behind \subseteq Down
  <2> SUFFICES ASSUME NEW x \in Devices, NEW c \in Links,
                      NEW u \in Devices, NEW f \in Devices,
                      Border(c, u, f), x \in Z(c, f)
               PROVE  x \in Down
    OBVIOUS
  <2>1. Z(c, f) \cap Live = {}
    BY BehindCable
  <2> QED  BY <2>1, OpenFacts
<1>4. InScope \subseteq S
  <2> HIDE DEF S
  <2> QED  BY <1>1, <1>2, ScopeFacts
<1> QED  BY <1>3, <1>4 DEF NoGap

LEMMA TreeOutagesNow ==
    ASSUME TypeOK
    PROVE  TreeOutages
<1> SUFFICES ASSUME AllPolled, Current, restricted = {}, Tree, NEW g \in Incidents
             PROVE  \E r \in failed : /\ Roots(g) = {r}
                                       /\ (g \ {r}) \cap Reach(Vantage, cables, {r}) = {}
  BY DEF TreeOutages
<1>1. PICK d \in Scoped : g = Group(d, Scoped)
  BY GroupOf
<1>2. g \subseteq Scoped /\ g \in SUBSET Devices /\ Concludes
  BY <1>1, GroupOf, GroupFacts
<1>3. PICK f \in g : f \in Roots(g)
  <2>1. Roots(g) # {}
    BY <1>2, TreeHasNoGap, RootsExplainNow DEF RootsExplain
  <2> QED  BY <2>1 DEF Roots
<1>4. f \in Down /\ f \in Scoped
  BY <1>2 DEF Scoped
<1>5. PICK c \in Links : f \in c /\ \E n \in c : n \in ReachableNow
  BY <1>3 DEF Roots, Touches
<1>6. PICK u \in c : u \in ReachableNow
  BY <1>5
<1> DEFINE Z == Reach(f, cables \ {c}, {})
<1>7. /\ c = {u, f} /\ f \in Z /\ f \in failed
      /\ Z \in SUBSET Devices /\ Closed(Z, cables \ {c}, {})
      /\ Z \cap Live = {} /\ Z \cap Reach(Vantage, cables, {f}) = {}
  <2>1. Concludes /\ f \in c /\ u \in c /\ u \in ReachableNow /\ f \in Down
    BY <1>2, <1>4, <1>5, <1>6
  <2> QED  BY <2>1, BehindCable
<1> HIDE DEF Z
<1>8. ASSUME NEW e \in Links, e # c, NEW x \in e, x \in Z, NEW y \in e
      PROVE  y \in Z
  <2>1. e \in cables \ {c}
    BY <1>8, LinksGraph
  <2> QED  BY <1>7, <1>8, <2>1, ReachCrosses
<1>9. g \subseteq Z
  <2>1. g = Group(f, Scoped)
    BY <1>1, GroupsDisjoint
  <2> DEFINE S == g \cap Z
  <2>2. Closed(S, Links, Devices \ Scoped)
    <3> SUFFICES ASSUME NEW e \in Links, NEW x \in e, x \in S, NEW y \in e,
                        y \notin Devices \ Scoped
                 PROVE  y \in S
      BY DEF Closed
    <3>1. y \in g
      BY <1>4, <2>1, GroupFacts, ReachCrosses
    <3>2. CASE e = c
      <4>1. y # u
        BY <1>2, <1>6, <3>1, NowFacts DEF Scoped
      <4> QED  BY <1>7, <3>1, <3>2, <4>1
    <3>3. CASE e # c
      BY <1>8, <3>1, <3>3
    <3> QED  BY <3>2, <3>3
  <2>3. S \in SUBSET Devices /\ f \in S
    BY <1>2, <1>7
  <2>4. g \subseteq S
    <3> HIDE DEF S
    <3> QED  BY <1>4, <2>1, <2>2, <2>3, GroupFacts
  <2> QED  BY <2>4
<1>10. ASSUME NEW r \in Roots(g)
       PROVE  r = f
  <2>1. r \in g /\ r \in Down
    BY <1>2 DEF Roots, Scoped
  <2>2. PICK e \in Links : r \in e /\ \E n \in e : n \in ReachableNow
    BY DEF Roots, Touches
  <2>3. PICK n \in e : n \in ReachableNow
    BY <2>2
  <2>4. n \in Live /\ n \notin Z
    BY <1>2, <1>7, <2>3, NowIsLive
  <2>5. e = c
    BY <1>8, <1>9, <2>1, <2>2, <2>3, <2>4
  <2>6. r # u
    BY <1>2, <1>6, <2>1, NowFacts
  <2> QED  BY <1>7, <2>2, <2>5, <2>6
<1>11. Roots(g) = {f}
  BY <1>3, <1>10
<1>12. (g \ {f}) \cap Reach(Vantage, cables, {f}) = {}
  BY <1>7, <1>9
<1> QED  BY <1>7, <1>11, <1>12

LEMMA OutagesReportedNow ==
    ASSUME TypeOK
    PROVE  EveryOutageReported
<1> SUFFICES ASSUME AllPolled, Current, Vantage \notin failed, Vantage \notin Down,
                    NEW d \in Reach(Vantage, found, {}) \ Live
             PROVE  d \in UNION Incidents
  BY DEF EveryOutageReported
<1>1. d \in Devices /\ d \in Down /\ d \in InScope
  BY CurrentFacts DEF InScope, Reach, Links
<1>2. d \in Group(d, Scoped)
  BY <1>1, GroupFacts DEF Scoped
<1>3. Concludes
  BY CurrentFacts, NetworkAssumption DEF Concludes
<1> QED  BY <1>1, <1>2, <1>3 DEF Incidents, Scoped

----------------------------------------------------------------------------
(* The specification.                                                      *)

LEMMA TypeInit == Init => TypeOK
BY DEF Init, TypeOK

LEMMA TypeStep == TypeOK /\ [Next]_vars => TypeOK'
<1> SUFFICES ASSUME TypeOK, [Next]_vars
             PROVE  TypeOK'
  OBVIOUS
<1>1. CASE Run
  <2>1. PICK S \in SUBSET Targets :
           /\ row' = [t \in DOMAIN row \cup S |-> IF t \in S THEN Answers[t] ELSE row[t]]
           /\ placed' = placed \cup {t \in S : Answers[t] = "ok"}
           /\ \E new \in SUBSET cables : found' = found \cup new
    BY <1>1 DEF Run, Discoverable
  <2>2. \A t \in Targets : Answers[t] \in ReachStatus
    BY DEF Answers, ReachStatus
  <2> QED  BY <1>1, <2>1, <2>2 DEF Run, TypeOK
<1>2. ASSUME NEW d \in Devices, Fail(d) \/ Repair(d)
      PROVE  TypeOK'
  BY <1>2 DEF Fail, Repair, TypeOK
<1>3. ASSUME NEW t \in Restrictable, Restrict(t) \/ Release(t)
      PROVE  TypeOK'
  BY <1>3, NetworkAssumption DEF Restrict, Release, TypeOK
<1>4. CASE UNCHANGED vars
  BY <1>4 DEF vars, TypeOK
<1> QED  BY <1>1, <1>2, <1>3, <1>4 DEF Next

(* The record keeps its shape.                                             *)
THEOREM IncidentsType == Spec => []TypeOK
BY TypeInit, TypeStep, PTL DEF Spec

(* No device is named a root cause that did not fail or hide its view.     *)
THEOREM RootCausesFailed == Spec => []RootsFailed
BY TypeInit, TypeStep, RootsFailedNow, PTL DEF Spec

(* In the discovered topology no path to a suppressed device avoids the    *)
(* root causes of its incident.                                            *)
THEOREM SuppressedAreBehind == Spec => []RootsExplain
BY TypeInit, TypeStep, RootsExplainNow, PTL DEF Spec

(* In a tree every incident has one root cause, and it explains the rest.  *)
THEOREM TreesAreExplained == Spec => []TreeOutages
BY TypeInit, TypeStep, TreeOutagesNow, PTL DEF Spec

(* One failure is one incident with one root cause, the right one.         *)
THEOREM OneFailureOneIncident == Spec => []SingleFailureOneIncident
BY TypeInit, TypeStep, SingleFailureNow, PTL DEF Spec

(* No discovered device the network cut off is missing from the incidents. *)
THEOREM OutagesAreReported == Spec => []EveryOutageReported
BY TypeInit, TypeStep, OutagesReportedNow, PTL DEF Spec

=============================================================================
