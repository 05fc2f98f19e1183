---------------------------- MODULE RatesProofs ----------------------------
(***************************************************************************)
(* Rates, for any traffic, any number of polls and restarts, and runs      *)
(* stored in any order.                                                    *)
(***************************************************************************)
EXTENDS Rates, TLAPS

(* The readings of the device that exist: under way or stored.             *)
Readings ==
    {poll[t].seen : t \in {u \in Targets : poll[u].stage # "idle"}}
    \cup {s.seen : s \in samples}

Counted == {r \in Readings : r.octets # NoValue}

BaseType ==
    /\ clock \in Time /\ since \in Int /\ since <= clock /\ ticking \in BOOLEAN
    /\ octets \in Nat /\ carried \in Nat
    /\ poll \in [Targets -> Poll]
    /\ samples \subseteq Sample

(* An uptime is the time since the life it was read in began.              *)
UpRight(r) ==
    /\ r.upLife <= r.upAt /\ r.upAt <= clock /\ r.upLife <= since
    /\ r.upLife < since => r.upAt <= since
    /\ r.ticks # NoValue =>
           r.ticks = IF ticking THEN r.upAt - r.upLife ELSE StoppedAt

(* Lives do not overlap.                                                   *)
InOrder(r, s) == r.upLife < s.upLife => r.upAt <= s.upLife

(* The counter never gains on what the interface carried.                  *)
CountRight(r) ==
    /\ r.readAt <= clock /\ r.upLife <= r.readLife /\ r.readLife <= since
    /\ r.octets - r.carried >= octets - carried

CountOrder(r, s) ==
    r.readAt < s.readAt =>
        /\ r.readLife <= s.readLife
        /\ r.octets - r.carried >= s.octets - s.carried

RInv ==
    /\ BaseType
    /\ \A r \in Readings : UpRight(r)
    /\ \A r, s \in Readings : InOrder(r, s)
    /\ \A r \in Counted : CountRight(r)
    /\ \A r, s \in Counted : CountOrder(r, s)

LEMMA ReadingType ==
    ASSUME BaseType
    PROVE  Readings \subseteq Reading
BY DEF BaseType, Readings, Poll, Sample

(* A counted reading has numbers to compare.                               *)
LEMMA CountedType ==
    ASSUME BaseType, NEW r \in Counted
    PROVE  /\ r \in Reading /\ r.octets \in Nat /\ r.carried \in Nat
           /\ r.readAt \in Int /\ r.readLife \in Int /\ r.upLife \in Int
BY ReadingType, RatesAssumption DEF Counted, Reading, Time

----------------------------------------------------------------------------
(* The types.                                                              *)

LEMMA SeenType == Blank \in Reading /\ Idle \in Poll
BY RatesAssumption DEF Blank, Idle, Poll, Reading, Time

LEMMA BaseStep ==
    ASSUME BaseType, [Next]_vars
    PROVE  BaseType'
<1>1. ASSUME Tick PROVE BaseType'
  BY <1>1, RatesAssumption DEF Tick, BaseType, Time
<1>2. ASSUME Restart PROVE BaseType'
  BY <1>2 DEF Restart, BaseType, Time
<1>3. ASSUME Clear PROVE BaseType'
  BY <1>3 DEF Clear, BaseType
<1>4. ASSUME NEW t \in Targets, ReadUptime(t) PROVE BaseType'
  <2>1. Uptime \in Nat
    BY RatesAssumption DEF Uptime, BaseType, Time
  <2>2. PICK u \in {Uptime, NoValue} :
            poll' = [poll EXCEPT ![t] =
                [stage |-> "system",
                 seen |-> [Blank EXCEPT !.ticks = u, !.upAt = clock, !.upLife = since]]]
    BY <1>4 DEF ReadUptime
  <2>3. [Blank EXCEPT !.ticks = u, !.upAt = clock, !.upLife = since] \in Reading
    BY <2>1, SeenType DEF Reading, BaseType
  <2>4. poll' \in [Targets -> Poll]
    BY <2>2, <2>3 DEF BaseType, Poll
  <2> QED  BY <1>4, <2>4 DEF ReadUptime, BaseType
<1>5. ASSUME NEW t \in Targets, ReadOctets(t) PROVE BaseType'
  <2>1. poll[t] \in Poll /\ poll[t].seen \in Reading
    BY DEF BaseType, Poll
  <2>2. [poll[t].seen EXCEPT !.octets = octets, !.readAt = clock,
             !.readLife = since, !.carried = carried] \in Reading
    BY <2>1 DEF Reading, BaseType
  <2>3. \/ poll' = [poll EXCEPT ![t] = [stage |-> "posted",
                       seen |-> [poll[t].seen EXCEPT !.octets = octets, !.readAt = clock,
                                     !.readLife = since, !.carried = carried]]]
        \/ poll' = [poll EXCEPT ![t] = [stage |-> "posted", seen |-> poll[t].seen]]
    BY <1>5, <2>1 DEF ReadOctets, Poll, Reading, BaseType
  <2>4. poll' \in [Targets -> Poll]
    BY <2>1, <2>2, <2>3 DEF BaseType, Poll
  <2> QED  BY <1>5, <2>4 DEF ReadOctets, BaseType
<1>6. ASSUME NEW Q \in SUBSET Targets \ {{}}, Store(Q) PROVE BaseType'
  <2>1. ASSUME NEW t \in Q
        PROVE  [target |-> t, ts |-> clock, seen |-> poll[t].seen] \in Sample
    BY DEF BaseType, Poll, Sample
  <2>2. samples' \subseteq Sample
    BY <1>6, <2>1 DEF Store, BaseType
  <2>3. poll' \in [Targets -> Poll]
    BY <1>6, SeenType DEF Store, BaseType
  <2> QED  BY <1>6, <2>2, <2>3 DEF Store, BaseType
<1>7. ASSUME NEW t \in Targets, Lose(t) PROVE BaseType'
  BY <1>7, SeenType DEF Lose, BaseType
<1>8. ASSUME UNCHANGED vars PROVE BaseType'
  BY <1>8 DEF vars, BaseType
<1> QED  BY <1>1, <1>2, <1>3, <1>4, <1>5, <1>6, <1>7, <1>8 DEF Next

LEMMA BaseInit == Init => BaseType
BY RatesAssumption, SeenType DEF Init, BaseType, Time

(* Every variable keeps its type and no row of the view has a divisor of   *)
(* zero (Rates!TypeOK).                                                    *)
THEOREM RatesType == Spec => []TypeOK
<1>1. BaseType => TypeOK
  BY DEF BaseType, TypeOK, Answers
<1> QED  BY <1>1, BaseInit, BaseStep, PTL DEF Spec

----------------------------------------------------------------------------
(* What is known of the readings.                                          *)

(* Readings that go away, or move from a poll to the table, change nothing *)
(* as long as the device does not.                                         *)
LEMMA FewerReadings ==
    ASSUME RInv, Readings' \subseteq Readings, BaseType',
           UNCHANGED <<clock, ticking, since, octets, carried>>
    PROVE  RInv'
<1>1. Counted' \subseteq Counted
  BY DEF Counted
<1> QED  BY <1>1 DEF RInv, UpRight, InOrder, CountRight, CountOrder

LEMMA TickInv ==
    ASSUME RInv, Tick
    PROVE  RInv'
<1>1. BaseType'
  BY BaseStep DEF RInv, Next
<1>2. Readings' = Readings /\ Counted' = Counted
  BY DEF Tick, Readings, Counted
<1>3. PICK n \in Traffic : octets' = octets + n /\ carried' = carried + n
  BY DEF Tick
<1>4. n \in Int /\ clock \in Int /\ octets \in Int /\ carried \in Int
  BY RatesAssumption DEF RInv, BaseType, Time
<1>5. ASSUME NEW r \in Readings PROVE UpRight(r)'
  <2>1. r.upLife \in Int /\ r.upAt \in Int
    BY ReadingType DEF RInv, Reading, Time
  <2> QED  BY <1>4, <2>1 DEF RInv, UpRight, Tick
<1>6. ASSUME NEW r \in Counted PROVE CountRight(r)'
  BY <1>3, <1>4, CountedType DEF RInv, CountRight, Tick
<1> QED  BY <1>1, <1>2, <1>5, <1>6 DEF RInv, InOrder, CountOrder

LEMMA RestartInv ==
    ASSUME RInv, Restart \/ Clear
    PROVE  RInv'
<1>1. BaseType'
  BY BaseStep DEF RInv, Next
<1>2. Readings' = Readings /\ Counted' = Counted
  BY DEF Restart, Clear, Readings, Counted
<1>3. clock \in Int /\ since \in Int /\ octets \in Nat /\ carried \in Int
  BY DEF RInv, BaseType, Time
<1>4. ASSUME NEW r \in Readings PROVE UpRight(r)'
  <2>1. r.upLife \in Int /\ r.upAt \in Int
    BY ReadingType DEF RInv, Reading, Time
  <2> QED  BY <1>3, <2>1 DEF RInv, UpRight, Restart, Clear
<1>5. ASSUME NEW r \in Counted PROVE CountRight(r)'
  BY <1>3, CountedType DEF RInv, CountRight, Restart, Clear
<1> QED  BY <1>1, <1>2, <1>4, <1>5 DEF RInv, InOrder, CountOrder

LEMMA ReadUptimeInv ==
    ASSUME RInv, NEW t \in Targets, ReadUptime(t)
    PROVE  RInv'
<1>1. BaseType'
  BY BaseStep DEF RInv, Next
<1>2. PICK u \in {Uptime, NoValue} :
          poll' = [poll EXCEPT ![t] =
              [stage |-> "system",
               seen |-> [Blank EXCEPT !.ticks = u, !.upAt = clock, !.upLife = since]]]
  BY DEF ReadUptime
<1>3. PICK new : new = [Blank EXCEPT !.ticks = u, !.upAt = clock, !.upLife = since]
  OBVIOUS
<1>4. Readings' \subseteq Readings \cup {new}
  <2>1. ASSUME NEW v \in Targets, poll'[v].stage # "idle"
        PROVE  poll'[v].seen \in Readings \cup {new}
    <3>1. CASE v = t
      BY <1>2, <1>3, <3>1 DEF RInv, BaseType
    <3>2. CASE v # t
      <4>1. poll'[v] = poll[v]
        BY <1>2, <3>2 DEF RInv, BaseType
      <4> QED  BY <2>1, <4>1 DEF Readings
    <3> QED  BY <3>1, <3>2
  <2>2. samples' = samples
    BY DEF ReadUptime
  <2> QED  BY <2>1, <2>2 DEF Readings
<1>5. new.octets = NoValue
  BY <1>3 DEF Blank
<1>6. Counted' \subseteq Counted
  <2> QED  BY <1>4, <1>5 DEF Counted
<1>7. /\ new.upLife = since /\ new.upAt = clock /\ new.ticks = u
  BY <1>3 DEF Blank
<1>8. /\ clock \in Int /\ since \in Int /\ since <= clock
  BY DEF RInv, BaseType, Time
<1>9. UNCHANGED <<clock, ticking, since, octets, carried>>
  BY DEF ReadUptime
<1>10. UpRight(new)'
  <2>1. u # NoValue => u = IF ticking THEN clock - since ELSE StoppedAt
    BY DEF Uptime
  <2> QED  BY <1>7, <1>8, <1>9, <2>1 DEF UpRight
<1>11. ASSUME NEW r \in Readings
       PROVE  UpRight(r)' /\ InOrder(r, new)' /\ InOrder(new, r)'
  <2>1. r.upLife \in Int /\ r.upAt \in Int
    BY ReadingType DEF RInv, Reading, Time
  <2> QED  BY <1>7, <1>8, <1>9, <2>1 DEF RInv, UpRight, InOrder
<1>12. InOrder(new, new)'
  <2> QED  BY <1>7, <1>8 DEF InOrder
<1>13. \A r \in Readings' : UpRight(r)'
  BY <1>4, <1>10, <1>11
<1>14. \A r, s \in Readings' : InOrder(r, s)'
  BY <1>4, <1>11, <1>12 DEF RInv, InOrder
<1> QED  BY <1>1, <1>6, <1>9, <1>13, <1>14 DEF RInv, CountRight, CountOrder

LEMMA ReadOctetsInv ==
    ASSUME RInv, NEW t \in Targets, ReadOctets(t)
    PROVE  RInv'
<1>1. BaseType'
  BY BaseStep DEF RInv, Next
<1>2. PICK old : old = poll[t].seen
  OBVIOUS
<1>3. PICK new : new = [old EXCEPT !.octets = octets, !.readAt = clock,
                             !.readLife = since, !.carried = carried]
  OBVIOUS
<1>4. poll[t] \in Poll /\ old \in Reading /\ old \in Readings
  BY <1>2 DEF RInv, BaseType, Poll, Readings, ReadOctets
<1>5. PICK now \in {new, old} :
          poll' = [poll EXCEPT ![t] = [stage |-> "posted", seen |-> now]]
  BY <1>4, <1>2, <1>3 DEF ReadOctets, Poll, Reading, RInv, BaseType
<1>6. /\ new.octets = octets /\ new.readAt = clock /\ new.readLife = since
      /\ new.carried = carried
      /\ new.upLife = old.upLife /\ new.upAt = old.upAt /\ new.ticks = old.ticks
  BY <1>4, <1>3 DEF Reading
<1>7. Readings' \subseteq Readings \cup {new}
  <2>1. ASSUME NEW v \in Targets, poll'[v].stage # "idle"
        PROVE  poll'[v].seen \in Readings \cup {new}
    <3>1. CASE v = t
      BY <1>4, <1>5, <3>1 DEF RInv, BaseType
    <3>2. CASE v # t
      <4>1. poll'[v] = poll[v]
        BY <1>5, <3>2 DEF RInv, BaseType
      <4> QED  BY <2>1, <4>1 DEF Readings
    <3> QED  BY <3>1, <3>2
  <2>2. samples' = samples
    BY DEF ReadOctets
  <2> QED  BY <2>1, <2>2 DEF Readings
<1>8. UNCHANGED <<clock, ticking, since, octets, carried>>
  BY DEF ReadOctets
<1>9. /\ clock \in Int /\ since \in Int /\ since <= clock
      /\ octets \in Int /\ carried \in Int
  BY DEF RInv, BaseType, Time
<1>10. UpRight(old) /\ old.upLife \in Int /\ old.upAt \in Int
  BY <1>4 DEF RInv, Reading, Time
<1>11. UpRight(new)'
  BY <1>6, <1>8, <1>10 DEF UpRight
<1>12. ASSUME NEW r \in Readings
       PROVE  UpRight(r)' /\ InOrder(r, new)' /\ InOrder(new, r)'
  BY <1>4, <1>6, <1>8, <1>12 DEF RInv, UpRight, InOrder
<1>13. InOrder(new, new)'
  BY <1>4, <1>6 DEF RInv, InOrder
<1>14. \A r \in Readings' : UpRight(r)'
  BY <1>7, <1>11, <1>12
<1>15. \A r, s \in Readings' : InOrder(r, s)'
  BY <1>7, <1>12, <1>13 DEF RInv, InOrder
<1>16. Counted' \subseteq Counted \cup {new}
  BY <1>7 DEF Counted
<1>17. CountRight(new)'
  BY <1>6, <1>8, <1>9, <1>10 DEF CountRight, UpRight
<1>18. ASSUME NEW r \in Counted
       PROVE  CountRight(r)' /\ CountOrder(r, new)' /\ CountOrder(new, r)'
  <2>1. CountRight(r)
    BY DEF RInv
  <2> QED  BY <1>6, <1>8, <1>9, <2>1, CountedType DEF RInv, CountRight, CountOrder
<1>19. CountOrder(new, new)'
  BY <1>6, <1>9 DEF CountOrder
<1>20. \A r \in Counted' : CountRight(r)'
  BY <1>16, <1>17, <1>18
<1>21. \A r, s \in Counted' : CountOrder(r, s)'
  BY <1>16, <1>18, <1>19 DEF RInv, CountOrder
<1> QED  BY <1>1, <1>14, <1>15, <1>20, <1>21 DEF RInv

LEMMA StoreInv ==
    ASSUME RInv, NEW Q \in SUBSET Targets \ {{}}, Store(Q)
    PROVE  RInv'
<1>1. BaseType'
  BY BaseStep DEF RInv, Next
<1>2. ASSUME NEW v \in Targets, poll'[v].stage # "idle"
      PROVE  poll'[v].seen \in Readings
  <2>1. v \notin Q /\ poll'[v] = poll[v]
    BY <1>2 DEF Store, Idle
  <2> QED  BY <1>2, <2>1 DEF Readings
<1>3. ASSUME NEW s \in samples' PROVE s.seen \in Readings
  <2>1. CASE s \in samples
    BY <2>1 DEF Readings
  <2>2. ASSUME NEW t \in Q, s = [target |-> t, ts |-> clock, seen |-> poll[t].seen]
        PROVE  s.seen \in Readings
    BY <2>2 DEF Store, Readings
  <2> QED  BY <1>3, <2>1, <2>2 DEF Store
<1>4. Readings' \subseteq Readings
  BY <1>2, <1>3 DEF Readings
<1> QED  BY <1>1, <1>4, FewerReadings DEF Store

LEMMA LoseInv ==
    ASSUME RInv, NEW t \in Targets, Lose(t)
    PROVE  RInv'
<1>1. BaseType'
  BY BaseStep DEF RInv, Next
<1>2. ASSUME NEW v \in Targets, poll'[v].stage # "idle"
      PROVE  poll'[v].seen \in Readings
  <2>1. v # t /\ poll'[v] = poll[v]
    BY <1>2 DEF Lose, Idle, RInv, BaseType
  <2> QED  BY <1>2, <2>1 DEF Readings
<1>3. Readings' \subseteq Readings
  BY <1>2 DEF Lose, Readings
<1> QED  BY <1>1, <1>3, FewerReadings DEF Lose

LEMMA InvInit == Init => RInv
<1>1. ASSUME Init PROVE Readings = {} /\ Counted = {}
  BY <1>1 DEF Init, Readings, Counted, Idle
<1> QED  BY <1>1, BaseInit DEF RInv

LEMMA InvStep ==
    ASSUME RInv, [Next]_vars
    PROVE  RInv'
<1>1. ASSUME UNCHANGED vars PROVE RInv'
  <2>1. Readings' = Readings /\ BaseType'
    BY <1>1, BaseStep DEF vars, Readings, RInv
  <2> QED  BY <1>1, <2>1, FewerReadings DEF vars
<1> QED  BY <1>1, TickInv, RestartInv, ReadUptimeInv, ReadOctetsInv, StoreInv, LoseInv
         DEF Next

----------------------------------------------------------------------------
(* The view.                                                               *)

(* The two samples of a row, in the order of the window.                   *)
LEMMA IntervalFacts ==
    ASSUME BaseType, NEW v \in Intervals
    PROVE  /\ v.prev \in samples /\ v.cur \in samples /\ v.prev # v.cur
           /\ v.prev.seen \in Counted /\ v.cur.seen \in Counted
           /\ v.prev.ts \in Int /\ v.cur.ts \in Int /\ v.prev.ts <= v.cur.ts
           /\ v.prevTicks \in Uptimes(v.prev.ts) /\ v.ticks \in Uptimes(v.cur.ts)
<1>1. PICK r \in Series, s \in Series : \E x \in Uptimes(r.ts), y \in Uptimes(s.ts) :
          /\ r \in Lag(s)
          /\ v = [prev |-> r, cur |-> s, prevTicks |-> x, ticks |-> y]
  BY DEF Intervals
<1>2. v.prev = r /\ v.cur = s
      /\ v.prevTicks \in Uptimes(r.ts) /\ v.ticks \in Uptimes(s.ts)
  BY <1>1
<1>3. r \in samples /\ s \in samples /\ r.seen \in Counted /\ s.seen \in Counted
  BY DEF Series, Counted, Readings
<1>4. r.ts \in Int /\ s.ts \in Int
  BY <1>3 DEF BaseType, Sample, Time
<1>5. r # s /\ ~(s.ts < r.ts)
  BY <1>1 DEF Lag, Earlier
<1> QED  BY <1>2, <1>3, <1>4, <1>5

(* A run that observed the device once stored one uptime, its own.         *)
LEMMA SingleUptime ==
    ASSUME NEW s \in samples, Single(s), NEW u \in Uptimes(s.ts)
    PROVE  u = s.seen.ticks
<1> DEFINE found == {q.seen.ticks : q \in {r \in samples : r.ts = s.ts}} \ {NoValue}
<1>1. found = {s.seen.ticks} \ {NoValue}
  BY DEF Single
<1>2. u \in IF found = {} THEN {NoValue} ELSE found
  BY DEF Uptimes
<1> HIDE DEF found
<1> QED  BY <1>1, <1>2

(* What the row compares, where each run observed the device once.         *)
LEMMA RowFacts ==
    ASSUME RInv, NEW v \in Intervals, Single(v.prev), Single(v.cur)
    PROVE  /\ v.prevTicks = v.prev.seen.ticks /\ v.ticks = v.cur.seen.ticks
           /\ v.prev.seen.upLife \in Int /\ v.cur.seen.upLife \in Int
           /\ v.prev.seen.upAt \in Int /\ v.cur.seen.upAt \in Int
           /\ UpRight(v.prev.seen) /\ UpRight(v.cur.seen)
           /\ InOrder(v.prev.seen, v.cur.seen) /\ InOrder(v.cur.seen, v.prev.seen)
<1>1. v.prev.seen \in Readings /\ v.cur.seen \in Readings
  BY IntervalFacts DEF RInv, Counted
<1>2. v.prev.seen \in Reading /\ v.cur.seen \in Reading
  BY <1>1, ReadingType DEF RInv
<1>3. v.prevTicks = v.prev.seen.ticks /\ v.ticks = v.cur.seen.ticks
  BY IntervalFacts, SingleUptime DEF RInv
<1> QED  BY <1>1, <1>2, <1>3 DEF RInv, Reading, Time

LEMMA RealFromInv ==
    ASSUME RInv
    PROVE  RatesReal
<1>1. SUFFICES ASSUME NEW v \in Answers, Reliable(v)
               PROVE  /\ v.prev.seen.upLife = v.cur.seen.upLife
                      /\ v.prev.seen.readLife = v.cur.seen.readLife
                      /\ DeltaOctets(v) <= v.cur.seen.carried - v.prev.seen.carried
                      /\ OnUptime(v) =>
                             DeltaTime(v) = v.cur.seen.upAt - v.prev.seen.upAt
  BY DEF RatesReal
<1>2. PICK p, c : p = v.prev.seen /\ c = v.cur.seen
  OBVIOUS
<1>3. v \in Intervals /\ ~(v.ticks < v.prevTicks)
  BY <1>1 DEF Answers, UptimeReset, Reliable
<1>4. /\ v.prevTicks = p.upAt - p.upLife /\ v.ticks = c.upAt - c.upLife
      /\ p.upLife \in Int /\ c.upLife \in Int /\ p.upAt \in Int /\ c.upAt \in Int
      /\ InOrder(p, c) /\ InOrder(c, p)
  BY <1>1, <1>2, <1>3, RowFacts DEF Reliable, Clocked, UpRight
<1>5. c.upAt - p.upAt < v.prevTicks /\ p.upAt - c.upAt < v.prevTicks
  BY <1>1, <1>2, <1>4 DEF Reliable, Apart
<1>6. p.upLife = c.upLife
  BY <1>3, <1>4, <1>5 DEF InOrder
<1>7. /\ p.octets \in Nat /\ c.octets \in Nat /\ p.carried \in Nat /\ c.carried \in Nat
      /\ p.readLife \in Int /\ c.readLife \in Int
      /\ CountOrder(p, c) /\ CountRight(p)
  BY <1>2, <1>3, IntervalFacts, CountedType DEF RInv
<1>8. /\ p.readLife <= c.readLife /\ p.upLife <= p.readLife
      /\ p.octets - p.carried >= c.octets - c.carried
  BY <1>1, <1>2, <1>7 DEF Reliable, CountOrder, CountRight
<1>9. c.upLife = c.readLife
  BY <1>1, <1>2 DEF Reliable, Whole
<1>10. DeltaOctets(v) <= c.carried - p.carried
  BY <1>2, <1>7, <1>8 DEF DeltaOctets
<1>11. OnUptime(v) => DeltaTime(v) = c.upAt - p.upAt
  BY <1>4, <1>6 DEF DeltaTime
<1> QED  BY <1>2, <1>6, <1>7, <1>8, <1>9, <1>10, <1>11

(* A rate that may be relied on is one: no restart inside, no octets that  *)
(* were not carried, and the time that passed (Rates!RatesReal).           *)
THEOREM RatesAreReal == Spec => []RatesReal
BY InvInit, InvStep, RealFromInv, PTL DEF Spec

LEMMA AnsweredFromInv ==
    ASSUME RInv
    PROVE  RatesAnswered
<1>1. SUFFICES ASSUME NEW v \in Intervals, Single(v.prev), Single(v.cur),
                      v.prev.seen.upLife = v.cur.seen.upLife,
                      v.prev.seen.upAt <= v.cur.seen.upAt,
                      v.prev.seen.octets <= v.cur.seen.octets
               PROVE  v \in Answers
  BY DEF RatesAnswered
<1>2. /\ v.prevTicks = v.prev.seen.ticks /\ v.ticks = v.cur.seen.ticks
      /\ v.prev.seen.upLife \in Int /\ v.cur.seen.upLife \in Int
      /\ v.prev.seen.upAt \in Int /\ v.cur.seen.upAt \in Int
      /\ UpRight(v.prev.seen) /\ UpRight(v.cur.seen)
  BY <1>1, RowFacts
<1>3. Clocked(v) => v.prevTicks \in Int /\ v.ticks \in Int /\ v.prevTicks <= v.ticks
  BY <1>1, <1>2, RatesAssumption DEF Clocked, UpRight
<1>4. ~UptimeReset(v)
  BY <1>3 DEF UptimeReset
<1>5. DeltaOctets(v) >= 0
  BY <1>1, IntervalFacts, CountedType DEF RInv, DeltaOctets
<1>6. v.prev.ts < v.cur.ts
  BY <1>1, IntervalFacts DEF RInv, Single
<1>7. v.prev.ts \in Int /\ v.cur.ts \in Int
  BY IntervalFacts DEF RInv
<1>8. DeltaTime(v) > 0
  BY <1>3, <1>6, <1>7 DEF DeltaTime, OnUptime
<1> QED  BY <1>4, <1>5, <1>8 DEF Answers

(* No rate is held back without a reason (Rates!RatesAnswered).            *)
THEOREM RatesAreAnswered == Spec => []RatesAnswered
BY InvInit, InvStep, AnsweredFromInv, PTL DEF Spec

=============================================================================
