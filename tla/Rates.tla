-------------------------------- MODULE Rates --------------------------------
(***************************************************************************)
(* Traffic rates of one counter of one interface: the samples that runs    *)
(* write (write_metrics and write_device_metrics in collector/store.py)    *)
(* and the view interface_rate that derives rates from them on read        *)
(* (migrations/006).                                                       *)
(*                                                                         *)
(* Time is counted in ticks, the device's clock and the collector's alike. *)
(* A poll reads the uptime and the octets in two walks (observe_one), and  *)
(* what it read is stored later, by a transaction whose start is the       *)
(* timestamp of its samples.  Several targets of the inventory, or several *)
(* collectors, may lead to this one device.                                *)
(***************************************************************************)
EXTENDS Integers, FiniteSets

CONSTANTS
    Targets,     \* the poll targets that lead to the device
    NoValue,     \* NULL: the walk did not return it
    Traffic,     \* the numbers of octets a tick may carry
    Ages,        \* how long the agent may have been up at time 0
    StoppedAt,   \* the uptime that a device whose clock stands still reports
    MaxTime,     \* bound on time
    MaxSamples   \* bound on the observations stored or under way

ASSUME RatesAssumption ==
    /\ NoValue \notin Int /\ Traffic \subseteq Nat /\ Ages \subseteq Nat
    /\ StoppedAt \in Nat /\ MaxTime \in Nat /\ MaxSamples \in Nat

VARIABLES
    clock,     \* true time
    ticking,   \* does the device's clock run, or stand still for ever?
    since,     \* when its agent last started
    octets,    \* the interface counter
    carried,   \* the octets the interface really carried since the beginning
    poll,      \* per target: the poll under way
    samples    \* metric_sample: the observations stored

vars == <<clock, ticking, since, octets, carried, poll, samples>>

(* ticks and octets are what is stored; the rest remembers when, and in    *)
(* which life of the agent, they were read, and what was carried by then.  *)
Time == 0..MaxTime
Reading ==
    [ticks : Nat \cup {NoValue}, upAt : Time, upLife : Int,
     octets : Nat \cup {NoValue}, readAt : Time, readLife : Int, carried : Nat]
Blank ==
    [ticks |-> NoValue, upAt |-> 0, upLife |-> 0,
     octets |-> NoValue, readAt |-> 0, readLife |-> 0, carried |-> 0]
Poll == [stage : {"idle", "system", "posted"}, seen : Reading]
Idle == [stage |-> "idle", seen |-> Blank]
Sample == [target : Targets, ts : Time, seen : Reading]

----------------------------------------------------------------------------
(* The view.  An operator named F_... is a wrong variant of the operator   *)
(* it precedes; no specification uses it.                                  *)

Series == {s \in samples : s.seen.octets # NoValue}

(* ORDER BY ts, value                                                      *)
Earlier(r, s) ==
    \/ r.ts < s.ts
    \/ r.ts = s.ts /\ r.seen.octets < s.seen.octets

(* What lag() may return: of rows with the same timestamp and value any    *)
(* may come first.                                                         *)
Lag(s) ==
    {r \in Series \ {s} :
        /\ ~Earlier(s, r)
        /\ ~ \E q \in Series : Earlier(r, q) /\ Earlier(q, s)}

(* LEFT JOIN upt: the uptimes stored with that timestamp, or NULL.         *)
Uptimes(ts) ==
    LET found == {s.seen.ticks : s \in {q \in samples : q.ts = ts}} \ {NoValue}
    IN  IF found = {} THEN {NoValue} ELSE found

(* The rows of the view that have a previous sample.  A timestamp that has *)
(* several uptimes multiplies them.                                        *)
Intervals ==
    UNION {{[prev |-> p[1], cur |-> p[2], prevTicks |-> u, ticks |-> v] :
               u \in Uptimes(p[1].ts), v \in Uptimes(p[2].ts)} :
           p \in {q \in Series \X Series : q[1] \in Lag(q[2])}}

Clocked(v) == v.prevTicks # NoValue /\ v.ticks # NoValue
DeltaOctets(v) == v.cur.seen.octets - v.prev.seen.octets

(* The time base: the device's clock, or the wall clock where that one has *)
(* not moved.                                                              *)
OnUptime(v) == Clocked(v) /\ v.ticks > v.prevTicks

(* F: the wall clock is the time base of every rate.                       *)
F_DeltaTime(v) == v.cur.ts - v.prev.ts

DeltaTime(v) == IF OnUptime(v) THEN v.ticks - v.prevTicks ELSE v.cur.ts - v.prev.ts

(* F: a clock that has not moved counts as a reset.                        *)
F_UptimeReset(v) == Clocked(v) /\ v.ticks <= v.prevTicks

UptimeReset(v) == Clocked(v) /\ v.ticks < v.prevTicks

(* F: an interval of no length is answered.                                *)
F_Answers ==
    {v \in Intervals : ~UptimeReset(v) /\ DeltaOctets(v) >= 0 /\ DeltaTime(v) >= 0}

(* The rows whose reason is 'ok': neither 'uptime_reset', nor              *)
(* 'counter_decrease', nor 'no_time_base'.  Their rate is DeltaOctets over *)
(* DeltaTime.                                                              *)
Answers ==
    {v \in Intervals : ~UptimeReset(v) /\ DeltaOctets(v) >= 0 /\ DeltaTime(v) > 0}

----------------------------------------------------------------------------
(* Actions.                                                                *)

Uptime == IF ticking THEN clock - since ELSE StoppedAt

Init ==
    /\ clock = 0
    /\ \E a \in Ages : since = 0 - a
    /\ ticking \in BOOLEAN
    /\ octets = 0 /\ carried = 0
    /\ poll = [t \in Targets |-> Idle]
    /\ samples = {}

Tick ==
    /\ clock < MaxTime
    /\ clock' = clock + 1
    /\ \E n \in Traffic : octets' = octets + n /\ carried' = carried + n
    /\ UNCHANGED <<ticking, since, poll, samples>>

(* The agent starts again, which takes time: with the device, or alone     *)
(* while the counters go on, as when snmpd is restarted or the 32 bits of  *)
(* its clock are full.                                                     *)
Restart ==
    /\ since < clock
    /\ since' = clock
    /\ octets' \in {0, octets}
    /\ UNCHANGED <<clock, ticking, carried, poll, samples>>

(* The counter alone starts again: "an agent anomaly" (store.py).          *)
Clear ==
    /\ octets' = 0
    /\ UNCHANGED <<clock, ticking, since, carried, poll, samples>>

(* Room for one more observation: names the bound.                         *)
UnderWay == {t \in Targets : poll[t].stage # "idle"}
Room == Cardinality(samples) + Cardinality(UnderWay) < MaxSamples

(* observe_one walks the system group.  A device may keep its uptime back. *)
ReadUptime(t) ==
    /\ poll[t].stage = "idle" /\ Room
    /\ \E u \in {Uptime, NoValue} :
           poll' = [poll EXCEPT ![t] =
               [stage |-> "system",
                seen |-> [Blank EXCEPT !.ticks = u, !.upAt = clock, !.upLife = since]]]
    /\ UNCHANGED <<clock, ticking, since, octets, carried, samples>>

(* It walks the interfaces, in vain perhaps.                               *)
ReadOctets(t) ==
    /\ poll[t].stage = "system"
    /\ \/ poll' = [poll EXCEPT ![t].stage = "posted",
               ![t].seen.octets = octets, ![t].seen.readAt = clock,
               ![t].seen.readLife = since, ![t].seen.carried = carried]
       \/ poll' = [poll EXCEPT ![t].stage = "posted"]
    /\ UNCHANGED <<clock, ticking, since, octets, carried, samples>>

(* The run that carries the observations of the targets Q begins, and      *)
(* commits.  Two transactions do not begin in the same microsecond.        *)
Store(Q) ==
    /\ \A t \in Q : poll[t].stage = "posted"
    /\ \A s \in samples : s.ts # clock
    /\ samples' = samples \cup
           {[target |-> t, ts |-> clock, seen |-> poll[t].seen] : t \in Q}
    /\ poll' = [t \in Targets |-> IF t \in Q THEN Idle ELSE poll[t]]
    /\ UNCHANGED <<clock, ticking, since, octets, carried>>

(* The run is lost, or rolled back.                                        *)
Lose(t) ==
    /\ poll[t].stage = "posted"
    /\ poll' = [poll EXCEPT ![t] = Idle]
    /\ UNCHANGED <<clock, ticking, since, octets, carried, samples>>

Next ==
    \/ Tick
    \/ Restart
    \/ Clear
    \/ \E t \in Targets : ReadUptime(t)
    \/ \E t \in Targets : ReadOctets(t)
    \/ \E Q \in SUBSET Targets \ {{}} : Store(Q)
    \/ \E t \in Targets : Lose(t)

Spec == Init /\ [][Next]_vars

----------------------------------------------------------------------------
(* Properties.                                                             *)

(* Every variable keeps its type, and the view divides by no zero: such a  *)
(* row would make every query of the view fail.                            *)
TypeOK ==
    /\ clock \in Time /\ since \in Int /\ since <= clock /\ ticking \in BOOLEAN
    /\ octets \in Nat /\ carried \in Nat
    /\ poll \in [Targets -> Poll]
    /\ samples \subseteq Sample
    /\ \A v \in Answers : DeltaTime(v) > 0

(* The run observed the device once.                                       *)
Single(s) == \A r \in samples : r.ts = s.ts => r = s

(* The agent did not start again between the two walks of the poll.        *)
Whole(s) == s.seen.upLife = s.seen.readLife

(* Which rates may be relied on: each poll was alone in its run, the later *)
(* one fell in one life of the agent, the counters were read in the order  *)
(* of the samples, and the polls are less apart than the agent had been up *)
(* at the first of them.                                                   *)
Apart(v) ==
    IF v.cur.seen.upAt < v.prev.seen.upAt
    THEN v.prev.seen.upAt - v.cur.seen.upAt ELSE v.cur.seen.upAt - v.prev.seen.upAt

Reliable(v) ==
    /\ Clocked(v) /\ ticking
    /\ Single(v.prev) /\ Single(v.cur)
    /\ Whole(v.cur)
    /\ v.prev.seen.readAt < v.cur.seen.readAt
    /\ Apart(v) < v.prevTicks

(* "A reboot is NOT a rate of zero and NOT a negative spike - it is no     *)
(* answer" (006, 14): a reliable rate spans no restart of the agent, never *)
(* counts octets that were not carried, and, on the device's own clock,    *)
(* divides them by the time that passed between the polls, however late    *)
(* and in whatever order their runs were stored.                           *)
RatesReal ==
    \A v \in Answers : Reliable(v) =>
        /\ v.prev.seen.upLife = v.cur.seen.upLife
        /\ v.prev.seen.readLife = v.cur.seen.readLife
        /\ DeltaOctets(v) <= v.cur.seen.carried - v.prev.seen.carried
        /\ OnUptime(v) => DeltaTime(v) = v.cur.seen.upAt - v.prev.seen.upAt

(* Nor is a rate held back without a reason: two polls of one life of the  *)
(* agent, in the order of their samples and with no fallen counter, give a *)
(* rate, on a device whose clock stands still too ("Treating that as a     *)
(* reset discards every simulated rate", 006, 77-78).                      *)
RatesAnswered ==
    \A v \in Intervals :
        /\ Single(v.prev) /\ Single(v.cur)
        /\ v.prev.seen.upLife = v.cur.seen.upLife
        /\ v.prev.seen.upAt <= v.cur.seen.upAt
        /\ v.prev.seen.octets <= v.cur.seen.octets
        => v \in Answers

=============================================================================
