----------------------------- MODULE Freshness -----------------------------
(***************************************************************************)
(* How long a link lives on without a word from the device that reports    *)
(* it: the collector's timer and time limit (deploy/nms-collector.timer    *)
(* and .service), the two runs of a cycle (scripts/poll_cycle.sh) and the  *)
(* rollup of each run against link_evidence_fresh (migrations/003).        *)
(*                                                                         *)
(* One link with one confirmation, of one device.  Time is counted in      *)
(* units of 30 seconds; a run takes no time, since now() is the start of   *)
(* its transaction, and time passes between runs.                          *)
(***************************************************************************)
EXTENDS Naturals, FiniteSetsExt

CONSTANTS
    Interval,    \* OnUnitActiveSec, from activation to activation
    Jitter,      \* RandomizedDelaySec, what a fire may be late
    Limit,       \* TimeoutStartSec, after which a cycle is killed
    Window,      \* the age at which evidence stops counting
    Mine,        \* which run of a cycle, 1 or 2, polls the device
    Tolerated    \* the failed polls in a row that a link should survive

VARIABLES
    since,    \* time since the timer started the current cycle
    done,     \* how many of its two runs are over
    age,      \* age of the evidence, Window standing for all above it
    missed,   \* failed polls of the device in a row: Tolerated + 1 stands
              \* for all above it
    active    \* is the link active, or has a rollup made it stale?

vars == <<since, done, age, missed, active>>

MissedBound == Tolerated + 1

(* The cycle begins in which the first run that knows the device ends well *)
(* and has just stored its report.                                         *)
Init ==
    /\ since = 0
    /\ done = Mine
    /\ age = 0
    /\ missed = 0
    /\ active = TRUE

(* The timer fires by Interval + Jitter at the latest, and a cycle is over *)
(* or killed by Limit.                                                     *)
Elapse ==
    /\ since < Interval + Jitter
    /\ done = 2 \/ since < Limit
    /\ since' = since + 1
    /\ age' = Min({age + 1, Window})
    /\ UNCHANGED <<done, missed, active>>

(* OnUnitActiveSec counts from the activation, not from the end of a       *)
(* cycle, and a cycle that still runs is not started again.                *)
Activate ==
    /\ since >= Interval /\ done = 2
    /\ since' = 0
    /\ done' = 0
    /\ UNCHANGED <<age, missed, active>>

(* The polls of the device fail with the run that should have brought it.  *)
MissedBy(run) ==
    IF run = Mine THEN Min({missed + 1, MissedBound}) ELSE missed

(* A run with a report of the device: its evidence is refreshed.           *)
Heard ==
    /\ done + 1 = Mine
    /\ done' = Mine
    /\ age' = 0
    /\ missed' = 0
    /\ active' = TRUE
    /\ UNCHANGED since

(* A run without one, the other inventory's or its own after a failed      *)
(* poll.  Its rollup scores every link of the tenant all the same.         *)
Unheard ==
    /\ done < 2
    /\ done' = done + 1
    /\ missed' = MissedBy(done + 1)
    /\ active' = (age < Window)
    /\ UNCHANGED <<since, age>>

(* A run that is not stored: no inventory, no answer, no API.              *)
Lost ==
    /\ done < 2
    /\ done' = done + 1
    /\ missed' = MissedBy(done + 1)
    /\ UNCHANGED <<since, age, active>>

(* systemd kills the cycle, and the runs it had left.                      *)
Killed ==
    /\ done < 2 /\ since = Limit
    /\ done' = 2
    /\ missed' = IF done < Mine THEN MissedBy(Mine) ELSE missed
    /\ UNCHANGED <<since, age, active>>

Next == Elapse \/ Activate \/ Heard \/ Unheard \/ Lost \/ Killed

Spec == Init /\ [][Next]_vars

----------------------------------------------------------------------------
(* Properties.                                                             *)

(* A link stays active through Tolerated failed polls of its device in a   *)
(* row, up to the poll after them: "at a 5-minute interval you survive     *)
(* FIVE consecutive failed polls before topology starts decaying"          *)
(* (deploy/nms-collector.timer, 31).                                       *)
SurvivesFailures == missed <= Tolerated => active

============================================================================
