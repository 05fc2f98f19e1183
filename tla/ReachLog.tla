------------------------------ MODULE ReachLog ------------------------------
(***************************************************************************)
(* What device_reachability and device_reachability_change promise         *)
(* (migrations/005): the current answer of each polled target, and a log   *)
(* of the transitions of that answer.  A run is one step.                  *)
(***************************************************************************)
EXTENDS Naturals, Sequences

CONSTANTS Targets, Devices, NoDevice

VARIABLES
    row,   \* device_reachability: a partial function of the target
    log    \* device_reachability_change, per target

ReachStatus == {"ok", "unreachable", "filtered"}
Row == [status : ReachStatus, device : Devices \cup {NoDevice}]

(* An answer without a device keeps the device that was known.             *)
Merged(t, o) ==
    IF o.device = NoDevice /\ t \in DOMAIN row
    THEN [o EXCEPT !.device = row[t].device] ELSE o

Transition(t, o) == t \in DOMAIN row => row[t].status # o.status

Answers == UNION {[S -> Row] : S \in SUBSET Targets}

Init ==
    /\ row = [t \in {} |-> t]
    /\ log = [t \in Targets |-> <<>>]

Record(answers) ==
    /\ row' = [t \in DOMAIN row \cup DOMAIN answers |->
                  IF t \in DOMAIN answers THEN Merged(t, answers[t]) ELSE row[t]]
    /\ log' = [t \in Targets |->
                  IF t \in DOMAIN answers /\ Transition(t, answers[t])
                  THEN Append(log[t], Merged(t, answers[t])) ELSE log[t]]

Next == \E answers \in Answers : Record(answers)

Spec == Init /\ [][Next]_<<row, log>>

(* The log tells the story of each target: it ends with the current answer *)
(* and no two neighbours in it agree.                                      *)
LogTellsRow ==
    \A t \in Targets :
        /\ t \in DOMAIN row <=> log[t] # <<>>
        /\ log[t] # <<>> => log[t][Len(log[t])].status = row[t].status
        /\ \A i \in 1..(Len(log[t]) - 1) : log[t][i].status # log[t][i + 1].status

=============================================================================
