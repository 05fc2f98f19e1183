---------------------------- MODULE Reachability ----------------------------
(***************************************************************************)
(* Ingest runs and the reachability they record.  A collector polls its    *)
(* inventory (collector/poll.py) and posts the observations; the server    *)
(* handles a run in one READ COMMITTED transaction (server/app.py,         *)
(* server/ingest.py) that records every target with a SELECT followed by   *)
(* an upsert (record_reachability in collector/store.py).  Runs of several *)
(* collectors, or a run whose collector gave up waiting and the next one   *)
(* of the same inventory, are open at the same time.                       *)
(*                                                                         *)
(* What a run writes besides reachability is modelled in Identity and      *)
(* Links; here it is a reason to fail.                                     *)
(***************************************************************************)
EXTENDS Naturals, Sequences, FiniteSets

CONSTANTS
    Targets,    \* poll_target names
    Devices,    \* device ids that resolve_device may return
    NoDevice,   \* NULL
    Generic,    \* claims whose only resolving one is a generic sysName
    Requests,   \* transactions that can be open at the same time
    Batches,    \* per request: the observations a collector may post
    MaxLog      \* bound on the transitions of one target

ReachStatus == {"ok", "unreachable", "filtered"}
Row == [status : ReachStatus, device : Devices \cup {NoDevice}]

(* A target that did not answer carries no identity (observe_one).         *)
Obs == {o \in [target : Targets, status : ReachStatus,
               device : Devices \cup {NoDevice, Generic}] :
            o.status # "ok" => o.device = NoDevice}

ASSUME RequestAssumption ==
    /\ NoDevice \notin Devices /\ Generic \notin Devices \cup {NoDevice}
    /\ \A q \in Requests : \A batch \in Batches[q] :
           /\ batch \in Seq(Obs)
           /\ \A i, j \in DOMAIN batch : batch[i].target = batch[j].target => i = j
    /\ MaxLog \in Nat

VARIABLES
    row,   \* device_reachability, committed
    log,   \* device_reachability_change, committed, per target
    run    \* per request: its transaction

vars == <<row, log, run>>

(* Partial functions of the target.                                        *)
Partial(S) == UNION {[T -> S] : T \in SUBSET Targets}

Write == [status : ReachStatus, device : Devices \cup {NoDevice}, changed : BOOLEAN]
Run == [stage : {"idle", "open", "failed"}, todo : Seq(Obs),
        prior : ReachStatus \cup {"none", "unread"}, mine : Partial(Write)]

Idle == [stage |-> "idle", todo |-> <<>>, prior |-> "unread", mine |-> [t \in {} |-> t]]

----------------------------------------------------------------------------
(* An operator named F_... is a wrong variant of the operator it precedes; *)
(* no specification uses it.                                               *)

Fits(o) ==
    \/ Len(log[o.target]) < MaxLog
    \/ o.target \in DOMAIN row /\ row[o.target].status = o.status

(* The row a statement of run q sees: the committed one.  A run never      *)
(* reads a target it has written (the names of an inventory differ).       *)
Stored(t) == IF t \in DOMAIN row THEN row[t].status ELSE "none"

(* The row lock of an open transaction that has written the target.        *)
Locked(q, t) ==
    \E p \in Requests \ {q} : run[p].stage = "open" /\ t \in DOMAIN run[p].mine

(* F: a device is made of whatever claims there are.                       *)
F_Resolves(o) == o.target \in Targets

(* resolve_device finds or makes a device, or there is no claim to try.    *)
Resolves(o) == o.device # Generic

(* F: the upsert stores the answer's own device, or the lack of one.       *)
F_Coalesced(t, d) == IF t \in Targets THEN d ELSE NoDevice

(* COALESCE(EXCLUDED.device_id, device_reachability.device_id).            *)
Coalesced(t, d) ==
    IF d = NoDevice /\ t \in DOMAIN row THEN row[t].device ELSE d

(* F: a target seen for the first time is no transition.                   *)
F_Changed(prior, status) == prior \notin {"none", status}

Changed(prior, status) == prior # status

(* What a committed run adds to the log of a target.                       *)
Appended(t, mine) ==
    IF t \in DOMAIN mine /\ mine[t].changed
    THEN Append(log[t], [status |-> mine[t].status, device |-> mine[t].device])
    ELSE log[t]

----------------------------------------------------------------------------
(* Actions.                                                                *)

Init ==
    /\ row = [t \in {} |-> t]
    /\ log = [t \in Targets |-> <<>>]
    /\ run = [q \in Requests |-> Idle]

(* POST /v1/ingest/run.  An empty run is answered 400 and leaves no trace. *)
Post(q) ==
    /\ run[q].stage # "open"
    /\ \E batch \in Batches[q] :
           /\ batch # <<>>
           /\ \A i \in DOMAIN batch : Fits(batch[i])
           /\ run' = [run EXCEPT ![q] = [stage |-> "open", todo |-> batch,
                                         prior |-> "unread", mine |-> Idle.mine]]
    /\ UNCHANGED <<row, log>>

Working(q) == run[q].stage = "open" /\ run[q].todo # <<>>

(* resolve_device raises: the request is answered 500 and rolled back.     *)
Raise(q) ==
    /\ Working(q)
    /\ ~Resolves(Head(run[q].todo))
    /\ run' = [run EXCEPT ![q].stage = "failed"]
    /\ UNCHANGED <<row, log>>

(* record_reachability, the SELECT.                                        *)
ReadPrior(q) ==
    /\ Working(q)
    /\ run[q].prior = "unread"
    /\ Resolves(Head(run[q].todo))
    /\ run' = [run EXCEPT ![q].prior = Stored(Head(run[q].todo).target)]
    /\ UNCHANGED <<row, log>>

(* record_reachability, the upsert and the history row.  The upsert waits  *)
(* for a run that has written the same target, and then updates the row    *)
(* that run committed.                                                     *)
Upsert(q) ==
    /\ Working(q)
    /\ run[q].prior # "unread"
    /\ LET o == Head(run[q].todo)
           new == [status |-> o.status,
                   device |-> Coalesced(o.target, o.device),
                   changed |-> Changed(run[q].prior, o.status)]
       IN  /\ ~Locked(q, o.target)
           /\ run' = [run EXCEPT
                  ![q] = [stage |-> "open", todo |-> Tail(@.todo), prior |-> "unread",
                          mine |-> [t \in DOMAIN @.mine \cup {o.target} |->
                                       IF t = o.target THEN new ELSE @.mine[t]]]]
    /\ UNCHANGED <<row, log>>

(* conn.commit(), the only one of a run.                                   *)
Commit(q) ==
    /\ run[q].stage = "open" /\ run[q].todo = <<>>
    /\ LET mine == run[q].mine
       IN  /\ row' = [t \in DOMAIN row \cup DOMAIN mine |->
                         IF t \in DOMAIN mine
                         THEN [status |-> mine[t].status, device |-> mine[t].device]
                         ELSE row[t]]
           /\ log' = [t \in Targets |-> Appended(t, mine)]
    /\ run' = [run EXCEPT ![q] = Idle]

(* Anything else ends the request: the link phases raise, the server or    *)
(* the database restarts, the run is the victim of a deadlock.             *)
Abort(q) ==
    /\ run[q].stage = "open"
    /\ run' = [run EXCEPT ![q] = Idle]
    /\ UNCHANGED <<row, log>>

Next ==
    \/ \E q \in Requests : Post(q)
    \/ \E q \in Requests : Raise(q)
    \/ \E q \in Requests : ReadPrior(q)
    \/ \E q \in Requests : Upsert(q)
    \/ \E q \in Requests : Commit(q)
    \/ \E q \in Requests : Abort(q)

Spec == Init /\ [][Next]_vars

----------------------------------------------------------------------------
(* Properties.                                                             *)

TypeOK ==
    /\ row \in Partial(Row)
    /\ log \in [Targets -> Seq(Row)]
    /\ run \in [Requests -> Run]

(* Once a transition names a device, so do all later ones of the target:   *)
(* "the history row has to record that same device or the outage it        *)
(* represents becomes unattributable" (store.py, 316-318).                 *)
OutagesAttributed ==
    \A t \in Targets : \A i \in 1..(Len(log[t]) - 1) :
        log[t][i].device # NoDevice => log[t][i + 1].device # NoDevice

(* Runs whose targets differ record reachability as if each was one step.  *)
Abstract == INSTANCE ReachLog WITH row <- row, log <- log
RecordsTransitions == Abstract!Spec

(* "One row ONLY when reach_status differs from what was last stored"      *)
(* (migrations/005, 40-45).                                                *)
LogTellsRow == Abstract!LogTellsRow

(* "Per-device isolation: one bad device must never abort the cycle"       *)
(* (poll.py, 272), "a collector that halts on an ambiguous device stops    *)
(* collecting the other 200" (store.py, 63-65): a run that fails for a     *)
(* device without a usable name throws no other device's answer away.      *)
OneBadDeviceIsolated ==
    \A q \in Requests : run[q].stage = "failed" =>
        /\ DOMAIN run[q].mine = {}
        /\ \A i \in DOMAIN run[q].todo : ~Resolves(run[q].todo[i])

=============================================================================
