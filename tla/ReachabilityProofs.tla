------------------------- MODULE ReachabilityProofs -------------------------
(***************************************************************************)
(* Outages stay attributed, however runs interleave; and runs with targets *)
(* of their own implement ReachLog.                                        *)
(***************************************************************************)
EXTENDS Reachability, SequenceTheorems, TLAPS

(* The inductive invariant behind OutagesAttributed.  No two open runs     *)
(* hold the same target, so the device a run found in a row is still there *)
(* when it commits.                                                        *)
Open(q) == run[q].stage = "open"
Held(q) == DOMAIN run[q].mine

Exclusive ==
    \A p, q \in Requests : p # q /\ Open(p) /\ Open(q) => Held(p) \cap Held(q) = {}
Known(t) == t \in DOMAIN row /\ row[t].device # NoDevice
KnownKept ==
    \A q \in Requests : Open(q) =>
        \A t \in Held(q) : Known(t) => run[q].mine[t].device # NoDevice
LogKnown ==
    \A t \in Targets : log[t] # <<>> /\ log[t][Len(log[t])].device # NoDevice => Known(t)

Ready ==
    \A q \in Requests : Open(q) /\ run[q].prior # "unread" =>
        run[q].todo # <<>> /\ Resolves(Head(run[q].todo))

AInv == TypeOK /\ Ready /\ Exclusive /\ KnownKept /\ LogKnown /\ OutagesAttributed

LEMMA PartialIn ==
    ASSUME NEW S, NEW T \in SUBSET Targets, NEW f \in [T -> S]
    PROVE  f \in Partial(S)
BY DEF Partial

LEMMA PartialOut ==
    ASSUME NEW S, NEW f \in Partial(S)
    PROVE  /\ DOMAIN f \subseteq Targets
           /\ f \in [DOMAIN f -> S]
           /\ \A t \in DOMAIN f : f[t] \in S
BY DEF Partial

LEMMA IdleType == Idle \in Run /\ DOMAIN Idle.mine = {} /\ Idle.stage = "idle"
<1>1. [t \in {} |-> t] \in Partial(Write)
  BY DEF Partial
<1> QED  BY <1>1 DEF Idle, Run

LEMMA ObsType ==
    ASSUME TypeOK, NEW q \in Requests, run[q].todo # <<>>
    PROVE  LET o == Head(run[q].todo)
           IN  /\ o \in Obs /\ o.target \in Targets /\ o.status \in ReachStatus
               /\ Resolves(o) => o.device \in Devices \cup {NoDevice}
               /\ Tail(run[q].todo) \in Seq(Obs)
<1>1. run[q].todo \in Seq(Obs)
  BY DEF TypeOK, Run
<1> QED  BY <1>1, HeadTailProperties DEF Obs, Resolves

(* Every step changes one run, and the tables only when that run commits.  *)
LEMMA PostType ==
    ASSUME TypeOK, NEW q \in Requests, Post(q)
    PROVE  /\ TypeOK'
           /\ \E b \in Batches[q] :
                 b \in Seq(Obs) /\ b # <<>> /\
                 run' = [run EXCEPT ![q] = [stage |-> "open", todo |-> b,
                                             prior |-> "unread", mine |-> Idle.mine]]
<1>1. PICK b \in Batches[q] :
         /\ b # <<>>
         /\ run' = [run EXCEPT ![q] = [stage |-> "open", todo |-> b,
                                       prior |-> "unread", mine |-> Idle.mine]]
  BY DEF Post
<1>2. b \in Seq(Obs)
  BY RequestAssumption
<1>3. [stage |-> "open", todo |-> b, prior |-> "unread", mine |-> Idle.mine] \in Run
  BY <1>2, IdleType DEF Run
<1>4. TypeOK'
  BY <1>1, <1>3 DEF TypeOK, Post
<1> QED  BY <1>1, <1>2, <1>4

LEMMA RaiseType ==
    ASSUME TypeOK, NEW q \in Requests, Raise(q)
    PROVE  TypeOK' /\ run'[q].stage = "failed"
BY DEF TypeOK, Raise, Run

LEMMA RowType ==
    ASSUME TypeOK, NEW t
    PROVE  /\ t \in DOMAIN row => row[t] \in Row /\ t \in Targets
           /\ Stored(t) \in ReachStatus \cup {"none"}
<1>1. row \in Partial(Row)
  BY DEF TypeOK
<1>2. t \in DOMAIN row => row[t] \in Row /\ t \in Targets
  BY <1>1, PartialOut
<1> QED  BY <1>2 DEF Stored, Row

LEMMA MineType ==
    ASSUME TypeOK, NEW q \in Requests
    PROVE  /\ Held(q) \subseteq Targets
           /\ run[q].mine \in [Held(q) -> Write]
           /\ \A t \in Held(q) : run[q].mine[t] \in Write
<1>1. run[q].mine \in Partial(Write)
  BY DEF TypeOK, Run
<1> QED  BY <1>1, PartialOut DEF Held

LEMMA ReadType ==
    ASSUME TypeOK, NEW q \in Requests, ReadPrior(q)
    PROVE  TypeOK' /\ run'[q] = [run[q] EXCEPT !.prior = Stored(Head(run[q].todo).target)]
<1>1. Stored(Head(run[q].todo).target) \in ReachStatus \cup {"none", "unread"}
  BY RowType
<1> QED  BY <1>1 DEF TypeOK, ReadPrior, Run

(* What an upsert writes.                                                  *)
NewWrite(q) ==
    [status |-> Head(run[q].todo).status,
     device |-> Coalesced(Head(run[q].todo).target, Head(run[q].todo).device),
     changed |-> Changed(run[q].prior, Head(run[q].todo).status)]
NewMine(q) ==
    [t \in Held(q) \cup {Head(run[q].todo).target} |->
        IF t = Head(run[q].todo).target THEN NewWrite(q) ELSE run[q].mine[t]]

LEMMA UpsertType ==
    ASSUME TypeOK, NEW q \in Requests, Upsert(q), Resolves(Head(run[q].todo))
    PROVE  /\ TypeOK'
           /\ run' = [run EXCEPT ![q] = [stage |-> "open", todo |-> Tail(run[q].todo),
                                         prior |-> "unread", mine |-> NewMine(q)]]
<1> DEFINE o == Head(run[q].todo)
<1>1. /\ o \in Obs /\ o.target \in Targets /\ o.status \in ReachStatus
      /\ o.device \in Devices \cup {NoDevice}
      /\ Tail(run[q].todo) \in Seq(Obs)
  BY ObsType DEF Upsert, Working
<1>2. run' = [run EXCEPT ![q] = [stage |-> "open", todo |-> Tail(run[q].todo),
                                 prior |-> "unread", mine |-> NewMine(q)]]
  BY DEF Upsert, NewMine, NewWrite, Held
<1>3. Coalesced(o.target, o.device) \in Devices \cup {NoDevice}
  BY <1>1, RowType DEF Coalesced, Row
<1>4. NewWrite(q) \in Write
  BY <1>1, <1>3 DEF NewWrite, Write, Changed
<1>5. NewMine(q) \in [Held(q) \cup {o.target} -> Write]
  BY <1>4, MineType DEF NewMine
<1>6. NewMine(q) \in Partial(Write)
  BY <1>1, <1>5, MineType, PartialIn
<1>7. [stage |-> "open", todo |-> Tail(run[q].todo),
       prior |-> "unread", mine |-> NewMine(q)] \in Run
  BY <1>1, <1>6 DEF Run
<1> QED  BY <1>2, <1>7 DEF TypeOK, Upsert

LEMMA CommitType ==
    ASSUME TypeOK, NEW q \in Requests, Commit(q)
    PROVE  /\ TypeOK'
           /\ run' = [run EXCEPT ![q] = Idle]
           /\ row' = [t \in DOMAIN row \cup Held(q) |->
                         IF t \in Held(q)
                         THEN [status |-> run[q].mine[t].status,
                               device |-> run[q].mine[t].device]
                         ELSE row[t]]
           /\ log' = [t \in Targets |-> Appended(t, run[q].mine)]
<1>1. /\ run' = [run EXCEPT ![q] = Idle]
      /\ row' = [t \in DOMAIN row \cup Held(q) |->
                    IF t \in Held(q)
                    THEN [status |-> run[q].mine[t].status,
                          device |-> run[q].mine[t].device]
                    ELSE row[t]]
      /\ log' = [t \in Targets |-> Appended(t, run[q].mine)]
  BY DEF Commit, Held
<1>2. row' \in [DOMAIN row \cup Held(q) -> Row]
  BY <1>1, RowType, MineType DEF Row, Write
<1>3. row' \in Partial(Row)
  BY <1>2, RowType, MineType, PartialIn
<1>4. ASSUME NEW t \in Targets
      PROVE  Appended(t, run[q].mine) \in Seq(Row)
  <2>1. log[t] \in Seq(Row)
    BY DEF TypeOK
  <2>2. t \in Held(q) => [status |-> run[q].mine[t].status,
                          device |-> run[q].mine[t].device] \in Row
    BY MineType DEF Row, Write
  <2> QED  BY <2>1, <2>2 DEF Appended, Held
<1> QED  BY <1>1, <1>3, <1>4, IdleType DEF TypeOK

LEMMA AbortType ==
    ASSUME TypeOK, NEW q \in Requests, Abort(q)
    PROVE  TypeOK' /\ run' = [run EXCEPT ![q] = Idle]
BY IdleType DEF TypeOK, Abort

----------------------------------------------------------------------------
(* The steps that leave the tables alone.                                  *)

LEMMA StepQuiet ==
    ASSUME AInv, TypeOK', Ready', Exclusive', UNCHANGED <<row, log>>,
           NEW q \in Requests, \A p \in Requests \ {q} : run'[p] = run[p],
           Open(q)' => \A t \in Held(q)' :
               Known(t) => run'[q].mine[t].device # NoDevice
    PROVE  AInv'
<1>1. KnownKept'
  BY DEF AInv, KnownKept, Known, Open, Held
<1>2. LogKnown' /\ OutagesAttributed'
  BY DEF AInv, LogKnown, OutagesAttributed, Known
<1> QED  BY <1>1, <1>2 DEF AInv

(* A run that is no longer open, or holds nothing yet.                     *)
LEMMA StepEmpty ==
    ASSUME AInv, TypeOK', UNCHANGED <<row, log>>,
           NEW q \in Requests, \A p \in Requests \ {q} : run'[p] = run[p],
           Open(q)' => Held(q)' = {} /\ run'[q].prior = "unread"
    PROVE  AInv'
<1>1. Ready'
  BY DEF AInv, Ready, Open
<1>2. Exclusive'
  BY DEF AInv, Exclusive, Open, Held
<1> QED  BY <1>1, <1>2, StepQuiet

LEMMA ReadKeeps ==
    ASSUME AInv, NEW q \in Requests, ReadPrior(q)
    PROVE  AInv'
<1>1. TypeOK' /\ run'[q] = [run[q] EXCEPT !.prior = Stored(Head(run[q].todo).target)]
  BY ReadType DEF AInv
<1>2. run[q] \in Run
  BY DEF AInv, TypeOK
<1>3. /\ run'[q].stage = run[q].stage /\ run'[q].todo = run[q].todo
      /\ run'[q].mine = run[q].mine
  BY <1>1, <1>2 DEF Run
<1>4. \A p \in Requests \ {q} : run'[p] = run[p]
  BY DEF ReadPrior, AInv, TypeOK
<1>5. UNCHANGED <<row, log>>
  BY DEF ReadPrior
<1>6. Ready'
  BY <1>3, <1>4 DEF AInv, Ready, ReadPrior, Working, Open
<1>7. Exclusive'
  BY <1>3, <1>4 DEF AInv, Exclusive, Open, Held
<1>8. Open(q)' => \A t \in Held(q)' : Known(t) => run'[q].mine[t].device # NoDevice
  BY <1>3 DEF AInv, KnownKept, Open, Held
<1> QED  BY <1>1, <1>4, <1>5, <1>6, <1>7, <1>8, StepQuiet

(* An upsert waits until no other open run holds the target, and keeps the *)
(* device it then finds.                                                   *)
LEMMA UpsertKeeps ==
    ASSUME AInv, NEW q \in Requests, Upsert(q)
    PROVE  AInv'
<1> DEFINE o == Head(run[q].todo)
<1>1. Open(q) /\ Resolves(o) /\ ~Locked(q, o.target) /\ UNCHANGED <<row, log>>
  BY DEF Upsert, Working, AInv, Ready, Open
<1>2. TypeOK' /\ run' = [run EXCEPT ![q] =
         [stage |-> "open", todo |-> Tail(run[q].todo),
          prior |-> "unread", mine |-> NewMine(q)]]
  BY <1>1, UpsertType DEF AInv
<1>3. /\ \A p \in Requests \ {q} : run'[p] = run[p]
      /\ run'[q].mine = NewMine(q) /\ run'[q].prior = "unread"
  BY <1>2 DEF AInv, TypeOK
<1>4. Held(q)' = Held(q) \cup {o.target}
  BY <1>3 DEF Held, NewMine
<1>5. Ready'
  BY <1>3 DEF AInv, Ready, Open
<1>6. \A p \in Requests \ {q} : Open(p) => Held(p) \cap (Held(q) \cup {o.target}) = {}
  BY <1>1 DEF AInv, Exclusive, Locked, Open, Held
<1>7. Exclusive'
  BY <1>3, <1>4, <1>6 DEF AInv, Exclusive, Open, Held
<1>8. ASSUME NEW t \in Held(q)', Known(t)
      PROVE  run'[q].mine[t].device # NoDevice
  <2>1. CASE t = o.target
    <3>1. run'[q].mine[t].device = Coalesced(t, o.device)
      BY <1>3, <2>1 DEF NewMine, NewWrite
    <3> QED  BY <1>8, <3>1 DEF Coalesced, Known
  <2>2. CASE t # o.target
    <3>1. t \in Held(q) /\ run'[q].mine[t] = run[q].mine[t]
      BY <1>3, <1>4, <1>8, <2>2 DEF NewMine
    <3> QED  BY <1>1, <1>8, <3>1 DEF AInv, KnownKept
  <2> QED  BY <2>1, <2>2
<1> QED  BY <1>1, <1>2, <1>3, <1>5, <1>7, <1>8, StepQuiet

(* A commit turns what the run held into rows and transitions.             *)
LEMMA CommitKeeps ==
    ASSUME AInv, NEW q \in Requests, Commit(q)
    PROVE  AInv'
<1>1. /\ TypeOK'
      /\ run' = [run EXCEPT ![q] = Idle]
      /\ row' = [t \in DOMAIN row \cup Held(q) |->
                    IF t \in Held(q)
                    THEN [status |-> run[q].mine[t].status,
                          device |-> run[q].mine[t].device]
                    ELSE row[t]]
      /\ log' = [t \in Targets |-> Appended(t, run[q].mine)]
  BY CommitType DEF AInv
<1>2. Open(q)
  BY DEF Commit, Open
<1>3. /\ run'[q].stage = "idle"
      /\ \A p \in Requests \ {q} : run'[p] = run[p]
  BY <1>1, IdleType DEF AInv, TypeOK
<1>4. Ready' /\ Exclusive'
  BY <1>3 DEF AInv, Ready, Exclusive, Open, Held
<1>5. \A t : t \in Held(q) => (Known(t)' <=> run[q].mine[t].device # NoDevice)
  BY <1>1 DEF Known
<1>6. \A t : t \notin Held(q) => (Known(t)' <=> Known(t))
  BY <1>1 DEF Known
<1>7. KnownKept'
  <2> SUFFICES ASSUME NEW p \in Requests, Open(p)', NEW t \in Held(p)', Known(t)'
               PROVE  run'[p].mine[t].device # NoDevice
    BY DEF KnownKept
  <2>1. p # q /\ Open(p) /\ t \in Held(p) /\ run'[p] = run[p]
    BY <1>3 DEF Open, Held
  <2>2. t \notin Held(q)
    BY <1>2, <2>1 DEF AInv, Exclusive
  <2> QED  BY <1>6, <2>1, <2>2 DEF AInv, KnownKept
<1>8. ASSUME NEW t \in Targets
      PROVE  \/ log'[t] = log[t]
             \/ /\ t \in Held(q)
                /\ log'[t] = Append(log[t], [status |-> run[q].mine[t].status,
                                             device |-> run[q].mine[t].device])
  BY <1>1 DEF Appended, Held
<1>9. \A t : Known(t) => Known(t)'
  BY <1>2, <1>5, <1>6 DEF AInv, KnownKept
<1>10. ASSUME NEW t \in Targets
       PROVE  /\ log'[t] # <<>> /\ log'[t][Len(log'[t])].device # NoDevice => Known(t)'
              /\ \A i \in 1..(Len(log'[t]) - 1) :
                    log'[t][i].device # NoDevice => log'[t][i + 1].device # NoDevice
  <2>1. log[t] \in Seq(Row)
    BY DEF AInv, TypeOK
  <2>2. CASE log'[t] = log[t]
    BY <1>9, <2>2 DEF AInv, LogKnown, OutagesAttributed
  <2>3. CASE /\ t \in Held(q)
             /\ log'[t] = Append(log[t], [status |-> run[q].mine[t].status,
                                          device |-> run[q].mine[t].device])
    <3> DEFINE n == Len(log[t])
    <3>1. /\ n \in Nat /\ Len(log'[t]) = n + 1
          /\ log'[t][n + 1].device = run[q].mine[t].device
          /\ \A i \in 1..n : log'[t][i] = log[t][i]
      BY <2>1, <2>3
    <3>2. log'[t][n + 1].device # NoDevice <=> Known(t)'
      BY <1>5, <2>3, <3>1
    <3>3. ASSUME NEW i \in 1..n, log'[t][i].device # NoDevice
          PROVE  log'[t][i + 1].device # NoDevice
      <4>1. CASE i = n
        <5>1. log[t] # <<>> /\ log[t][n].device # NoDevice
          BY <2>1, <3>1, <3>3, <4>1
        <5>2. Known(t)
          BY <5>1 DEF AInv, LogKnown
        <5> QED  BY <1>9, <3>2, <4>1, <5>2
      <4>2. CASE i # n
        <5>1. i \in 1..(n - 1) /\ i + 1 \in 1..n
          BY <3>1, <4>2
        <5> QED  BY <3>1, <3>3, <5>1 DEF AInv, OutagesAttributed
      <4> QED  BY <4>1, <4>2
    <3> QED  BY <3>1, <3>2, <3>3
  <2> QED  BY <1>8, <2>2, <2>3
<1>11. LogKnown' /\ OutagesAttributed'
  BY <1>10 DEF LogKnown, OutagesAttributed
<1> QED  BY <1>1, <1>4, <1>7, <1>11 DEF AInv

LEMMA AInvInit == Init => AInv
<1> SUFFICES ASSUME Init
             PROVE  AInv
  OBVIOUS
<1>1. TypeOK
  <2>1. row \in Partial(Row)
    BY DEF Init, Partial
  <2> QED  BY <2>1, IdleType DEF Init, TypeOK
<1>2. \A q \in Requests : ~Open(q)
  BY IdleType DEF Init, Open
<1>3. \A t \in Targets : log[t] = <<>>
  BY DEF Init
<1> QED  BY <1>1, <1>2, <1>3 DEF AInv, Ready, Exclusive, KnownKept, LogKnown,
                                OutagesAttributed

LEMMA AInvStep == AInv /\ [Next]_vars => AInv'
<1> SUFFICES ASSUME AInv, [Next]_vars
             PROVE  AInv'
  OBVIOUS
<1>1. ASSUME NEW q \in Requests, Post(q)
      PROVE  AInv'
  <2>1. TypeOK' /\ run'[q].prior = "unread" /\ run'[q].mine = Idle.mine
    BY <1>1, PostType DEF AInv, TypeOK
  <2>2. \A p \in Requests \ {q} : run'[p] = run[p]
    BY <1>1, PostType DEF AInv, TypeOK
  <2>3. UNCHANGED <<row, log>>
    BY <1>1 DEF Post
  <2> QED  BY <2>1, <2>2, <2>3, IdleType, StepEmpty DEF Held
<1>2. ASSUME NEW q \in Requests, Raise(q)
      PROVE  AInv'
  <2>1. TypeOK' /\ run'[q].stage = "failed"
    BY <1>2, RaiseType DEF AInv
  <2>2. \A p \in Requests \ {q} : run'[p] = run[p]
    BY <1>2 DEF Raise, AInv, TypeOK
  <2> QED  BY <1>2, <2>1, <2>2, StepEmpty DEF Open, Raise
<1>3. ASSUME NEW q \in Requests, Abort(q)
      PROVE  AInv'
  <2>1. TypeOK' /\ run' = [run EXCEPT ![q] = Idle]
    BY <1>3, AbortType DEF AInv
  <2>2. run'[q].stage = "idle" /\ \A p \in Requests \ {q} : run'[p] = run[p]
    BY <2>1, IdleType DEF AInv, TypeOK
  <2> QED  BY <1>3, <2>1, <2>2, StepEmpty DEF Open, Abort
<1>4. CASE UNCHANGED vars
  BY <1>4 DEF vars, AInv, TypeOK, Ready, Exclusive, KnownKept, LogKnown,
              OutagesAttributed, Open, Held, Known
<1> QED  BY <1>1, <1>2, <1>3, <1>4, ReadKeeps, UpsertKeeps, CommitKeeps DEF Next

(* The tables and the open transactions keep their shape; in particular no *)
(* claim without an identity is ever stored as a device.                   *)
THEOREM ReachabilityType == Spec => []TypeOK
<1>1. AInv => TypeOK
  BY DEF AInv
<1> QED  BY <1>1, AInvInit, AInvStep, PTL DEF Spec

(* No outage of a target loses its device, however many runs of the same   *)
(* inventory are open together.                                            *)
THEOREM AttributionHolds == Spec => []OutagesAttributed
<1>1. AInv => OutagesAttributed
  BY DEF AInv
<1> QED  BY <1>1, AInvInit, AInvStep, PTL DEF Spec

----------------------------------------------------------------------------
(* The refinement.  A run computes its transitions against the rows it     *)
(* read, and they are still the committed ones when it commits, because    *)
(* nobody else records the targets of its inventory.                       *)

Names(q) ==
    {t \in Targets : \E batch \in Batches[q] : \E i \in DOMAIN batch : batch[i].target = t}

OwnTargets == \A p, q \in Requests : p # q => Names(p) \cap Names(q) = {}

Own ==
    \A q \in Requests : Open(q) =>
        /\ \A i \in 1..Len(run[q].todo) : run[q].todo[i].target \in Names(q)
        /\ Held(q) \subseteq Names(q)
PriorFresh ==
    \A q \in Requests : Open(q) /\ run[q].prior # "unread" =>
        run[q].prior = Stored(Head(run[q].todo).target)
ChangedFresh ==
    \A q \in Requests : Open(q) =>
        \A t \in Held(q) : run[q].mine[t].changed <=> Stored(t) # run[q].mine[t].status

RInv == AInv /\ Own /\ PriorFresh /\ ChangedFresh

LEMMA HeadTail ==
    ASSUME NEW S, NEW s \in Seq(S), s # <<>>
    PROVE  /\ Len(s) \in Nat /\ Len(s) > 0 /\ Head(s) = s[1] /\ Head(s) \in S
           /\ Tail(s) \in Seq(S) /\ Len(Tail(s)) = Len(s) - 1
           /\ \A i \in 1..Len(Tail(s)) : Tail(s)[i] = s[i + 1]
BY HeadTailProperties

LEMMA HeadNamed ==
    ASSUME RInv, NEW q \in Requests, Open(q), run[q].todo # <<>>
    PROVE  Head(run[q].todo).target \in Names(q)
<1>1. run[q].todo \in Seq(Obs)
  BY DEF RInv, AInv, TypeOK, Run
<1>2. Head(run[q].todo) = run[q].todo[1] /\ 1 \in 1..Len(run[q].todo)
  BY <1>1, HeadTail
<1> QED  BY <1>2 DEF RInv, Own

(* A step of one run that leaves the tables alone.                         *)
LEMMA QuietFresh ==
    ASSUME RInv, AInv', UNCHANGED <<row, log>>,
           NEW q \in Requests, \A p \in Requests \ {q} : run'[p] = run[p],
           Open(q)' =>
              /\ \A i \in 1..Len(run'[q].todo) : run'[q].todo[i].target \in Names(q)
              /\ Held(q)' \subseteq Names(q)
              /\ run'[q].prior # "unread" =>
                    run'[q].prior = Stored(Head(run'[q].todo).target)
              /\ \A t \in Held(q)' :
                    run'[q].mine[t].changed <=> Stored(t) # run'[q].mine[t].status
    PROVE  RInv'
<1>1. \A t : Stored(t)' = Stored(t)
  BY DEF Stored
<1>2. Own'
  BY DEF RInv, Own, Open, Held
<1>3. PriorFresh'
  BY <1>1 DEF RInv, PriorFresh, Open
<1>4. ChangedFresh'
  BY <1>1 DEF RInv, ChangedFresh, Open, Held
<1> QED  BY <1>2, <1>3, <1>4 DEF RInv

LEMMA PostFresh ==
    ASSUME RInv, AInv', NEW q \in Requests, Post(q)
    PROVE  RInv'
<1>1. PICK b \in Batches[q] :
         b \in Seq(Obs) /\ b # <<>> /\
         run' = [run EXCEPT ![q] = [stage |-> "open", todo |-> b,
                                     prior |-> "unread", mine |-> Idle.mine]]
  BY PostType DEF RInv, AInv
<1>2. /\ run'[q].todo = b /\ run'[q].prior = "unread" /\ run'[q].mine = Idle.mine
      /\ \A p \in Requests \ {q} : run'[p] = run[p]
  BY <1>1 DEF RInv, AInv, TypeOK
<1>3. \A i \in 1..Len(b) : b[i].target \in Names(q)
  BY <1>1 DEF Names, Obs
<1>4. UNCHANGED <<row, log>>
  BY DEF Post
<1>5. Held(q)' = {}
  BY <1>2, IdleType DEF Held
<1> QED  BY <1>2, <1>3, <1>4, <1>5, QuietFresh

LEMMA ReadFresh ==
    ASSUME RInv, AInv', NEW q \in Requests, ReadPrior(q)
    PROVE  RInv'
<1>1. run'[q] = [run[q] EXCEPT !.prior = Stored(Head(run[q].todo).target)]
  BY ReadType DEF RInv, AInv
<1>2. run[q] \in Run
  BY DEF RInv, AInv, TypeOK
<1>3. /\ run'[q].todo = run[q].todo /\ run'[q].mine = run[q].mine
      /\ run'[q].prior = Stored(Head(run[q].todo).target)
  BY <1>1, <1>2 DEF Run
<1>4. /\ \A p \in Requests \ {q} : run'[p] = run[p]
      /\ UNCHANGED <<row, log>> /\ Open(q)
  BY DEF ReadPrior, RInv, AInv, TypeOK, Working, Open
<1>5. Held(q)' = Held(q)
  BY <1>3 DEF Held
<1>6. /\ \A i \in 1..Len(run'[q].todo) : run'[q].todo[i].target \in Names(q)
      /\ Held(q)' \subseteq Names(q)
  BY <1>3, <1>4, <1>5 DEF RInv, Own
<1>7. \A t \in Held(q)' :
         run'[q].mine[t].changed <=> Stored(t) # run'[q].mine[t].status
  BY <1>3, <1>4, <1>5 DEF RInv, ChangedFresh
<1> QED  BY <1>3, <1>4, <1>6, <1>7, QuietFresh

LEMMA UpsertFresh ==
    ASSUME RInv, AInv', NEW q \in Requests, Upsert(q)
    PROVE  RInv'
<1> DEFINE o == Head(run[q].todo)
<1>1. /\ Open(q) /\ Resolves(o) /\ run[q].todo # <<>>
      /\ run[q].prior # "unread" /\ UNCHANGED <<row, log>>
  BY DEF Upsert, Working, RInv, AInv, Ready, Open
<1>2. run' = [run EXCEPT ![q] = [stage |-> "open", todo |-> Tail(run[q].todo),
                                 prior |-> "unread", mine |-> NewMine(q)]]
  BY <1>1, UpsertType DEF RInv, AInv
<1>3. /\ \A p \in Requests \ {q} : run'[p] = run[p]
      /\ run'[q].mine = NewMine(q) /\ run'[q].prior = "unread"
      /\ run'[q].todo = Tail(run[q].todo)
  BY <1>2 DEF RInv, AInv, TypeOK
<1>4. Held(q)' = Held(q) \cup {o.target}
  BY <1>3 DEF Held, NewMine
<1>5. o.target \in Names(q)
  BY <1>1, HeadNamed
<1>6. \A i \in 1..Len(run'[q].todo) : run'[q].todo[i].target \in Names(q)
  <2>1. run[q].todo \in Seq(Obs)
    BY DEF RInv, AInv, TypeOK, Run
  <2>2. \A i \in 1..Len(Tail(run[q].todo)) :
           /\ i + 1 \in 1..Len(run[q].todo)
           /\ Tail(run[q].todo)[i] = run[q].todo[i + 1]
    BY <1>1, <2>1, HeadTail
  <2> QED  BY <1>1, <1>3, <2>2 DEF RInv, Own
<1>7. Held(q)' \subseteq Names(q)
  BY <1>1, <1>4, <1>5 DEF RInv, Own
<1>8. ASSUME NEW t \in Held(q)'
      PROVE  run'[q].mine[t].changed <=> Stored(t) # run'[q].mine[t].status
  <2>1. CASE t = o.target
    <3>1. /\ run'[q].mine[t].changed = Changed(run[q].prior, o.status)
          /\ run'[q].mine[t].status = o.status
      BY <1>3, <2>1 DEF NewMine, NewWrite
    <3>2. run[q].prior = Stored(t)
      BY <1>1, <2>1 DEF RInv, PriorFresh
    <3> QED  BY <3>1, <3>2 DEF Changed
  <2>2. CASE t # o.target
    <3>1. t \in Held(q) /\ run'[q].mine[t] = run[q].mine[t]
      BY <1>3, <1>4, <1>8, <2>2 DEF NewMine
    <3> QED  BY <1>1, <3>1 DEF RInv, ChangedFresh
  <2> QED  BY <2>1, <2>2
<1> QED  BY <1>1, <1>3, <1>6, <1>7, <1>8, QuietFresh

LEMMA CommitFresh ==
    ASSUME OwnTargets, RInv, AInv', NEW q \in Requests, Commit(q)
    PROVE  RInv'
<1>1. /\ run' = [run EXCEPT ![q] = Idle]
      /\ row' = [t \in DOMAIN row \cup Held(q) |->
                    IF t \in Held(q)
                    THEN [status |-> run[q].mine[t].status,
                          device |-> run[q].mine[t].device]
                    ELSE row[t]]
  BY CommitType DEF RInv, AInv
<1>2. Open(q)
  BY DEF Commit, Open
<1>3. ~Open(q)' /\ \A p \in Requests \ {q} : run'[p] = run[p]
  BY <1>1, IdleType DEF RInv, AInv, TypeOK, Open
<1>4. \A t : t \notin Held(q) => Stored(t)' = Stored(t)
  BY <1>1 DEF Stored
<1>5. \A p \in Requests \ {q} : \A t \in Names(p) : t \notin Held(q)
  BY <1>2 DEF OwnTargets, RInv, Own
<1>6. Own'
  BY <1>3 DEF RInv, Own, Open, Held
<1>7. PriorFresh'
  <2> SUFFICES ASSUME NEW p \in Requests, Open(p)', run'[p].prior # "unread"
               PROVE  run'[p].prior = Stored(Head(run[p].todo).target)'
    BY DEF PriorFresh
  <2>1. p # q /\ run'[p] = run[p] /\ Open(p)
    BY <1>3 DEF Open
  <2>2. run[p].todo # <<>>
    BY <2>1 DEF RInv, AInv, Ready
  <2>3. Head(run[p].todo).target \notin Held(q)
    BY <1>5, <2>1, <2>2, HeadNamed
  <2> QED  BY <1>4, <2>1, <2>3 DEF RInv, PriorFresh
<1>8. ChangedFresh'
  <2> SUFFICES ASSUME NEW p \in Requests, Open(p)', NEW t \in Held(p)'
               PROVE  run'[p].mine[t].changed <=> Stored(t)' # run'[p].mine[t].status
    BY DEF ChangedFresh
  <2>1. p # q /\ run'[p] = run[p] /\ Open(p) /\ t \in Held(p)
    BY <1>3 DEF Open, Held
  <2>2. t \notin Held(q)
    BY <1>5, <2>1 DEF RInv, Own
  <2> QED  BY <1>4, <2>1, <2>2 DEF RInv, ChangedFresh
<1> QED  BY <1>6, <1>7, <1>8 DEF RInv

LEMMA EndFresh ==
    ASSUME RInv, AInv', NEW q \in Requests, Raise(q) \/ Abort(q)
    PROVE  RInv'
<1>1. /\ UNCHANGED <<row, log>>
      /\ \A p \in Requests \ {q} : run'[p] = run[p]
  BY DEF Raise, Abort, RInv, AInv, TypeOK
<1>2. CASE Raise(q)
  BY <1>1, <1>2, RaiseType, QuietFresh DEF Open, RInv, AInv
<1>3. CASE Abort(q)
  <2>1. run'[q].stage = "idle"
    BY <1>3, IdleType DEF Abort, RInv, AInv, TypeOK
  <2> QED  BY <1>1, <2>1, QuietFresh DEF Open
<1> QED  BY <1>2, <1>3

(* A commit is one abstract step: what the run held, recorded at once.     *)
LEMMA CommitRecords ==
    ASSUME RInv, NEW q \in Requests, Commit(q)
    PROVE  Abstract!Next
<1> DEFINE given(t) == [status |-> run[q].mine[t].status,
                        device |-> run[q].mine[t].device]
           answers == [t \in Held(q) |-> given(t)]
<1>1. Open(q)
  BY DEF Commit, Open
<1>2. /\ row' = [t \in DOMAIN row \cup Held(q) |->
                    IF t \in Held(q) THEN given(t) ELSE row[t]]
      /\ log' = [t \in Targets |-> Appended(t, run[q].mine)]
  BY CommitType DEF RInv, AInv
<1>3. Held(q) \subseteq Targets /\ \A t \in Held(q) : run[q].mine[t] \in Write
  BY MineType DEF RInv, AInv
<1>4. \A t \in Held(q) : given(t) \in Row
  BY <1>3 DEF Row, Write
<1>5. answers \in Abstract!Answers
  <2>1. answers \in [Held(q) -> Abstract!Row]
    BY <1>4 DEF Row, ReachStatus, Abstract!Row, Abstract!ReachStatus
  <2> HIDE DEF answers
  <2> QED  BY <1>3, <2>1 DEF Abstract!Answers
<1>6. ASSUME NEW t \in Held(q)
      PROVE  /\ Abstract!Merged(t, answers[t]) = given(t)
             /\ Abstract!Transition(t, answers[t]) <=> run[q].mine[t].changed
  <2>1. answers[t] = given(t) /\ run[q].mine[t] \in Write
    BY <1>3
  <2>2. given(t).device = NoDevice /\ t \in DOMAIN row => row[t].device = NoDevice
    BY <1>1 DEF RInv, AInv, KnownKept, Known
  <2>3. [given(t) EXCEPT !.device = given(t).device] = given(t)
    OBVIOUS
  <2>4. Abstract!Merged(t, answers[t]) = given(t)
    BY <2>1, <2>2, <2>3 DEF Abstract!Merged
  <2>5. run[q].mine[t].status # "none"
    BY <2>1 DEF Write, ReachStatus
  <2>6. run[q].mine[t].changed <=> Stored(t) # run[q].mine[t].status
    BY <1>1 DEF RInv, ChangedFresh
  <2>7. Abstract!Transition(t, answers[t]) <=> Stored(t) # run[q].mine[t].status
    BY <2>1, <2>5 DEF Abstract!Transition, Stored
  <2> QED  BY <2>4, <2>6, <2>7
<1>7. DOMAIN answers = Held(q)
  OBVIOUS
<1> HIDE DEF answers
<1>8. row' = [t \in DOMAIN row \cup DOMAIN answers |->
                 IF t \in DOMAIN answers
                 THEN Abstract!Merged(t, answers[t]) ELSE row[t]]
  BY <1>2, <1>6, <1>7
<1>9. log' = [t \in Targets |->
                 IF t \in DOMAIN answers /\ Abstract!Transition(t, answers[t])
                 THEN Append(log[t], Abstract!Merged(t, answers[t])) ELSE log[t]]
  <2>1. \A t \in Targets :
           Appended(t, run[q].mine) =
              IF t \in DOMAIN answers /\ Abstract!Transition(t, answers[t])
              THEN Append(log[t], Abstract!Merged(t, answers[t])) ELSE log[t]
    BY <1>6, <1>7 DEF Appended, Held
  <2> QED  BY <1>2, <2>1
<1>10. Abstract!Record(answers)
  BY <1>8, <1>9 DEF Abstract!Record
<1> QED  BY <1>5, <1>10 DEF Abstract!Next

(* Where no two requests share a target, ingesting runs concurrently is    *)
(* recording them one after the other: every transition once, none lost.   *)
THEOREM DisjointRunsRecord ==
    ASSUME OwnTargets
    PROVE  Spec => RecordsTransitions
<1>1. Init => RInv /\ Abstract!Init
  <2>1. Init => \A q \in Requests : ~Open(q)
    BY IdleType DEF Init, Open
  <2> QED  BY <2>1, AInvInit DEF RInv, Own, PriorFresh, ChangedFresh, Init, Abstract!Init
<1>2. RInv /\ [Next]_vars => RInv' /\ [Abstract!Next]_<<row, log>>
  <2> SUFFICES ASSUME RInv, [Next]_vars
               PROVE  RInv' /\ [Abstract!Next]_<<row, log>>
    OBVIOUS
  <2>1. AInv'
    BY AInvStep DEF RInv
  <2>2. ASSUME NEW q \in Requests, Post(q)
        PROVE  RInv' /\ UNCHANGED <<row, log>>
    BY <2>1, <2>2, PostFresh DEF Post
  <2>3. ASSUME NEW q \in Requests, Raise(q) \/ Abort(q)
        PROVE  RInv' /\ UNCHANGED <<row, log>>
    BY <2>1, <2>3, EndFresh DEF Raise, Abort
  <2>4. ASSUME NEW q \in Requests, ReadPrior(q)
        PROVE  RInv' /\ UNCHANGED <<row, log>>
    BY <2>1, <2>4, ReadFresh DEF ReadPrior
  <2>5. ASSUME NEW q \in Requests, Upsert(q)
        PROVE  RInv' /\ UNCHANGED <<row, log>>
    BY <2>1, <2>5, UpsertFresh DEF Upsert
  <2>6. ASSUME NEW q \in Requests, Commit(q)
        PROVE  RInv' /\ Abstract!Next
    BY <2>1, <2>6, CommitFresh, CommitRecords
  <2>7. CASE UNCHANGED vars
    <3>1. UNCHANGED <<row, log>>
      BY <2>7 DEF vars
    <3>2. RInv'
      BY <2>1, <2>7 DEF vars, RInv, Own, PriorFresh, ChangedFresh, Open, Held, Stored
    <3> QED  BY <3>1, <3>2
  <2> QED  BY <2>2, <2>3, <2>4, <2>5, <2>6, <2>7 DEF Next
<1> QED  BY <1>1, <1>2, PTL DEF Spec, RecordsTransitions, Abstract!Spec

(* What the abstract log promises: it tells the story of each target.      *)

Typed ==
    /\ DOMAIN row \subseteq Targets
    /\ \A t \in DOMAIN row : row[t] \in Abstract!Row
    /\ log \in [Targets -> Seq(Abstract!Row)]

(* The clauses of LogTellsRow for one target, about a row and a log that   *)
(* may be the next ones.                                                   *)
Tells(t, rows, l) ==
    /\ t \in DOMAIN rows <=> l # <<>>
    /\ l # <<>> => l[Len(l)].status = rows[t].status
    /\ \A i \in 1..(Len(l) - 1) : l[i].status # l[i + 1].status

(* An answer is stored under its own status, whatever device it keeps.     *)
LEMMA MergedFacts ==
    ASSUME Typed, NEW t \in Targets, NEW o \in Abstract!Row
    PROVE  Abstract!Merged(t, o) \in Abstract!Row /\ Abstract!Merged(t, o).status = o.status
<1>1. CASE o.device = NoDevice /\ t \in DOMAIN row
  <2>1. row[t].device \in Devices \cup {NoDevice}
    BY <1>1 DEF Typed, Abstract!Row
  <2> QED  BY <1>1, <2>1 DEF Abstract!Merged, Abstract!Row
<1>2. CASE ~(o.device = NoDevice /\ t \in DOMAIN row)
  BY <1>2 DEF Abstract!Merged
<1> QED  BY <1>1, <1>2

(* A new last entry disagrees with the one before it, if there is one.     *)
LEMMA AppendTells ==
    ASSUME NEW t, NEW rows, NEW l \in Seq(Abstract!Row), NEW w \in Abstract!Row,
           t \in DOMAIN rows, rows[t].status = w.status,
           \A i \in 1..(Len(l) - 1) : l[i].status # l[i + 1].status,
           l # <<>> => l[Len(l)].status # w.status
    PROVE  Tells(t, rows, Append(l, w))
<1> DEFINE m == Append(l, w)
<1>1. /\ Len(l) \in Nat /\ Len(m) = Len(l) + 1
      /\ m[Len(l) + 1] = w
      /\ \A i \in 1..Len(l) : m[i] = l[i]
      /\ m # <<>> /\ (Len(l) # 0 => l # <<>>)
  BY AppendProperties
<1>2. ASSUME NEW i \in 1..(Len(m) - 1) PROVE m[i].status # m[i + 1].status
  <2>1. i \in 1..Len(l)
    BY <1>1
  <2>2. CASE i = Len(l)
    <3> HIDE DEF m
    <3> QED  BY <1>1, <2>1, <2>2
  <2>3. CASE i # Len(l)
    <3>1. i \in 1..(Len(l) - 1) /\ i + 1 \in 1..Len(l)
      BY <1>1, <2>1, <2>3
    <3> HIDE DEF m
    <3> QED  BY <1>1, <2>1, <3>1
  <2> QED  BY <2>2, <2>3
<1> HIDE DEF m
<1>3. Tells(t, rows, m)
  BY <1>1, <1>2 DEF Tells
<1> QED  BY <1>3 DEF m

LEMMA RecordTells ==
    ASSUME Typed, Abstract!LogTellsRow, NEW answers \in Abstract!Answers, Abstract!Record(answers)
    PROVE  Typed' /\ Abstract!LogTellsRow'
<1>1. /\ DOMAIN answers \subseteq Targets
      /\ \A t \in DOMAIN answers : answers[t] \in Abstract!Row
  BY DEF Abstract!Answers
<1>2. /\ DOMAIN row' = DOMAIN row \cup DOMAIN answers
      /\ \A t \in DOMAIN answers : row'[t] = Abstract!Merged(t, answers[t])
      /\ \A t \in DOMAIN row \ DOMAIN answers : row'[t] = row[t]
  BY DEF Abstract!Record
<1>3. log' = [t \in Targets |->
                 IF t \in DOMAIN answers /\ Abstract!Transition(t, answers[t])
                 THEN Append(log[t], Abstract!Merged(t, answers[t])) ELSE log[t]]
  BY DEF Abstract!Record
<1>4. Typed'
  <2>1. \A t \in DOMAIN answers : Abstract!Merged(t, answers[t]) \in Abstract!Row
    BY <1>1, MergedFacts
  <2>2. \A t \in DOMAIN row' : row'[t] \in Abstract!Row
    BY <1>2, <2>1 DEF Typed
  <2>3. log' \in [Targets -> Seq(Abstract!Row)]
    <3>1. ASSUME NEW t \in Targets
          PROVE  (IF t \in DOMAIN answers /\ Abstract!Transition(t, answers[t])
                  THEN Append(log[t], Abstract!Merged(t, answers[t])) ELSE log[t]) \in Seq(Abstract!Row)
      BY <2>1, AppendProperties DEF Typed
    <3> QED  BY <1>3, <3>1
  <2> QED  BY <1>1, <1>2, <2>2, <2>3 DEF Typed
<1>5. ASSUME NEW t \in Targets PROVE Tells(t, row', log'[t])
  <2>1. Tells(t, row, log[t]) /\ log[t] \in Seq(Abstract!Row)
    BY DEF Abstract!LogTellsRow, Tells, Typed
  <2>2. CASE t \in DOMAIN answers /\ Abstract!Transition(t, answers[t])
    <3>1. /\ Abstract!Merged(t, answers[t]) \in Abstract!Row
          /\ Abstract!Merged(t, answers[t]).status = answers[t].status
      BY <1>1, <2>2, MergedFacts
    <3>2. log[t] # <<>> => log[t][Len(log[t])].status # answers[t].status
      BY <2>1, <2>2 DEF Tells, Abstract!Transition
    <3>3. t \in DOMAIN row' /\ row'[t] = Abstract!Merged(t, answers[t])
      BY <1>2, <2>2
    <3>4. log'[t] = Append(log[t], Abstract!Merged(t, answers[t]))
      BY <1>3, <2>2
    <3> QED  BY <2>1, <3>1, <3>2, <3>3, <3>4, AppendTells DEF Tells
  <2>3. CASE t \in DOMAIN answers /\ ~Abstract!Transition(t, answers[t])
    <3>1. t \in DOMAIN row /\ row[t].status = answers[t].status
      BY <2>3 DEF Abstract!Transition
    <3>2. t \in DOMAIN row' /\ row'[t].status = row[t].status
      BY <1>1, <1>2, <2>3, <3>1, MergedFacts
    <3>3. log'[t] = log[t]
      BY <1>3, <2>3
    <3> QED  BY <2>1, <3>1, <3>2, <3>3 DEF Tells
  <2>4. CASE t \notin DOMAIN answers
    <3>1. log'[t] = log[t]
      BY <1>3, <2>4
    <3>2. /\ t \in DOMAIN row' <=> t \in DOMAIN row
          /\ t \in DOMAIN row => row'[t] = row[t]
      BY <1>2, <2>4
    <3> QED  BY <2>1, <3>1, <3>2 DEF Tells
  <2> QED  BY <2>2, <2>3, <2>4
<1> QED  BY <1>4, <1>5 DEF Abstract!LogTellsRow, Tells

(* The log of a target ends with its current answer, and no two neighbours *)
(* in it agree: every entry is a transition and none is missing            *)
(* (LogTellsRow), for any targets and any number of runs.                  *)
THEOREM LogTells == Abstract!Spec => []Abstract!LogTellsRow
<1>1. Abstract!Init => Typed /\ Abstract!LogTellsRow
  BY DEF Abstract!Init, Typed, Abstract!LogTellsRow
<1>2. Typed /\ Abstract!LogTellsRow /\ [Abstract!Next]_<<row, log>> => Typed' /\ Abstract!LogTellsRow'
  <2> SUFFICES ASSUME Typed, Abstract!LogTellsRow, [Abstract!Next]_<<row, log>>
               PROVE  Typed' /\ Abstract!LogTellsRow'
    OBVIOUS
  <2>1. CASE Abstract!Next
    BY <2>1, RecordTells DEF Abstract!Next
  <2>2. CASE UNCHANGED <<row, log>>
    BY <2>2 DEF Typed, Abstract!LogTellsRow
  <2> QED  BY <2>1, <2>2
<1> QED  BY <1>1, <1>2, PTL DEF Abstract!Spec

(* So the log tells the story of every target (LogTellsRow): what two runs *)
(* that share a target can break needs the target to be shared.            *)
THEOREM DisjointRunsTellStory ==
    ASSUME OwnTargets
    PROVE  Spec => []LogTellsRow
<1>1. Spec => RecordsTransitions
  BY DisjointRunsRecord
<1>2. Abstract!LogTellsRow => LogTellsRow
  BY DEF LogTellsRow
<1> QED  BY <1>1, <1>2, LogTells, PTL DEF RecordsTransitions

============================================================================
