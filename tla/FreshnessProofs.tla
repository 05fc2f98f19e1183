-------------------------- MODULE FreshnessProofs --------------------------
(***************************************************************************)
(* How many failed polls a link survives, from the figures of the timer,   *)
(* the unit and the view.                                                  *)
(***************************************************************************)
EXTENDS Freshness, TLAPS

(* The tolerated failures, the poll after them and the longest cycle fit   *)
(* into the window, at the slowest pace of the timer.                      *)
Budget ==
    /\ Interval \in Nat /\ Jitter \in Nat /\ Limit \in Nat
    /\ Window \in Nat /\ Tolerated \in Nat
    /\ Mine \in {1, 2}
    /\ (Tolerated + 1) * (Interval + Jitter) + Limit < Window

Pace == Interval + Jitter

(* The cycles begun since the device was last heard: the failed ones, and  *)
(* the current one while the device's run is still ahead of it.            *)
Begun == missed + (IF done < Mine THEN 1 ELSE 0)

(* Evidence is not older than these cycles at the slowest pace.            *)
BInv ==
    /\ since \in 0..Pace
    /\ done \in 0..2
    /\ done < 2 => since <= Limit
    /\ missed \in 0..MissedBound
    /\ age \in 0..Window
    /\ missed <= Tolerated => age <= Begun * Pace + since /\ active = TRUE

LEMMA MinOf ==
    ASSUME NEW x \in Nat, NEW y \in Nat
    PROVE  Min({x, y}) = IF x <= y THEN x ELSE y
<1>1. \E m \in {x, y} : \A z \in {x, y} : m =< z
  <2>1. CASE x <= y
    <3> WITNESS x \in {x, y}
    <3> QED  BY <2>1
  <2>2. CASE y <= x
    <3> WITNESS y \in {x, y}
    <3> QED  BY <2>2
  <2> QED  BY <2>1, <2>2
<1>2. Min({x, y}) \in {x, y} /\ \A z \in {x, y} : Min({x, y}) =< z
  BY <1>1 DEF Min
<1> QED  BY <1>2

(* More cycles take more time.                                             *)
LEMMA MoreCycles ==
    ASSUME NEW x \in Nat, NEW y \in Nat, x <= y, NEW p \in Nat
    PROVE  x * p <= y * p /\ (x + 1) * p = x * p + p /\ x * p \in Nat
<1>1. PICK d \in Nat : y = x + d
  <2>1. y - x \in Nat /\ y = x + (y - x)
    OBVIOUS
  <2> QED  BY <2>1
<1>2. (x + d) * p = x * p + d * p /\ (x + 1) * p = x * p + p
  OBVIOUS
<1>3. d * p \in Nat /\ x * p \in Nat
  OBVIOUS
<1> QED  BY <1>1, <1>2, <1>3

(* Before the poll that ends them, the evidence of a link that lost no     *)
(* more than the tolerated polls is fresh.                                 *)
LEMMA StillFresh ==
    ASSUME Budget, BInv, missed <= Tolerated, done < 2,
           Begun <= Tolerated + 1
    PROVE  age < Window
<1>1. Begun \in Nat /\ Pace \in Nat /\ Tolerated + 1 \in Nat
  BY DEF Begun, BInv, Budget, Pace, MissedBound
<1>2. Begun * Pace <= (Tolerated + 1) * Pace /\ Begun * Pace \in Nat
      /\ (Tolerated + 1) * Pace \in Nat
  BY <1>1, MoreCycles
<1>3. age <= Begun * Pace + since /\ since <= Limit
  BY DEF BInv
<1>4. (Tolerated + 1) * Pace + Limit < Window
  BY DEF Budget, Pace
<1>5. /\ age \in Nat /\ since \in Nat /\ Limit \in Nat /\ Window \in Nat
  BY DEF BInv, Budget, Pace
<1> DEFINE x == Begun * Pace
           y == (Tolerated + 1) * Pace
<1> HIDE DEF x, y
<1>6. x <= y /\ x \in Nat /\ y \in Nat /\ age <= x + since /\ y + Limit < Window
  BY <1>2, <1>3, <1>4 DEF x, y
<1> QED  BY <1>3, <1>5, <1>6

LEMMA BudgetInit == Budget /\ Init => BInv
<1> SUFFICES ASSUME Budget, Init PROVE BInv
  OBVIOUS
<1>1. Begun = 0
  BY DEF Budget, Init, Begun
<1>2. 0 * Pace = 0 /\ Pace \in Nat
  BY DEF Budget, Pace
<1> QED  BY <1>1, <1>2 DEF Budget, Init, BInv, MissedBound

LEMMA BudgetStep == Budget /\ BInv /\ [Next]_vars => BInv'
<1> SUFFICES ASSUME Budget, BInv, [Next]_vars PROVE BInv'
  OBVIOUS
<1>0. /\ Pace \in Nat /\ Pace = Interval + Jitter /\ Limit \in Nat
      /\ Window \in Nat /\ Tolerated \in Nat /\ Mine \in {1, 2}
      /\ MissedBound = Tolerated + 1 /\ Begun \in Nat
  BY DEF Budget, Pace, MissedBound, Begun, BInv
<1>1. /\ MissedBy(Mine) = IF missed <= Tolerated THEN missed + 1 ELSE MissedBound
      /\ \A n : n # Mine => MissedBy(n) = missed
  <2>1. missed \in Nat /\ missed <= MissedBound
    BY <1>0 DEF BInv
  <2>2. Min({missed + 1, MissedBound}) =
            IF missed + 1 <= MissedBound THEN missed + 1 ELSE MissedBound
    BY <1>0, <2>1, MinOf
  <2> QED  BY <1>0, <2>1, <2>2 DEF MissedBy
<1>2. CASE Elapse
  <2>1. age' = IF age + 1 <= Window THEN age + 1 ELSE Window
    BY <1>0, <1>2, MinOf DEF Elapse, BInv
  <2>2. Begun' = Begun
    BY <1>2 DEF Elapse, Begun
  <2>3. Begun * Pace \in Nat
    BY <1>0, MoreCycles
  <2> DEFINE x == Begun * Pace
  <2>4. missed <= Tolerated => age' <= x + since'
    <3> HIDE DEF x
    <3>1. x \in Nat
      BY <2>3 DEF x
    <3>2. missed <= Tolerated => age <= x + since
      BY DEF BInv, x
    <3> QED  BY <1>0, <1>2, <2>1, <3>1, <3>2 DEF Elapse, BInv
  <2>5. Begun' * Pace = x
    BY <2>2
  <2>6. since' \in 0..Pace /\ (done' < 2 => since' <= Limit) /\ age' \in 0..Window
    BY <1>0, <1>2, <2>1 DEF Elapse, BInv
  <2> HIDE DEF x
  <2> QED  BY <1>0, <1>2, <2>4, <2>5, <2>6 DEF Elapse, BInv, Pace, MissedBound
<1>3. CASE Activate
  <2>1. Begun = missed /\ Begun' = missed + 1 /\ missed \in Nat
    BY <1>0, <1>3 DEF Activate, Begun, BInv
  <2>2. (missed + 1) * Pace = missed * Pace + Pace /\ missed * Pace \in Nat
    BY <1>0, <2>1, MoreCycles
  <2> DEFINE x == missed * Pace
             y == (missed + 1) * Pace
  <2>3. missed <= Tolerated => age <= y
    <3>1. missed <= Tolerated => age <= x + since
      BY <2>1 DEF BInv
    <3>2. since <= Pace /\ since \in Nat /\ age \in Nat
      BY <1>0 DEF BInv
    <3>3. y = x + Pace /\ x \in Nat
      BY <2>2
    <3> HIDE DEF x, y
    <3> QED  BY <1>0, <3>1, <3>2, <3>3
  <2>4. Begun' * Pace + since' = y
    <3>1. since' = 0 /\ y \in Nat
      BY <1>0, <1>3, <2>1, <2>2 DEF Activate
    <3>2. Begun' * Pace = y
      BY <2>1
    <3> HIDE DEF y
    <3> QED  BY <3>1, <3>2
  <2> HIDE DEF x, y
  <2> QED  BY <1>0, <1>3, <2>3, <2>4 DEF Activate, BInv, Pace, MissedBound
<1>4. CASE Heard
  <2>1. Begun' = 0 /\ since' = since /\ since \in Nat
    BY <1>0, <1>4 DEF Heard, Begun, BInv
  <2>2. Begun' * Pace + since' = since
    BY <1>0, <2>1
  <2> QED  BY <1>0, <1>4, <2>2 DEF Heard, BInv, Pace, MissedBound
<1>5. CASE Unheard \/ Lost \/ Killed
  <2>1. /\ done < 2 /\ done' \in 0..2 /\ done < done'
        /\ UNCHANGED <<since, age>>
        /\ active' = active \/ active' = (age < Window)
    BY <1>5 DEF Unheard, Lost, Killed, BInv
  <2>2. missed' = IF done < Mine /\ Mine <= done' THEN MissedBy(Mine) ELSE missed
    <3>1. CASE Unheard \/ Lost
      <4>1. done \in {0, 1} /\ done' = done + 1 /\ missed' = MissedBy(done + 1)
        BY <3>1 DEF Unheard, Lost, BInv
      <4>2. (done < Mine /\ Mine <= done') <=> done + 1 = Mine
        BY <1>0, <4>1
      <4>3. done + 1 # Mine => MissedBy(done + 1) = missed
        BY <1>1
      <4> QED  BY <4>1, <4>2, <4>3
    <3>2. CASE Killed
      BY <1>0, <3>2 DEF Killed
    <3> QED  BY <1>5, <3>1, <3>2
  <2>3. missed' \in 0..MissedBound
    BY <1>0, <1>1, <2>2 DEF BInv
  <2>4. ASSUME missed' <= Tolerated
        PROVE  missed <= Tolerated /\ Begun' = Begun /\ Begun <= Tolerated + 1
    <3>1. CASE done < Mine /\ Mine <= done'
      BY <1>0, <1>1, <2>1, <2>2, <2>4, <3>1 DEF Begun, BInv
    <3>2. CASE ~(done < Mine /\ Mine <= done')
      BY <1>0, <2>1, <2>2, <2>4, <3>2 DEF Begun, BInv
    <3> QED  BY <3>1, <3>2
  <2>5. ASSUME missed' <= Tolerated
        PROVE  age' <= Begun' * Pace + since' /\ active' = TRUE
    <3>1. age < Window
      BY <2>1, <2>4, <2>5, StillFresh
    <3> QED  BY <2>1, <2>4, <2>5, <3>1 DEF BInv
  <2>6. done' < 2 => since' <= Limit
    BY <2>1 DEF BInv
  <2>7. since' \in 0..Pace /\ age' \in 0..Window
    BY <2>1 DEF BInv
  <2> QED  BY <2>1, <2>3, <2>5, <2>6, <2>7 DEF BInv, Pace, MissedBound
<1>6. CASE UNCHANGED vars
  BY <1>6 DEF vars, BInv, Begun, Pace, MissedBound
<1> QED  BY <1>2, <1>3, <1>4, <1>5, <1>6 DEF Next

(* A link survives as many failed polls in a row as fit, with one more     *)
(* cycle and its time limit, into the window at the slowest pace of the    *)
(* timer (SurvivesFailures): with the figures of deploy/, three.           *)
THEOREM FailuresSurvived ==
    ASSUME Budget
    PROVE  Spec => []SurvivesFailures
<1>1. BInv => SurvivesFailures
  BY DEF BInv, SurvivesFailures
<1>2. Init => BInv
  BY BudgetInit
<1>3. BInv /\ [Next]_vars => BInv'
  BY BudgetStep
<1> QED  BY <1>1, <1>2, <1>3, PTL DEF Spec

============================================================================
