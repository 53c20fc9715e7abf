------------------------- MODULE QualificationProofs -------------------------
(***************************************************************************)
(* The ring of SensorHealth is a sliding window of the last lines, of any  *)
(* size, also inside Qualification.  The baseline's percentile is the      *)
(* nearest rank of the complete minutes, an excluded path is never         *)
(* limited, and a group that stays within its percentile is not either     *)
(* where the multiplier outweighs the minutes that a window may touch.     *)
(***************************************************************************)
EXTENDS Qualification, NumberFacts, SequenceTheorems, TLAPS

-----------------------------------------------------------------------------
(* The ring *)

(* Until the ring is full, it is filled from slot 0 on. *)
Filling ==
  healthCount < Size =>
    /\ healthIndex = healthCount
    /\ \A slot \in Slot : slot >= healthCount => ~health[slot]

Inductive == HealthTypeOK /\ Filling /\ ErrorsCounted

Wrong == {slot \in Slot : health[slot]}

(* The ring has Size slots. *)
LEMMA SlotsFinite ==
  ASSUME NEW S \in SUBSET Slot
  PROVE  IsFiniteSet(S) /\ Cardinality(S) \in 0 .. Size
<1>1. IsFiniteSet(Slot) /\ Cardinality(Slot) = Size
  BY SizeAssumption, FS_Interval DEF Slot
<1>2. IsFiniteSet(S) /\ Cardinality(S) <= Cardinality(Slot)
  BY <1>1, FS_Subset
<1>3. Cardinality(S) \in Nat
  BY <1>2, FS_CardinalityType
<1> QED
  BY <1>1, <1>2, <1>3, SizeAssumption

(* Writing one slot changes the number of wrong ones by what was there and  *)
(* what is written.                                                         *)
LEMMA OneSlot ==
  ASSUME HealthTypeOK, NEW wrong \in BOOLEAN,
         health' = [health EXCEPT ![healthIndex] = wrong]
  PROVE  Cardinality(Wrong') =
           Cardinality(Wrong) - (IF health[healthIndex] THEN 1 ELSE 0)
             + (IF wrong THEN 1 ELSE 0)
<1> DEFINE Others == Wrong \ {healthIndex}
<1>1. Others \in SUBSET Slot /\ Wrong \in SUBSET Slot
  BY DEF Wrong
<1>2. /\ IsFiniteSet(Others) /\ Cardinality(Others) \in Nat
      /\ IsFiniteSet(Wrong) /\ Cardinality(Wrong) \in Nat
  BY <1>1, SlotsFinite, SizeAssumption
<1>3. Cardinality(Wrong) =
        Cardinality(Others) + (IF health[healthIndex] THEN 1 ELSE 0)
  <2>1. CASE health[healthIndex]
    <3>1. Wrong = Others \cup {healthIndex} /\ healthIndex \notin Others
      BY <2>1 DEF Wrong, HealthTypeOK
    <3>2. Cardinality(Others \cup {healthIndex}) = Cardinality(Others) + 1
      BY <1>2, <3>1, FS_AddElement
    <3> QED
      BY <2>1, <3>1, <3>2
  <2>2. CASE ~health[healthIndex]
    <3>1. Wrong = Others
      BY <2>2 DEF Wrong
    <3> QED
      BY <1>2, <2>2, <3>1
  <2> QED
    BY <2>1, <2>2
<1>4. Cardinality(Wrong') = Cardinality(Others) + (IF wrong THEN 1 ELSE 0)
  <2>1. CASE wrong
    <3>1. Wrong' = Others \cup {healthIndex} /\ healthIndex \notin Others
      BY <2>1 DEF Wrong, HealthTypeOK, Slot
    <3>2. Cardinality(Others \cup {healthIndex}) = Cardinality(Others) + 1
      BY <1>2, <3>1, FS_AddElement
    <3> QED
      BY <2>1, <3>1, <3>2
  <2>2. CASE ~wrong
    <3>1. Wrong' = Others
      BY <2>2 DEF Wrong, HealthTypeOK, Slot
    <3> QED
      BY <1>2, <2>2, <3>1
  <2> QED
    BY <2>1, <2>2
<1> QED
  BY <1>2, <1>3, <1>4

(* An empty ring counts no error. *)
LEMMA InductiveInit == HealthInit => Inductive
<1> SUFFICES ASSUME HealthInit PROVE Inductive
  OBVIOUS
<1>1. HealthTypeOK /\ Filling
  BY SizeAssumption DEF HealthInit, HealthTypeOK, Filling, Slot
<1>2. {slot \in Slot : health[slot]} = {}
  BY DEF HealthInit
<1> QED
  BY <1>1, <1>2, FS_EmptySet DEF HealthInit, Inductive, ErrorsCounted

(* recordHealth keeps the ring and its count in step. *)
LEMMA RecordHealthKeeps ==
  ASSUME Inductive, NEW wrong \in BOOLEAN, RecordHealth(wrong)
  PROVE  Inductive'
<1> USE SizeAssumption
<1>1. HealthTypeOK /\ Filling /\ structureErrors = Cardinality(Wrong)
  BY DEF Inductive, ErrorsCounted, Wrong
<1>2. health' = [health EXCEPT ![healthIndex] = wrong]
  BY DEF RecordHealth
<1>3. Cardinality(Wrong') =
        Cardinality(Wrong) - (IF health[healthIndex] THEN 1 ELSE 0)
          + (IF wrong THEN 1 ELSE 0)
  BY <1>1, <1>2, OneSlot
<1>4. healthCount # Size => ~health[healthIndex]
  BY <1>1 DEF HealthTypeOK, Filling, Slot
<1>5. structureErrors' = structureErrors
        - (IF health[healthIndex] THEN 1 ELSE 0) + (IF wrong THEN 1 ELSE 0)
  BY <1>1, <1>4 DEF RecordHealth, ErrorsAfter, HealthTypeOK
<1>6. structureErrors' = Cardinality(Wrong')
  BY <1>1, <1>3, <1>5
<1>7. health' \in [Slot -> BOOLEAN]
  BY <1>1, <1>2 DEF HealthTypeOK
<1>8. structureErrors' \in 0 .. Size
  <2>1. Wrong' \in SUBSET Slot
    BY DEF Wrong, Slot
  <2> QED
    BY <1>6, <2>1, SlotsFinite
<1>9. healthCount' \in 0 .. Size /\ healthIndex' \in Slot
  BY <1>1 DEF RecordHealth, NextIndex, HealthTypeOK, Slot
<1>10. Filling'
  BY <1>1, <1>2 DEF Filling, RecordHealth, NextIndex, HealthTypeOK, Slot
<1> QED
  BY <1>6, <1>7, <1>8, <1>9, <1>10 DEF Inductive, HealthTypeOK, ErrorsCounted, Wrong

(* Every line keeps them in step. *)
LEMMA InductiveAlways == HealthSpec => []Inductive
<1>1. Inductive /\ [HealthNext]_sensor => Inductive'
  <2> SUFFICES ASSUME Inductive, [HealthNext]_sensor PROVE Inductive'
    OBVIOUS
  <2>1. CASE HealthyLine
    BY <2>1, RecordHealthKeeps DEF HealthyLine
  <2>2. CASE UnparsedLine
    <3>1. (\E wrong \in BOOLEAN : RecordHealth(wrong)) \/ UNCHANGED sensor
      BY <2>2 DEF UnparsedLine
    <3>2. CASE UNCHANGED sensor
      BY <3>2 DEF sensor, Inductive, HealthTypeOK, Filling, ErrorsCounted, Slot
    <3> QED
      BY <3>1, <3>2, RecordHealthKeeps
  <2>3. CASE UNCHANGED sensor
    BY <2>3 DEF sensor, Inductive, HealthTypeOK, Filling, ErrorsCounted, Slot
  <2> QED
    BY <2>1, <2>2, <2>3 DEF HealthNext
<1> QED
  BY InductiveInit, <1>1, PTL DEF HealthSpec

(* The running count of recordHealth is the number of wrong lines in the    *)
(* ring, for a ring of any size.                                            *)
THEOREM ErrorsCountedAlways == HealthSpec => []ErrorsCounted
<1>1. Inductive => ErrorsCounted
  BY DEF Inductive
<1> QED
  BY InductiveAlways, <1>1, PTL

(* Detection is suspended exactly when the ring is full and more of its     *)
(* lines are wrong than tolerated (SensorSuspended).                        *)
THEOREM SuspendedExactly ==
  HealthSpec => [](SensorSuspended <=>
               healthCount = Size /\ Cardinality({slot \in Slot : health[slot]}) > Tolerated)
<1>1. ErrorsCounted =>
        (SensorSuspended <=>
           healthCount = Size /\ Cardinality({slot \in Slot : health[slot]}) > Tolerated)
  BY DEF ErrorsCounted, SensorSuspended
<1> QED
  BY ErrorsCountedAlways, <1>1, PTL

(* The count never leaves the ring's size, nor the index its slots. *)
THEOREM HealthTypeCorrect == HealthSpec => []HealthTypeOK
<1>1. Inductive => HealthTypeOK
  BY DEF Inductive
<1> QED
  BY InductiveAlways, <1>1, PTL

-----------------------------------------------------------------------------
(* The ring as a sequence *)

(* Within two laps, the remainder takes off one lap. *)
LEMMA SecondLap ==
  ASSUME NEW n \in 0 .. 2 * Size - 1
  PROVE  n % Size = IF n < Size THEN n ELSE n - Size
<1> USE SizeAssumption
<1> DEFINE q == n \div Size
           r == n % Size
<1>1. n \in Nat /\ q \in Int /\ r \in 0 .. Size - 1 /\ n = Size * q + r
  OBVIOUS
<1> HIDE DEF q, r
<1>2. q >= 0
  <2>1. q <= -1 => Size * q <= -Size
    BY <1>1
  <2> QED
    BY <1>1, <2>1
<1>3. q < 2
  <2>1. q >= 2 => Size * q >= Size * 2
    BY <1>1
  <2> QED
    BY <1>1, <2>1
<1>4. q = 0 \/ q = 1
  BY <1>1, <1>2, <1>3
<1>5. r = IF n < Size THEN n ELSE n - Size
  BY <1>1, <1>4
<1> QED
  BY <1>5 DEF r

(* What is read is one line for each slot in use. *)
Reads ==
  /\ Recent \in Seq(BOOLEAN)
  /\ Len(Recent) = healthCount
  /\ \A i \in 1 .. healthCount :
       Recent[i] = IF healthCount < Size THEN health[i - 1]
                   ELSE IF healthIndex + i - 1 < Size
                   THEN health[healthIndex + i - 1]
                   ELSE health[(healthIndex + i - 1) - Size]

LEMMA RecentIs == Inductive => Reads
<1> SUFFICES ASSUME Inductive PROVE Reads
  OBVIOUS
<1> USE SizeAssumption
<1>1. HealthTypeOK /\ healthCount \in Nat
  BY DEF Inductive, HealthTypeOK
<1>2. ASSUME NEW i \in 1 .. healthCount
      PROVE  Recent[i] = IF healthCount < Size THEN health[i - 1]
                         ELSE IF healthIndex + i - 1 < Size
                         THEN health[healthIndex + i - 1]
                         ELSE health[(healthIndex + i - 1) - Size]
  <2>1. CASE healthCount < Size
    BY <1>1, <2>1 DEF Recent
  <2>2. CASE healthCount = Size
    <3> DEFINE n == healthIndex + i - 1
    <3>1. n \in 0 .. 2 * Size - 1
      BY <1>1, <2>2 DEF HealthTypeOK, Slot
    <3>2. Recent[i] = health[n % Size]
      BY <2>2 DEF Recent
    <3>3. n % Size = IF n < Size THEN n ELSE n - Size
      BY <3>1, SecondLap
    <3>4. ~(healthCount < Size)
      BY <2>2
    <3>5. Recent[i] = IF n < Size THEN health[n] ELSE health[n - Size]
      <4> HIDE DEF n, Recent
      <4> QED
        BY <3>2, <3>3
    <3> QED
      BY <3>4, <3>5, Zenon DEF n
  <2> QED
    BY <1>1, <2>1, <2>2 DEF HealthTypeOK
<1>3. ASSUME NEW i \in 1 .. healthCount PROVE Recent[i] \in BOOLEAN
  BY <1>1, <1>2 DEF HealthTypeOK, Slot
<1>4. Recent \in [1 .. healthCount -> BOOLEAN]
  BY <1>3 DEF Recent
<1> QED
  BY <1>1, <1>2, <1>4 DEF Reads

(* Writing a slot appends a line to what is read, and drops the oldest one  *)
(* once the ring is full.                                                   *)
LEMMA LineIsLast ==
  ASSUME Inductive, Inductive', NEW wrong \in BOOLEAN, RecordHealth(wrong)
  PROVE  Sliding!Line(wrong)
<1> USE SizeAssumption
<1>1. HealthTypeOK /\ Filling /\ HealthTypeOK' /\ Filling'
  BY DEF Inductive
<1>2. Reads
  BY RecentIs
<1>3. Reads'
  BY RecentIs, PTL
<1>4. /\ health' = [health EXCEPT ![healthIndex] = wrong]
      /\ healthIndex' = NextIndex
      /\ healthCount' = IF healthCount = Size THEN Size ELSE healthCount + 1
  BY DEF RecordHealth
<1>5. CASE healthCount < Size
  <2>1. healthIndex = healthCount /\ healthCount' = healthCount + 1
    BY <1>1, <1>4, <1>5 DEF Filling, HealthTypeOK
  <2>2. healthCount' = Size => healthIndex' = 0
    BY <1>1, <1>4, <2>1 DEF NextIndex, HealthTypeOK
  <2>3. ASSUME NEW i \in 1 .. healthCount + 1
        PROVE  Recent'[i] = Append(Recent, wrong)[i]
    <3>0. i \in 1 .. healthCount' /\ healthCount \in Nat /\ healthCount' <= Size
      BY <1>1, <2>1 DEF HealthTypeOK
    <3>1. Recent'[i] = health'[i - 1]
      <4>1. CASE healthCount' < Size
        BY <1>3, <3>0, <4>1 DEF Reads
      <4>2. CASE healthCount' = Size
        <5>1. healthIndex' = 0 /\ i \in 1 .. Size
          BY <2>2, <3>0, <4>2
        <5>2. healthIndex' + i - 1 = i - 1 /\ i - 1 < Size /\ ~(healthCount' < Size)
          BY <4>2, <5>1
        <5> QED
          BY <1>3, <3>0, <5>2 DEF Reads
      <4> QED
        BY <2>1, <3>0, <4>1, <4>2
    <3>2. CASE i = healthCount + 1
      <4>1. i - 1 = healthIndex
        BY <1>1, <2>1, <3>2 DEF HealthTypeOK
      <4> QED
        BY <1>1, <1>2, <1>4, <3>1, <3>2, <4>1 DEF HealthTypeOK, Reads
    <3>3. CASE i < healthCount + 1
      <4>1. i - 1 # healthIndex /\ i - 1 \in Slot /\ i \in 1 .. healthCount
        BY <1>1, <1>5, <2>1, <3>3 DEF HealthTypeOK, Slot
      <4>2. health'[i - 1] = health[i - 1]
        BY <1>1, <1>4, <4>1 DEF HealthTypeOK
      <4>3. Append(Recent, wrong)[i] = Recent[i]
        BY <1>2, <4>1 DEF Reads
      <4>4. Recent[i] = health[i - 1]
        BY <1>2, <1>5, <4>1 DEF Reads
      <4> QED
        BY <3>1, <4>2, <4>3, <4>4
    <3>4. i = healthCount + 1 \/ i < healthCount + 1
      BY <3>0
    <3> QED
      BY <3>2, <3>3, <3>4
  <2>4. Recent' = Append(Recent, wrong)
    <3>1. /\ Len(Append(Recent, wrong)) = healthCount + 1
          /\ Append(Recent, wrong) \in Seq(BOOLEAN)
      BY <1>2 DEF Reads
    <3>2. Recent' \in Seq(BOOLEAN) /\ Len(Recent') = healthCount + 1
      BY <1>3, <2>1 DEF Reads
    <3> HIDE DEF Recent
    <3> QED
      BY <2>3, <3>1, <3>2, SeqEqual
  <2> QED
    BY <1>2, <1>5, <2>4 DEF Sliding!Line, Reads
<1>6. CASE healthCount = Size
  <2>1. healthCount' = Size /\ Recent # <<>>
    BY <1>2, <1>4, <1>6 DEF Reads
  <2>2. /\ Tail(Recent) \in Seq(BOOLEAN) /\ Len(Tail(Recent)) = Size - 1
        /\ \A i \in 1 .. Size - 1 : Tail(Recent)[i] = Recent[i + 1]
    BY <1>2, <1>6, <2>1 DEF Reads
  <2>3. ASSUME NEW i \in 1 .. Size
        PROVE  Recent'[i] = Append(Tail(Recent), wrong)[i]
    <3>1. Recent'[i] = IF healthIndex' + i - 1 < Size
                       THEN health'[healthIndex' + i - 1]
                       ELSE health'[(healthIndex' + i - 1) - Size]
      BY <1>3, <2>1 DEF Reads
    <3>2. /\ healthIndex \in 0 .. Size - 1
          /\ healthIndex' = IF healthIndex + 1 = Size THEN 0 ELSE healthIndex + 1
      BY <1>1, <1>4 DEF HealthTypeOK, Slot, NextIndex
    <3>3. \A slot \in 0 .. Size - 1 :
            health'[slot] = IF slot = healthIndex THEN wrong ELSE health[slot]
      BY <1>1, <1>4 DEF HealthTypeOK, Slot
    <3>4. CASE i = Size
      <4>1. Recent'[i] = health'[healthIndex]
        BY <3>1, <3>2, <3>4
      <4>2. Append(Tail(Recent), wrong)[i] = wrong
        BY <2>2, <3>4
      <4> QED
        BY <3>2, <3>3, <4>1, <4>2
    <3>5. CASE i < Size
      <4>1. Append(Tail(Recent), wrong)[i] = Recent[i + 1]
        BY <2>2, <3>5
      <4>2. Recent[i + 1] = IF healthIndex + i < Size
                            THEN health[healthIndex + i]
                            ELSE health[(healthIndex + i) - Size]
        <5>1. i + 1 \in 1 .. healthCount /\ healthIndex + (i + 1) - 1 = healthIndex + i
          BY <1>6, <3>2, <3>5
        <5> QED
          BY <1>2, <1>6, <5>1 DEF Reads
      <4>3. Recent'[i] = IF healthIndex + i < Size
                         THEN health'[healthIndex + i]
                         ELSE health'[(healthIndex + i) - Size]
        <5>1. CASE healthIndex + 1 = Size
          <6>1. /\ healthIndex' + i - 1 = i - 1 /\ i - 1 < Size
                /\ ~(healthIndex + i < Size) /\ (healthIndex + i) - Size = i - 1
            BY <3>2, <3>5, <5>1
          <6> QED
            BY <3>1, <6>1
        <5>2. CASE healthIndex + 1 # Size
          <6>1. healthIndex' + i - 1 = healthIndex + i
            BY <3>2, <5>2
          <6>2. (healthIndex' + i - 1) - Size = (healthIndex + i) - Size
            BY <6>1
          <6> QED
            BY <3>1, <6>1, <6>2
        <5> QED
          BY <5>1, <5>2
      <4>4. /\ healthIndex + i < Size =>
                 healthIndex + i \in 0 .. Size - 1 /\ healthIndex + i # healthIndex
            /\ ~(healthIndex + i < Size) =>
                 /\ (healthIndex + i) - Size \in 0 .. Size - 1
                 /\ (healthIndex + i) - Size # healthIndex
        BY <3>2, <3>5
      <4>5. CASE healthIndex + i < Size
        BY <3>3, <4>1, <4>2, <4>3, <4>4, <4>5
      <4>6. CASE ~(healthIndex + i < Size)
        BY <3>3, <4>1, <4>2, <4>3, <4>4, <4>6
      <4> QED
        BY <4>5, <4>6
    <3>6. i = Size \/ i < Size
      OBVIOUS
    <3> QED
      BY <3>4, <3>5, <3>6
  <2>4. Recent' = Append(Tail(Recent), wrong)
    <3>1. /\ Len(Append(Tail(Recent), wrong)) = Size
          /\ Append(Tail(Recent), wrong) \in Seq(BOOLEAN)
      BY <2>2
    <3>2. Recent' \in Seq(BOOLEAN) /\ Len(Recent') = Size
      BY <1>3, <2>1 DEF Reads
    <3> HIDE DEF Recent
    <3> QED
      BY <2>3, <3>1, <3>2, SeqEqual
  <2> QED
    BY <1>2, <1>6, <2>4 DEF Sliding!Line, Reads
<1> QED
  BY <1>1, <1>5, <1>6 DEF HealthTypeOK

(* The ring remembers the last lines in their order, for a ring of any size *)
(* and through any number of laps (recordHealth).                           *)
THEOREM ImplementsSlidingAlways == HealthSpec => ImplementsSliding
<1>1. HealthInit => Sliding!Init
  <2> SUFFICES ASSUME HealthInit PROVE Recent = <<>>
    BY DEF Sliding!Init
  <2>1. /\ Recent \in Seq(BOOLEAN) /\ Len(Recent) = 0
    BY InductiveInit, RecentIs DEF HealthInit, Reads
  <2> QED
    BY <2>1
<1>2. Inductive /\ Inductive' /\ [HealthNext]_sensor => [Sliding!Next]_Recent
  <2> SUFFICES ASSUME Inductive, Inductive', [HealthNext]_sensor
               PROVE  [Sliding!Next]_Recent
    OBVIOUS
  <2>1. UNCHANGED sensor => UNCHANGED Recent
    BY DEF sensor, Recent
  <2>2. ASSUME NEW wrong \in BOOLEAN, RecordHealth(wrong) PROVE Sliding!Next
    BY <2>2, LineIsLast DEF Sliding!Next
  <2>3. (\E wrong \in BOOLEAN : RecordHealth(wrong)) \/ UNCHANGED sensor
    BY DEF HealthNext, HealthyLine, UnparsedLine
  <2> QED
    BY <2>1, <2>2, <2>3
<1> QED
  BY <1>1, <1>2, InductiveAlways, PTL DEF HealthSpec, ImplementsSliding, Sliding!Spec

-----------------------------------------------------------------------------
(* The composition *)

(* Whatever the baseline and the window do, the sensor only ever sees lines *)
(* of the log (Observe, ObserveError).                                      *)
THEOREM ImplementsHealth == QualificationSpec => HealthSpec
<1>1. QualificationInit => HealthInit
  BY DEF QualificationInit
<1>2. [QualificationNext]_vars => [HealthNext]_sensor
  <2> SUFFICES ASSUME [QualificationNext]_vars PROVE [HealthNext]_sensor
    OBVIOUS
  <2>1. ASSUME NEW kind \in PastKind, NEW tick \in Tick, RecordPast(kind, tick)
        PROVE  UNCHANGED sensor
    BY <2>1 DEF RecordPast
  <2>2. ASSUME NEW lost \in SUBSET {kind.route : kind \in PastKind}, BuildBaseline(lost)
        PROVE  UNCHANGED sensor
    BY <2>2 DEF BuildBaseline
  <2>3. StartLive => UNCHANGED sensor
    BY DEF StartLive
  <2>4. ASSUME NEW kind \in LiveKind, Observe(kind)
        PROVE  HealthNext
    BY <2>4 DEF Observe, HealthNext
  <2>5. ObserveRefused => HealthNext
    BY DEF ObserveRefused, HealthNext
  <2>6. ObserveError => HealthNext
    BY DEF ObserveError, HealthNext
  <2>7. Evaluate => UNCHANGED sensor
    BY DEF Evaluate
  <2>8. UNCHANGED vars => UNCHANGED sensor
    BY DEF vars
  <2> QED
    BY <2>1, <2>2, <2>3, <2>4, <2>5, <2>6, <2>7, <2>8 DEF QualificationNext
<1> QED
  BY <1>1, <1>2, PTL DEF QualificationSpec, HealthSpec

(* Whether an evaluation may activate rules depends on the real number of   *)
(* wrong lines among the last ones (SensorSuspended).                       *)
THEOREM ErrorsCountedWhileEvaluating == QualificationSpec => []ErrorsCounted
  BY ImplementsHealth, ErrorsCountedAlways, PTL

(* The sensor health stays a sliding window of the last lines while groups  *)
(* are evaluated (recordHealth, SensorSuspended).                           *)
THEOREM ImplementsSlidingWhileEvaluating == QualificationSpec => ImplementsSliding
  BY ImplementsHealth, ImplementsSlidingAlways, PTL

-----------------------------------------------------------------------------
(* The nearest rank *)

(* The minutes in which a group was asked for no more than the bound. *)
UpTo(series, bound) == {minute \in DOMAIN series : series[minute] <= bound}

Nonzero(series) == {minute \in DOMAIN series : series[minute] > 0}

(* What is sorted are the values above 0. *)
LEMMA AscendingIs ==
  ASSUME NEW S, IsFiniteSet(S), NEW series \in [S -> Nat]
  PROVE  /\ IsFiniteSet(Nonzero(series))
         /\ \E order \in Orders(series, Nonzero(series)) :
              Ascending(series) =
                [i \in 1 .. Cardinality(Nonzero(series)) |-> series[order[i]]]
<1> DEFINE T == Nonzero(series)
           Sorted(f) == \A i, j \in 1 .. Cardinality(T) :
                          i < j => series[f[i]] <= series[f[j]]
           order == CHOOSE f \in Bijection(1 .. Cardinality(T), T) : Sorted(f)
<1>1. IsFiniteSet(T) /\ \A x \in T : series[x] \in Nat
  BY FS_Subset DEF Nonzero
<1>2. PICK f \in Orders(series, T) : TRUE
  BY <1>1, OrderExists
<1>3. f \in Bijection(1 .. Cardinality(T), T) /\ Sorted(f)
  BY <1>2 DEF Orders
<1>4. order \in Bijection(1 .. Cardinality(T), T) /\ Sorted(order)
  <2> HIDE DEF Sorted, T
  <2> QED
    BY <1>3
<1>5. order \in Orders(series, T)
  <2> HIDE DEF order
  <2> QED
    BY <1>4 DEF Orders
<1>6. Ascending(series) = [i \in 1 .. Cardinality(T) |-> series[order[i]]]
  BY DEF Ascending, Nonzero
<1> HIDE DEF order
<1> QED
  BY <1>1, <1>5, <1>6

(* The rank is the percentage of all, rounded up. *)
LEMMA RankIs ==
  ASSUME NEW total \in Nat \ {0}
  PROVE  /\ Rank(total) \in 1 .. total
         /\ Percent * total <= 100 * Rank(total)
         /\ 100 * (Rank(total) - 1) < Percent * total
<1> DEFINE t == Percent * total
<1>1. Percent \in 1 .. 100
  BY DetectionAssumption
<1>2. t \in Nat /\ t >= total /\ t <= 100 * total
  <2>1. t \in Nat
    BY <1>1
  <2>2. total * Percent >= total * 1 /\ total * Percent <= total * 100
    BY <1>1
  <2> QED
    BY <1>1, <2>1, <2>2
<1> HIDE DEF t
<1>3. Rank(total) = (t + 99) \div 100
  BY DEF Rank, t
<1> DEFINE r == (t + 99) \div 100
<1>4. r \in Nat /\ 100 * r <= t + 99 /\ t + 99 < 100 * r + 100
  BY <1>2
<1> HIDE DEF r
<1>5. r \in 1 .. total /\ t <= 100 * r /\ 100 * (r - 1) < t
  BY <1>2, <1>4
<1> QED
  BY <1>3, <1>5 DEF r, t

(* The value at the rank is the least one that enough minutes do not        *)
(* exceed: the ones without a request come first.                           *)
LEMMA NearestRankIs ==
  ASSUME NEW S, IsFiniteSet(S), NEW series \in [S -> Nat]
  PROVE  LET value == NearestRank(series)
             Enough(bound) ==
               100 * Cardinality(UpTo(series, bound)) >= Percent * Cardinality(S)
         IN  value \in Nat /\ Enough(value) /\ (value > 0 => ~Enough(value - 1))
<1> DEFINE T == Nonzero(series)
           N == Cardinality(S)
           n == Cardinality(T)
           Zero == S \ T
           r == Rank(N)
           value == NearestRank(series)
           Enough(bound) == 100 * Cardinality(UpTo(series, bound)) >= Percent * N
<1>1. Percent \in 1 .. 100
  BY DetectionAssumption
<1>2. PICK order \in Orders(series, T) :
        Ascending(series) = [i \in 1 .. n |-> series[order[i]]]
  BY AscendingIs
<1>3. /\ T \subseteq S /\ IsFiniteSet(T) /\ N \in Nat /\ n \in Nat /\ n <= N
      /\ DOMAIN series = S
  BY FS_Subset, FS_CardinalityType DEF Nonzero
<1>4. IsFiniteSet(Zero) /\ Cardinality(Zero) = N - n
  <2>1. S \cap T = T
    BY <1>3
  <2>2. IsFiniteSet(S \ T) /\ Cardinality(S \ T) = Cardinality(S) - Cardinality(S \cap T)
    BY FS_Difference
  <2>3. Cardinality(S \cap T) = Cardinality(T)
    BY <2>1, Zenon
  <2> HIDE DEF T
  <2> QED
    BY <2>2, <2>3
<1>5. \A minute \in Zero : series[minute] = 0
  BY DEF Nonzero
<1>6. /\ order \in [1 .. n -> T]
      /\ \A i, j \in 1 .. n : i < j => series[order[i]] <= series[order[j]]
      /\ \A minute \in T : \E i \in 1 .. n : order[i] = minute
  <2> HIDE DEF T
  <2> QED
    BY <1>2 DEF Orders, Bijection, Injection, Surjection
<1>7. \A i \in 1 .. n : series[order[i]] \in Nat \ {0}
  BY <1>6 DEF Nonzero
<1>8. Len(Ascending(series)) = n
  <2>1. Ascending(series) \in [1 .. n -> Nat]
    BY <1>2, <1>7
  <2> QED
    BY <1>3, <2>1
<1> HIDE DEF T
<1>9. value = IF N = 0 \/ r <= N - n THEN 0 ELSE series[order[r - (N - n)]]
  <2>1. value = IF N = 0 \/ r <= N - n THEN 0 ELSE Ascending(series)[r - (N - n)]
    BY <1>3, <1>8 DEF NearestRank
  <2>2. CASE N = 0
    BY <2>1, <2>2
  <2>3. CASE N # 0
    <3>1. r \in 1 .. N
      BY <1>3, <2>3, RankIs
    <3>2. ~(r <= N - n) => r - (N - n) \in 1 .. n
      BY <1>3, <3>1
    <3> QED
      BY <1>2, <2>1, <2>3, <3>2
  <2> QED
    BY <2>2, <2>3
<1> HIDE DEF N, n, r, value
<1>10. \A bound \in Int : /\ IsFiniteSet(UpTo(series, bound))
                          /\ Cardinality(UpTo(series, bound)) \in 0 .. N
  <2> TAKE bound \in Int
  <2>1. UpTo(series, bound) \in SUBSET S
    BY <1>3 DEF UpTo
  <2> QED
    BY <1>3, <2>1, FS_Subset, FS_CardinalityType DEF N
<1>11. CASE N = 0
  <2>1. value = 0
    BY <1>9, <1>11
  <2>2. Cardinality(UpTo(series, 0)) = 0
    BY <1>10, <1>11
  <2> QED
    BY <1>1, <1>11, <2>1, <2>2 DEF N, value
<1>12. CASE N # 0 /\ r <= N - n
  <2>1. value = 0
    BY <1>9, <1>12
  <2>2. Zero \in SUBSET UpTo(series, 0)
    BY <1>3, <1>5 DEF UpTo
  <2>3. Cardinality(UpTo(series, 0)) >= N - n
    <3> HIDE DEF Zero
    <3>1. Cardinality(Zero) <= Cardinality(UpTo(series, 0))
      BY <1>10, <2>2, FS_Subset
    <3> QED
      BY <1>3, <1>4, <1>10, <3>1
  <2>4. Percent * N <= 100 * r /\ r \in Nat /\ Percent * N \in Nat
    BY <1>1, <1>3, <1>12, RankIs DEF r
  <2>5. 100 * Cardinality(UpTo(series, 0)) >= Percent * N
    BY <1>3, <1>10, <1>12, <2>3, <2>4
  <2> QED
    BY <2>1, <2>5 DEF N, value
<1>13. CASE N # 0 /\ ~(r <= N - n)
  <2> DEFINE k == r - (N - n)
             First(i) == {order[j] : j \in 1 .. i}
  <2>1. r \in 1 .. N /\ Percent * N <= 100 * r /\ 100 * (r - 1) < Percent * N
    BY <1>3, <1>13, RankIs DEF r
  <2>2. k \in 1 .. n /\ k - 1 \in 0 .. n /\ k \in 0 .. n
    BY <1>3, <1>13, <2>1
  <2> HIDE DEF k
  <2>3. value = series[order[k]] /\ value \in Nat \ {0}
    BY <1>7, <1>9, <1>13, <2>2 DEF k
  <2>4. ASSUME NEW i \in 0 .. n
        PROVE  /\ IsFiniteSet(Zero \cup First(i))
               /\ Cardinality(Zero \cup First(i)) = (N - n) + i
    <3>1. IsFiniteSet(First(i)) /\ Cardinality(First(i)) = i
      BY <1>3, <2>4, FirstInOrder DEF n
    <3>2. Zero \cap First(i) = {}
      <4>1. First(i) \subseteq T
        BY <1>3, <1>6
      <4> QED
        BY <4>1
    <3> HIDE DEF First, Zero
    <3>3. Cardinality(Zero \cap First(i)) = 0
      BY <3>2, FS_EmptySet
    <3> QED
      BY <1>3, <1>4, <3>1, <3>3, FS_Union, SMTT(30)
  <2>5. Zero \cup First(k) \in SUBSET UpTo(series, value)
    <3>1. \A minute \in Zero : minute \in UpTo(series, value)
      BY <1>3, <1>5, <2>3 DEF UpTo
    <3>2. ASSUME NEW j \in 1 .. k PROVE order[j] \in UpTo(series, value)
      <4>1. j \in 1 .. n /\ (j < k \/ j = k)
        BY <1>3, <2>2
      <4>2. series[order[j]] <= value
        BY <1>6, <1>7, <2>2, <2>3, <4>1
      <4>3. order[j] \in DOMAIN series
        BY <1>3, <1>6, <4>1
      <4> QED
        BY <4>2, <4>3 DEF UpTo
    <3> QED
      BY <3>1, <3>2
  <2>6. UpTo(series, value - 1) \in SUBSET (Zero \cup First(k - 1))
    <3> SUFFICES ASSUME NEW minute \in UpTo(series, value - 1), minute \in T
                 PROVE  minute \in First(k - 1)
      BY <1>3 DEF UpTo
    <3>1. PICK i \in 1 .. n : order[i] = minute
      BY <1>6
    <3>2. series[minute] <= value - 1 /\ series[minute] \in Nat
      BY <1>7, <3>1 DEF UpTo
    <3>3. ~(k < i) /\ i # k
      BY <1>6, <2>2, <2>3, <3>1, <3>2
    <3>4. i \in 1 .. k - 1
      BY <1>3, <2>2, <3>3
    <3> QED
      BY <3>1, <3>4
  <2>7. (N - n) + k <= Cardinality(UpTo(series, value))
    <3>1. IsFiniteSet(UpTo(series, value))
      BY <1>10, <2>3
    <3> HIDE DEF First, Zero
    <3>2. Cardinality(Zero \cup First(k)) <= Cardinality(UpTo(series, value))
      BY <2>5, <3>1, FS_Subset
    <3> QED
      BY <2>2, <2>4, <3>2
  <2>8. Cardinality(UpTo(series, value - 1)) <= (N - n) + (k - 1)
    <3> HIDE DEF First, Zero
    <3>1. /\ IsFiniteSet(Zero \cup First(k - 1))
          /\ Cardinality(Zero \cup First(k - 1)) = (N - n) + (k - 1)
      BY <2>2, <2>4
    <3>2. Cardinality(UpTo(series, value - 1)) <= Cardinality(Zero \cup First(k - 1))
      BY <2>6, <3>1, FS_Subset
    <3> QED
      BY <3>1, <3>2
  <2>9. (N - n) + k = r /\ (N - n) + (k - 1) = r - 1
    BY <1>3, <2>1 DEF k
  <2>10. /\ Cardinality(UpTo(series, value)) \in Nat
         /\ Cardinality(UpTo(series, value - 1)) \in Nat
    BY <1>10, <2>3
  <2>11. Enough(value) /\ ~Enough(value - 1)
    <3> DEFINE t == Percent * N
    <3>1. t \in Nat
      BY <1>1, <1>3
    <3> HIDE DEF t
    <3> QED
      BY <2>1, <2>7, <2>8, <2>9, <2>10, <3>1 DEF t
  <2> QED
    BY <2>3, <2>11 DEF N, value
<1> QED
  BY <1>11, <1>12, <1>13

-----------------------------------------------------------------------------
(* The minutes of the analysed log *)

(* Requests have ticks and are read in their order. *)
Ordered ==
  /\ past \in Seq([tick : Tick, kind : PastKind])
  /\ \A i, j \in 1 .. Len(past) : i < j => past[i].tick <= past[j].tick

(* What the assumptions say of single constants. *)
LEMMA Constants ==
  /\ Minute \in Nat \ {0} /\ Window \in Nat \ {0} /\ LastTick \in Nat
  /\ MaxPast \in Nat /\ MaxLive \in Nat
  /\ IsFiniteSet(PastKind) /\ IsFiniteSet(LiveKind)
<1>1. PastKind \in SUBSET (PastKind \cup LiveKind) /\ LiveKind \in SUBSET (PastKind \cup LiveKind)
  OBVIOUS
<1>2. IsFiniteSet(PastKind) /\ IsFiniteSet(LiveKind)
  BY <1>1, BoundAssumption, FS_Subset
<1> QED
  BY <1>2, DetectionAssumption, BoundAssumption

LEMMA PastIs ==
  ASSUME Ordered
  PROVE  /\ Len(past) \in Nat /\ DOMAIN past = 1 .. Len(past)
         /\ \A i \in 1 .. Len(past) :
              past[i].tick \in Nat \ {0} /\ past[i].kind \in PastKind
<1> DEFINE Request == [tick : Tick, kind : PastKind]
<1>1. /\ Len(past) \in Nat /\ DOMAIN past = 1 .. Len(past)
      /\ \A i \in 1 .. Len(past) : past[i] \in Request
  <2>1. past \in Seq(Request)
    BY DEF Ordered
  <2> HIDE DEF Request
  <2> QED
    BY <2>1
<1>2. Tick \subseteq Nat \ {0}
  BY Constants DEF Tick
<1> QED
  BY <1>1, <1>2

(* A tick is in the minute that its quotient is. *)
LEMMA InMinute ==
  ASSUME NEW tick \in Nat, NEW minute \in Nat
  PROVE  tick \div Minute = minute <=>
           tick \in minute * Minute .. (minute + 1) * Minute - 1
<1> DEFINE q == tick \div Minute
<1>1. Minute \in Nat \ {0}
  BY Constants
<1>2. q \in Nat /\ Minute * q <= tick /\ tick < Minute * q + Minute
  BY <1>1, Quotient
<1>3. /\ minute * Minute = Minute * minute /\ Minute * minute \in Nat
      /\ (minute + 1) * Minute = Minute * minute + Minute
  BY <1>1
<1>4. Minute * q \in Nat /\ (q < minute => Minute * q + Minute <= Minute * minute)
  BY <1>1, <1>2, Multiples
<1>5. minute < q => Minute * minute + Minute <= Minute * q
  BY <1>1, <1>2, Multiples
<1> DEFINE a == Minute * minute
           b == Minute * q
<1> HIDE DEF q, a, b
<1>6. q = minute => a = b
  BY DEF a, b
<1>7. q = minute <=> tick \in a .. (a + Minute) - 1
  <2>1. a \in Nat /\ b \in Nat /\ Minute \in Nat /\ q \in Nat
    BY <1>1, <1>2, <1>3, <1>4 DEF a, b
  <2>2. /\ b <= tick /\ tick < b + Minute
        /\ q < minute => b + Minute <= a
        /\ minute < q => a + Minute <= b
    BY <1>2, <1>4, <1>5 DEF a, b
  <2>3. q = minute \/ q < minute \/ minute < q
    BY <2>1
  <2> QED
    BY <1>6, <2>1, <2>2, <2>3
<1> QED
  BY <1>3, <1>7 DEF q, a

(* completeMinuteRange counts the minutes from whose start to whose end the *)
(* log was kept.                                                            *)
LEMMA MinutesComplete ==
  ASSUME Ordered, past # <<>>
  PROVE  Minutes = CompleteMinutes
<1> DEFINE F == FirstEvent
           L == LastEvent
           s == (F + Minute - 1) \div Minute
           e == L \div Minute
<1>1. Minute \in Nat \ {0} /\ LastTick \in Nat
  BY Constants
<1>2. Len(past) \in Nat \ {0}
  BY PastIs DEF Ordered
<1>3. /\ F = past[1].tick /\ F \in Nat \ {0}
      /\ L = past[Len(past)].tick /\ L \in Nat
  BY <1>2, PastIs DEF FirstEvent, LastEvent, Last
<1>4. \A i \in 1 .. Len(past) :
        past[i].tick \in Nat /\ F <= past[i].tick /\ past[i].tick <= L
  <2> TAKE i \in 1 .. Len(past)
  <2>1. past[i].tick \in Nat
    BY PastIs
  <2>2. i = 1 \/ 1 < i
    BY <1>2
  <2>3. i = Len(past) \/ i < Len(past)
    BY <1>2
  <2>4. 1 \in 1 .. Len(past) /\ Len(past) \in 1 .. Len(past)
    BY <1>2
  <2>5. F <= past[i].tick
    BY <1>3, <2>1, <2>2, <2>4 DEF Ordered
  <2>6. past[i].tick <= L
    BY <1>3, <2>1, <2>3, <2>4 DEF Ordered
  <2> QED
    BY <2>1, <2>5, <2>6
<1>5. /\ Start = s /\ End = e
  BY DEF Start, End
<1>6. F + Minute - 1 \in Nat
  BY <1>1, <1>3
<1>7. /\ s \in Nat /\ Minute * s <= F + Minute - 1 /\ F + Minute - 1 < Minute * s + Minute
      /\ e \in Nat /\ Minute * e <= L /\ L < Minute * e + Minute
  BY <1>1, <1>3, <1>6, Quotient
<1> HIDE DEF s, e, F, L
<1>8. ASSUME NEW minute \in 0 .. LastTick
      PROVE  /\ s <= minute <=> F <= Minute * minute
             /\ minute < e <=> Minute * minute + Minute <= L
  <2>1. minute \in Nat
    BY <1>1
  <2>2. /\ Minute * minute \in Nat /\ Minute * s \in Nat /\ Minute * e \in Nat
        /\ s < minute => Minute * s + Minute <= Minute * minute
        /\ minute < s => Minute * minute + Minute <= Minute * s
        /\ minute < e => Minute * minute + Minute <= Minute * e
        /\ e < minute => Minute * e + Minute <= Minute * minute
    BY <1>1, <1>7, <2>1, Multiples
  <2> DEFINE m == Minute * minute
             ms == Minute * s
             me == Minute * e
  <2> HIDE DEF m, ms, me
  <2>3. /\ m \in Nat /\ ms \in Nat /\ me \in Nat /\ Minute \in Nat \ {0}
        /\ s < minute => ms + Minute <= m
        /\ minute < s => m + Minute <= ms
        /\ minute < e => m + Minute <= me
        /\ e < minute => me + Minute <= m
        /\ ms <= F + Minute - 1 /\ F + Minute - 1 < ms + Minute
        /\ me <= L /\ L < me + Minute
    BY <1>1, <1>7, <2>2 DEF m, ms, me
  <2>4. (s = minute => ms = m) /\ (e = minute => me = m)
    BY DEF m, ms, me
  <2>5. F \in Nat /\ L \in Nat /\ s \in Nat /\ e \in Nat
    BY <1>3, <1>7
  <2>6. s <= minute <=> F <= m
    BY <2>1, <2>3, <2>4, <2>5
  <2>7. minute < e <=> m + Minute <= L
    BY <2>1, <2>3, <2>4, <2>5
  <2> QED
    BY <2>6, <2>7 DEF m
<1>9. ASSUME NEW minute \in 0 .. LastTick
      PROVE  /\ F <= Minute * minute <=>
                  \E i \in DOMAIN past : past[i].tick <= minute * Minute
             /\ Minute * minute + Minute <= L <=>
                  \E i \in DOMAIN past : past[i].tick >= (minute + 1) * Minute
  <2>1. /\ minute * Minute = Minute * minute /\ Minute * minute \in Nat
        /\ (minute + 1) * Minute = Minute * minute + Minute
    BY <1>1
  <2>2. DOMAIN past = 1 .. Len(past) /\ 1 \in DOMAIN past /\ Len(past) \in DOMAIN past
    BY <1>2, PastIs
  <2> DEFINE m == Minute * minute
  <2>3. m \in Nat /\ Minute \in Nat
    BY <1>1, <2>1
  <2> HIDE DEF m
  <2>4. F <= m <=> \E i \in DOMAIN past : past[i].tick <= m
    BY <1>3, <1>4, <2>2, <2>3
  <2>5. m + Minute <= L <=> \E i \in DOMAIN past : past[i].tick >= m + Minute
    BY <1>3, <1>4, <2>2, <2>3
  <2> QED
    BY <2>1, <2>4, <2>5 DEF m
<1>10. ASSUME NEW minute \in 0 .. LastTick
       PROVE  minute \in Minutes <=> minute \in CompleteMinutes
  BY <1>5, <1>8, <1>9 DEF Minutes, CompleteMinutes
<1> QED
  BY <1>10 DEF Minutes, CompleteMinutes

(* What the workspace holds of a group, minute by minute. *)
LEMMA SeriesIs ==
  ASSUME Ordered, NEW group, NEW lost, NEW what \in {"requests", "upstream"}
  PROVE  /\ IsFiniteSet(Minutes)
         /\ Series(group, lost, what) \in [Minutes -> Nat]
         /\ Eligible(lost) =>
              \A minute \in Minutes :
                Series(group, lost, what)[minute] = Truth(group, minute, what)
<1>1. IsFiniteSet(Minutes)
  <2>1. IsFiniteSet(0 .. LastTick)
    BY Constants, FS_Interval
  <2> QED
    BY <2>1, FS_Subset DEF Minutes
<1>2. DOMAIN past = 1 .. Len(past) /\ IsFiniteSet(DOMAIN past)
  <2>1. DOMAIN past = 1 .. Len(past) /\ Len(past) \in Nat
    BY PastIs
  <2> QED
    BY <2>1, FS_Interval
<1>3. \A i \in DOMAIN past :
        /\ past[i].kind \in PastKind /\ past[i].tick \in Nat
        /\ Amount(past[i].kind, what) \in Nat
  <2>1. \A kind \in PastKind : kind.upstream \in Nat
    BY PathAssumption
  <2> QED
    BY <1>2, <2>1, PastIs DEF Amount
<1>4. ASSUME NEW minute \in Minutes
      PROVE  Series(group, lost, what)[minute] \in Nat
  <2> DEFINE A == InStore(group, minute, lost)
             f == [i \in A |-> Amount(past[i].kind, what)]
  <2>1. Series(group, lost, what)[minute] = SumFunction(f)
    BY DEF Series
  <2>2. IsFiniteSet(A) /\ \A i \in A : f[i] \in Nat
    BY <1>2, <1>3, FS_Subset DEF InStore
  <2>3. DOMAIN f = A
    OBVIOUS
  <2> HIDE DEF f, A
  <2>4. SumFunction(f) = Sum(f, A)
    BY <2>3, SumFunctionIs
  <2> QED
    BY <2>1, <2>2, <2>4, SumFacts
<1>5. Series(group, lost, what) \in [Minutes -> Nat]
  BY <1>4 DEF Series
<1>6. ASSUME Eligible(lost), NEW minute \in Minutes
      PROVE  Series(group, lost, what)[minute] = Truth(group, minute, what)
  <2> DEFINE A == InStore(group, minute, lost)
             B == {i \in DOMAIN past :
                     /\ past[i].tick \in minute * Minute .. (minute + 1) * Minute - 1
                     /\ group \in {VolumeGroup(past[i].kind), ShapeGroup(past[i].kind)}
                     /\ ~past[i].kind.denied}
  <2>1. minute \in Nat
    BY Constants DEF Minutes
  <2>2. ASSUME NEW i \in DOMAIN past PROVE i \in A <=> i \in B
    <3>1. past[i].tick \div Minute = minute <=>
            past[i].tick \in minute * Minute .. (minute + 1) * Minute - 1
      BY <1>3, <2>1, InMinute
    <3>2. past[i].kind.route \notin lost
      BY <1>6 DEF Eligible
    <3>3. past[i].kind \in Of(group, PastKind) <=>
            group \in {VolumeGroup(past[i].kind), ShapeGroup(past[i].kind)}
      BY <1>3 DEF Of
    <3> QED
      BY <3>1, <3>2, <3>3 DEF InStore
  <2>3. A = B
    BY <2>2 DEF InStore
  <2>4. Series(group, lost, what)[minute] =
          SumFunction([i \in A |-> Amount(past[i].kind, what)])
    BY DEF Series
  <2>5. Truth(group, minute, what) = SumFunction([i \in B |-> Amount(past[i].kind, what)])
    BY DEF Truth
  <2> HIDE DEF A, B
  <2> QED
    BY <2>3, <2>4, <2>5, Zenon
<1> QED
  BY <1>1, <1>5, <1>6

(* The nearest rank of what the workspace holds is a number, and if nothing *)
(* was lost the percentile of what was really asked.                        *)
LEMMA BaselineIs ==
  ASSUME Ordered, past # <<>>, NEW group, NEW lost, NEW what \in {"requests", "upstream"}
  PROVE  /\ NearestRank(Series(group, lost, what)) \in Nat
         /\ Eligible(lost) => IsPercentile(NearestRank(Series(group, lost, what)), group, what)
<1> DEFINE series == Series(group, lost, what)
           value == NearestRank(series)
<1>1. IsFiniteSet(Minutes) /\ series \in [Minutes -> Nat]
  BY SeriesIs
<1>2. /\ value \in Nat
      /\ 100 * Cardinality(UpTo(series, value)) >= Percent * Cardinality(Minutes)
      /\ value > 0 => ~(100 * Cardinality(UpTo(series, value - 1))
                          >= Percent * Cardinality(Minutes))
  <2> HIDE DEF series
  <2> QED
    BY <1>1, NearestRankIs
<1>3. Minutes = CompleteMinutes
  BY MinutesComplete
<1>4. ASSUME Eligible(lost), NEW bound
      PROVE  UpTo(series, bound) =
               {minute \in CompleteMinutes : Truth(group, minute, what) <= bound}
  <2>1. \A minute \in Minutes : series[minute] = Truth(group, minute, what)
    BY <1>4, SeriesIs
  <2> HIDE DEF series
  <2> QED
    BY <1>1, <1>3, <2>1 DEF UpTo
<1>5. ASSUME Eligible(lost) PROVE IsPercentile(value, group, what)
  <2> HIDE DEF value, series
  <2>1. /\ Cardinality(UpTo(series, value)) =
             Cardinality({minute \in CompleteMinutes : Truth(group, minute, what) <= value})
        /\ Cardinality(UpTo(series, value - 1)) =
             Cardinality({minute \in CompleteMinutes :
                            Truth(group, minute, what) <= value - 1})
        /\ Cardinality(Minutes) = Cardinality(CompleteMinutes)
    BY <1>3, <1>4, <1>5, Zenon
  <2> QED
    BY <1>2, <2>1 DEF IsPercentile
<1> QED
  BY <1>2, <1>5

-----------------------------------------------------------------------------
(* Types, and the baseline *)

Typed ==
  /\ phase \in {"history", "baseline", "live"}
  /\ offset \in 0 .. Minute - 1
  /\ Ordered
  /\ baseline \in [requests : [Group -> Nat], upstream : [Group -> Nat]]
  /\ window \in [Age -> [LiveKind -> 0 .. MaxLive]]
  /\ fresh \in BOOLEAN
  /\ qualified \subseteq Group

(* A request is appended to the ones before it. *)
LEMMA RecordPastTyped ==
  ASSUME Typed, NEW kind \in PastKind, NEW tick \in Tick, RecordPast(kind, tick)
  PROVE  Typed'
<1> DEFINE Request == [tick : Tick, kind : PastKind]
           n == Len(past)
           new == [tick |-> tick, kind |-> kind]
<1>1. past \in Seq(Request) /\ new \in Request /\ past' = Append(past, new)
  BY DEF Typed, Ordered, RecordPast
<1> HIDE DEF Request, new
<1>2. past' \in Seq(Request) /\ n \in Nat /\ Len(past') = n + 1
  BY <1>1
<1>3. \A i \in 1 .. n + 1 : past'[i] = IF i = n + 1 THEN new ELSE past[i]
  BY <1>1
<1>4. tick \in Nat /\ new.tick = tick
  BY Constants DEF Tick, new
<1>5. \A i \in 1 .. n : past[i].tick \in Nat /\ past[i].tick <= tick
  <2> SUFFICES ASSUME NEW i \in 1 .. n
               PROVE  past[i].tick \in Nat /\ past[i].tick <= tick
    OBVIOUS
  <2>0. n \in 1 .. n
    BY <1>2
  <2>1. n \in 1 .. n /\ past[i].tick \in Nat /\ past[n].tick \in Nat
    <3>1. \A j \in 1 .. Len(past) : past[j].tick \in Nat \ {0}
      BY PastIs DEF Typed
    <3> QED
      BY <2>0, <3>1
  <2>2. past[n].tick <= tick
    <3>1. past # <<>> /\ Last(past) = past[n]
      BY <1>1, <2>1 DEF Last
    <3> QED
      BY <1>4, <2>1, <3>1 DEF RecordPast
  <2>3. i = n \/ past[i].tick <= past[n].tick
    BY <1>2, <2>1 DEF Typed, Ordered
  <2> QED
    BY <1>4, <2>1, <2>2, <2>3
<1>6. ASSUME NEW i \in 1 .. n + 1, NEW j \in 1 .. n + 1, i < j
      PROVE  past'[i].tick <= past'[j].tick
  <2>1. i \in 1 .. n /\ past'[i] = past[i]
    BY <1>2, <1>3, <1>6
  <2>2. CASE j = n + 1
    BY <1>3, <1>4, <1>5, <2>1, <2>2
  <2>3. CASE j # n + 1
    <3>1. j \in 1 .. n /\ past'[j] = past[j]
      BY <1>2, <1>3, <2>3
    <3> QED
      BY <1>6, <2>1, <3>1 DEF Typed, Ordered
  <2> QED
    BY <2>2, <2>3
<1>7. Ordered'
  <2>1. past' \in Seq([tick : Tick, kind : PastKind])'
    BY <1>2 DEF Request, Tick
  <2>2. \A i, j \in 1 .. Len(past') : i < j => past'[i].tick <= past'[j].tick
    BY <1>2, <1>6
  <2> QED
    BY <2>1, <2>2 DEF Ordered
<1> QED
  BY <1>7 DEF Typed, RecordPast

(* The percentiles are numbers. *)
LEMMA BuildBaselineTyped ==
  ASSUME Typed, NEW lost, BuildBaseline(lost)
  PROVE  Typed'
<1>1. Ordered /\ past # <<>>
  BY DEF Typed, BuildBaseline
<1>2. \A group \in Group : /\ NearestRank(Series(group, lost, "requests")) \in Nat
                           /\ NearestRank(Series(group, lost, "upstream")) \in Nat
  BY <1>1, BaselineIs
<1>3. baseline' \in [requests : [Group -> Nat], upstream : [Group -> Nat]]
  BY <1>2 DEF BuildBaseline
<1>4. Ordered'
  BY <1>1 DEF BuildBaseline, Ordered
<1> QED
  BY <1>3, <1>4 DEF Typed, BuildBaseline

(* There is room for one more request in the youngest tick. *)
LEMMA ObserveTyped ==
  ASSUME Typed, NEW kind \in LiveKind, Observe(kind)
  PROVE  Typed'
<1> DEFINE g == [age \in Age |-> SumFunction(window[age])]
<1>1. /\ Window \in Nat \ {0} /\ MaxLive \in Nat /\ IsFiniteSet(LiveKind)
      /\ 1 \in Age /\ IsFiniteSet(Age)
  <2>1. Window \in Nat \ {0} /\ MaxLive \in Nat /\ IsFiniteSet(LiveKind)
    BY Constants
  <2>2. IsFiniteSet(1 .. Window)
    BY <2>1, FS_Interval
  <2> QED
    BY <2>1, <2>2 DEF Age
<1>2. ASSUME NEW age \in Age
      PROVE  /\ window[age] \in [LiveKind -> Nat]
             /\ g[age] = Sum(window[age], LiveKind) /\ g[age] \in Nat
  <2>1. window[age] \in [LiveKind -> 0 .. MaxLive]
    BY DEF Typed
  <2>2. window[age] \in [LiveKind -> Nat] /\ DOMAIN window[age] = LiveKind
    BY <1>1, <2>1
  <2>3. SumFunction(window[age]) = Sum(window[age], LiveKind)
    BY <2>2, SumFunctionIs
  <2>4. Sum(window[age], LiveKind) \in Nat
    BY <1>1, <2>2, SumFacts
  <2> QED
    BY <2>2, <2>3, <2>4
<1>3. SumFunction(g) < MaxLive
  BY DEF Observe
<1>4. DOMAIN g = Age
  OBVIOUS
<1> HIDE DEF g
<1>5. SumFunction(g) = Sum(g, Age) /\ g[1] <= Sum(g, Age) /\ Sum(g, Age) \in Nat
  BY <1>1, <1>2, <1>4, SumFunctionIs, SumBounds, SumFacts
<1>6. window[1][kind] <= g[1] /\ window[1][kind] \in Nat
  <2>1. window[1] \in [LiveKind -> Nat] /\ g[1] = Sum(window[1], LiveKind)
    BY <1>1, <1>2
  <2> QED
    BY <1>1, <2>1, SumBounds
<1>7. window[1][kind] + 1 \in 0 .. MaxLive
  BY <1>1, <1>2, <1>3, <1>5, <1>6
<1>8. window' = [window EXCEPT ![1][kind] = window[1][kind] + 1]
  BY DEF Observe
<1>9. window' \in [Age -> [LiveKind -> 0 .. MaxLive]]
  BY <1>1, <1>7, <1>8 DEF Typed
<1>10. Ordered'
  BY DEF Typed, Observe, Ordered
<1> QED
  BY <1>9, <1>10 DEF Typed, Observe

(* The window moves on by a tick. *)
LEMMA EvaluateTyped ==
  ASSUME Typed, Evaluate
  PROVE  Typed'
<1>1. Minute \in Nat \ {0} /\ Window \in Nat \ {0} /\ MaxLive \in Nat
  BY Constants
<1>2. offset' \in 0 .. Minute - 1
  BY <1>1 DEF Typed, Evaluate
<1>3. \A age \in Age : age = 1 \/ age - 1 \in Age
  BY <1>1 DEF Age
<1>4. [kind \in LiveKind |-> 0] \in [LiveKind -> 0 .. MaxLive]
  BY <1>1
<1>5. window' = [age \in Age |-> IF age = 1 THEN [kind \in LiveKind |-> 0]
                                            ELSE window[age - 1]]
  BY DEF Evaluate
<1>6. window \in [Age -> [LiveKind -> 0 .. MaxLive]]
  BY DEF Typed
<1> DEFINE Kinds == [LiveKind -> 0 .. MaxLive]
<1> HIDE DEF Kinds
<1>7. window' \in [Age -> Kinds]
  BY <1>3, <1>4, <1>5, <1>6 DEF Kinds
<1>8. Ordered'
  BY DEF Typed, Evaluate, Ordered
<1> QED
  BY <1>2, <1>7, <1>8 DEF Typed, Evaluate, Kinds

LEMMA TypedAlways == QualificationSpec => []Typed
<1>1. QualificationInit => Typed
  <2> SUFFICES ASSUME QualificationInit PROVE Typed
    OBVIOUS
  <2>1. past = <<>> /\ Ordered
    BY DEF QualificationInit, Ordered
  <2>2. baseline \in [requests : [Group -> Nat], upstream : [Group -> Nat]]
    BY DEF QualificationInit, NoBaseline
  <2>3. window \in [Age -> [LiveKind -> 0 .. MaxLive]]
    <3>1. [kind \in LiveKind |-> 0] \in [LiveKind -> 0 .. MaxLive]
      BY Constants
    <3> QED
      BY <3>1 DEF QualificationInit, NoRequest
  <2>4. offset \in 0 .. Minute - 1
    BY Constants DEF QualificationInit
  <2> QED
    BY <2>1, <2>2, <2>3, <2>4 DEF QualificationInit, Typed
<1>2. Typed /\ [QualificationNext]_vars => Typed'
  <2> SUFFICES ASSUME Typed, [QualificationNext]_vars PROVE Typed'
    OBVIOUS
  <2>1. CASE \E kind \in PastKind, tick \in Tick : RecordPast(kind, tick)
    BY <2>1, RecordPastTyped
  <2>2. CASE \E lost \in SUBSET {kind.route : kind \in PastKind} : BuildBaseline(lost)
    BY <2>2, BuildBaselineTyped
  <2>3. CASE StartLive
    <3>1. past' = <<>> /\ Ordered'
      BY <2>3 DEF StartLive, Ordered
    <3> QED
      BY <2>3, <3>1 DEF StartLive, Typed
  <2>4. CASE \E kind \in LiveKind : Observe(kind)
    BY <2>4, ObserveTyped
  <2>5. CASE ObserveRefused
    BY <2>5 DEF ObserveRefused, Typed, Ordered
  <2>6. CASE ObserveError
    BY <2>6 DEF ObserveError, Typed, Ordered
  <2>7. CASE Evaluate
    BY <2>7, EvaluateTyped
  <2>8. CASE UNCHANGED vars
    BY <2>8 DEF vars, Typed, Ordered
  <2> QED
    BY <2>1, <2>2, <2>3, <2>4, <2>5, <2>6, <2>7, <2>8 DEF QualificationNext
<1> QED
  BY <1>1, <1>2, PTL DEF QualificationSpec

(* Every variable keeps its type: in particular the percentiles of          *)
(* nearestRankP99 are numbers, whatever log they are made from.             *)
THEOREM QualificationTypeCorrect == QualificationSpec => []QualificationTypeOK
<1>1. HealthTypeOK /\ Typed => QualificationTypeOK
  BY DEF Typed, Ordered, QualificationTypeOK
<1> QED
  BY <1>1, ImplementsHealth, HealthTypeCorrect, TypedAlways, PTL

(* A baseline that live protection accepts is the exact percentile of what  *)
(* was asked in the complete minutes of the log, for any log, any percentile*)
(* and any length of a minute (BuildBaseline).                              *)
THEOREM BaselineExactAlways == QualificationSpec => []BaselineExact
<1>1. QualificationInit => BaselineExact
  BY DEF QualificationInit, BaselineExact
<1>2. Typed /\ BaselineExact /\ [QualificationNext]_vars => BaselineExact'
  <2> SUFFICES ASSUME Typed, BaselineExact, [QualificationNext]_vars, phase' = "baseline",
                      NEW group \in Group'
               PROVE  /\ IsPercentile(baseline.requests[group], group, "requests")'
                      /\ (group \notin Volume)' =>
                           IsPercentile(baseline.upstream[group], group, "upstream")'
    BY DEF BaselineExact
  <2>1. CASE \E lost \in SUBSET {kind.route : kind \in PastKind} : BuildBaseline(lost)
    <3>1. PICK lost \in SUBSET {kind.route : kind \in PastKind} : BuildBaseline(lost)
      BY <2>1
    <3> DEFINE requests == NearestRank(Series(group, lost, "requests"))
               upstream == NearestRank(Series(group, lost, "upstream"))
    <3>2. /\ IsPercentile(requests, group, "requests")
          /\ IsPercentile(upstream, group, "upstream")
      BY <3>1, BaselineIs DEF Typed, BuildBaseline
    <3>3. /\ past' = past /\ baseline'.requests[group] = requests
          /\ group \notin Volume => baseline'.upstream[group] = upstream
      BY <3>1 DEF BuildBaseline
    <3> HIDE DEF requests, upstream
    <3>4. IsPercentile(baseline.requests[group], group, "requests")'
      BY <3>2, <3>3 DEF IsPercentile, CompleteMinutes, Truth
    <3>5. ASSUME group \notin Volume
          PROVE  IsPercentile(baseline.upstream[group], group, "upstream")'
      <4>1. baseline'.upstream[group] = upstream
        BY <3>3, <3>5
      <4> QED
        BY <3>2, <3>3, <4>1 DEF IsPercentile, CompleteMinutes, Truth
    <3> QED
      BY <3>4, <3>5
  <2>2. CASE UNCHANGED <<phase, past, baseline>>
    <3>1. /\ IsPercentile(baseline.requests[group], group, "requests")
          /\ group \notin Volume => IsPercentile(baseline.upstream[group], group, "upstream")
      BY <2>2 DEF BaselineExact
    <3>2. past' = past /\ baseline' = baseline
      BY <2>2
    <3>3. IsPercentile(baseline.requests[group], group, "requests")'
      BY <3>1, <3>2 DEF IsPercentile, CompleteMinutes, Truth
    <3>4. ASSUME group \notin Volume
          PROVE  IsPercentile(baseline.upstream[group], group, "upstream")'
      BY <3>1, <3>2, <3>4 DEF IsPercentile, CompleteMinutes, Truth
    <3> QED
      BY <3>3, <3>4
  <2> QED
    BY <2>1, <2>2 DEF QualificationNext, vars, RecordPast, StartLive, Observe,
       ObserveRefused, ObserveError, Evaluate
<1> QED
  BY <1>1, <1>2, TypedAlways, PTL DEF QualificationSpec

-----------------------------------------------------------------------------
(* Excluded paths *)

(* A prefix covers a path segment by segment, and one that ends in a slash  *)
(* whatever follows it.                                                     *)
Matches(prefix, path) ==
  /\ Len(prefix) <= Len(path)
  /\ \A i \in 1 .. Len(prefix) :
       prefix[i] = path[i] \/ (i = Len(prefix) /\ prefix[i] = "")

LEMMA PrefixIs ==
  ASSUME NEW s \in Seq(STRING), NEW t \in Seq(STRING)
  PROVE  IsPrefix(s, t) <=> Len(s) <= Len(t) /\ \A i \in 1 .. Len(s) : s[i] = t[i]
<1>1. Len(s) \in Nat /\ Len(t) \in Nat
  OBVIOUS
<1>2. ASSUME Len(s) <= Len(t)
      PROVE  SubSeq(s, 1, Len(s)) = SubSeq(t, 1, Len(s)) <=>
               \A i \in 1 .. Len(s) : s[i] = t[i]
  <2> DEFINE a == SubSeq(s, 1, Len(s))
             b == SubSeq(t, 1, Len(s))
  <2>1. /\ a \in Seq(STRING) /\ Len(a) = Len(s)
        /\ \A i \in 1 .. Len(s) : a[i] = s[i]
    BY <1>1
  <2>2. /\ b \in Seq(STRING) /\ Len(b) = Len(s)
        /\ \A i \in 1 .. Len(s) : b[i] = t[i]
    BY <1>1, <1>2
  <2> HIDE DEF a, b
  <2>3. (\A i \in 1 .. Len(s) : s[i] = t[i]) => a = b
    <3> SUFFICES ASSUME \A i \in 1 .. Len(s) : s[i] = t[i] PROVE a = b
      OBVIOUS
    <3>1. \A i \in 1 .. Len(a) : a[i] = b[i]
      BY <2>1, <2>2
    <3> QED
      BY <2>1, <2>2, <3>1, SeqEqual
  <2>4. a = b => \A i \in 1 .. Len(s) : s[i] = t[i]
    BY <2>1, <2>2
  <2> QED
    BY <2>3, <2>4 DEF a, b
<1> QED
  BY <1>2 DEF IsPrefix

LEMMA CoversIs ==
  ASSUME NEW prefix \in Seq(STRING) \ {<<>>}, NEW path \in Seq(STRING) \ {<<>>}
  PROVE  Covers(prefix, path) <=> Matches(prefix, path)
<1> DEFINE n == Len(prefix)
<1>1. /\ n \in Nat \ {0} /\ Len(path) \in Nat \ {0}
      /\ prefix \in Seq(STRING) /\ path \in Seq(STRING)
  OBVIOUS
<1>2. Last(prefix) = prefix[n]
  BY DEF Last
<1>3. /\ Front(prefix) \in Seq(STRING) /\ Len(Front(prefix)) = n - 1
      /\ \A i \in 1 .. n - 1 : Front(prefix)[i] = prefix[i]
  <2>1. 1 \in Int /\ n - 1 \in Int /\ \A i \in 1 .. n - 1 : prefix[i] \in STRING
    BY <1>1
  <2> HIDE DEF n
  <2>2. Front(prefix) = SubSeq(prefix, 1, n - 1)
    BY DEF Front, n
  <2>3. /\ SubSeq(prefix, 1, n - 1) \in Seq(STRING)
        /\ Len(SubSeq(prefix, 1, n - 1)) = IF 1 <= n - 1 THEN (n - 1) - 1 + 1 ELSE 0
        /\ \A i \in 1 .. (n - 1) - 1 + 1 :
             SubSeq(prefix, 1, n - 1)[i] = prefix[1 + i - 1]
    BY <2>1, SubSeqProperties
  <2> QED
    BY <1>1, <2>2, <2>3
<1>4. IsPrefix(prefix, path) <=> n <= Len(path) /\ \A i \in 1 .. n : prefix[i] = path[i]
  BY PrefixIs
<1>5. IsPrefix(Front(prefix), path) <=>
        n - 1 <= Len(path) /\ \A i \in 1 .. n - 1 : prefix[i] = path[i]
  <2>1. IsPrefix(Front(prefix), path) <=>
          /\ Len(Front(prefix)) <= Len(path)
          /\ \A i \in 1 .. Len(Front(prefix)) : Front(prefix)[i] = path[i]
    BY <1>1, <1>3, PrefixIs
  <2> HIDE DEF n
  <2> QED
    BY <1>1, <1>3, <2>1
<1>6. Covers(prefix, path) <=> IF prefix[n] = ""
                               THEN Len(path) >= n /\ IsPrefix(Front(prefix), path)
                               ELSE IsPrefix(prefix, path)
  BY <1>2 DEF Covers
<1>7. Matches(prefix, path) <=>
        /\ n <= Len(path)
        /\ \A i \in 1 .. n : prefix[i] = path[i] \/ (i = n /\ prefix[n] = "")
  BY DEF Matches
<1> HIDE DEF n
<1>8. CASE prefix[n] = ""
  <2>1. (\A i \in 1 .. n - 1 : prefix[i] = path[i]) <=>
        \A i \in 1 .. n : prefix[i] = path[i] \/ (i = n /\ prefix[n] = "")
    <3>1. \A i \in 1 .. n : i = n \/ i \in 1 .. n - 1
      BY <1>1
    <3>2. \A i \in 1 .. n - 1 : i \in 1 .. n /\ i # n
      BY <1>1
    <3> QED
      BY <1>8, <3>1, <3>2
  <2>2. Len(path) >= n <=> n <= Len(path)
    BY <1>1
  <2>3. n <= Len(path) => n - 1 <= Len(path)
    BY <1>1
  <2> QED
    BY <1>5, <1>6, <1>7, <1>8, <2>1, <2>2, <2>3
<1>9. CASE prefix[n] # ""
  BY <1>4, <1>6, <1>7, <1>9
<1> QED
  BY <1>8, <1>9

(* Of two prefixes of one path, the shorter one covers the other, and of    *)
(* two of one length the one with a slash at its end.                       *)
EndsInSlash(path) == path[Len(path)] = ""

Shorter(p, q) ==
  /\ Len(p) <= Len(q)
  /\ Len(p) = Len(q) => ~EndsInSlash(q) \/ EndsInSlash(p)

LEMMA ShorterCovers ==
  ASSUME NEW p \in Seq(STRING) \ {<<>>}, NEW q \in Seq(STRING) \ {<<>>},
         NEW path \in Seq(STRING) \ {<<>>}, Covers(p, path), Covers(q, path),
         Shorter(p, q)
  PROVE  Covers(p, q)
<1>1. Matches(p, path) /\ Matches(q, path)
  BY CoversIs
<1>2. Len(p) \in Nat
  BY LenProperties
<1>3. Len(q) \in Nat /\ Len(p) <= Len(q)
  BY LenProperties DEF Shorter
<1>4. ASSUME NEW i \in 1 .. Len(p)
      PROVE  p[i] = q[i] \/ (i = Len(p) /\ p[i] = "")
  <2>1. i \in 1 .. Len(q) /\ (i = Len(q) => Len(p) = Len(q) /\ i = Len(p))
    BY <1>2, <1>3
  <2>2. p[i] = path[i] \/ (i = Len(p) /\ p[i] = "")
    BY <1>1 DEF Matches
  <2>3. q[i] = path[i] \/ (i = Len(q) /\ q[i] = "")
    BY <1>1, <2>1 DEF Matches
  <2>4. CASE i = Len(q)
    <3>1. Len(p) = Len(q) /\ i = Len(p)
      BY <2>1, <2>4
    <3>2. q[i] # "" \/ p[i] = ""
      BY <2>4, <3>1 DEF Shorter, EndsInSlash
    <3> QED
      BY <2>2, <2>3, <3>1, <3>2
  <2>5. CASE i # Len(q)
    BY <2>2, <2>3, <2>5
  <2> QED
    BY <2>4, <2>5
<1>5. Matches(p, q)
  BY <1>3, <1>4 DEF Matches
<1> QED
  BY <1>5, CoversIs

LEMMA OneCovers ==
  ASSUME NEW p \in Seq(STRING) \ {<<>>}, NEW q \in Seq(STRING) \ {<<>>},
         NEW path \in Seq(STRING) \ {<<>>}, Covers(p, path), Covers(q, path)
  PROVE  Covers(p, q) \/ Covers(q, p)
<1>1. Len(p) \in Nat /\ Len(q) \in Nat
  OBVIOUS
<1>2. Len(p) < Len(q) \/ Len(q) < Len(p) \/ Len(p) = Len(q)
  BY <1>1
<1>3. Shorter(p, q) \/ Shorter(q, p)
  BY <1>1, <1>2 DEF Shorter
<1> QED
  BY <1>3, ShorterCovers

(* A threshold is at least its floor. *)
LEMMA ThresholdIs ==
  ASSUME NEW p99 \in Nat, NEW floor \in Nat \ {0}
  PROVE  /\ EffectiveThreshold(p99, floor) \in Nat
         /\ EffectiveThreshold(p99, floor) >= floor
         /\ EffectiveThreshold(p99, floor) >=
              Detection.multiplier * ((p99 * Window + Minute - 1) \div Minute)
<1> DEFINE scaled == Detection.multiplier * ((p99 * Window + Minute - 1) \div Minute)
<1>1. scaled \in Nat
  <2>1. Minute \in Nat \ {0} /\ Window \in Nat /\ Detection.multiplier \in Nat
    BY Constants, DetectionAssumption
  <2>2. p99 * Window + Minute - 1 \in Nat
    <3>1. p99 * Window \in Nat
      BY <2>1
    <3> HIDE DEF scaled
    <3> QED
      BY <2>1, <3>1
  <2>3. (p99 * Window + Minute - 1) \div Minute \in Nat
    BY <2>1, <2>2, Quotient
  <2> QED
    BY <2>1, <2>3
<1>2. EffectiveThreshold(p99, floor) = Max({floor, scaled})
  BY DEF EffectiveThreshold
<1> HIDE DEF scaled
<1>3. \E x \in {floor, scaled} : \A y \in {floor, scaled} : x >= y
  BY <1>1
<1>4. /\ Max({floor, scaled}) \in {floor, scaled}
      /\ \A y \in {floor, scaled} : Max({floor, scaled}) >= y
  BY <1>3 DEF Max
<1> QED
  BY <1>1, <1>2, <1>4 DEF scaled

(* Nothing is counted of no kind of request. *)
LEMMA NothingCounted ==
  ASSUME NEW what
  PROVE  Count({}, what) = 0
<1> DEFINE f == [cell \in Age \X {} |-> window[cell[1]][cell[2]] * Amount(cell[2], what)]
<1>1. Count({}, what) = SumFunction(f)
  BY DEF Count, CountIn
<1>2. DOMAIN f = {}
  OBVIOUS
<1> HIDE DEF f
<1>3. SumFunction(f) = Sum(f, {})
  BY <1>2, SumFunctionIs
<1>4. Sum(f, {}) = 0
  BY FS_EmptySet, SumFacts
<1> QED
  BY <1>1, <1>3, <1>4

(* A group that qualifies has counted a request that may be acted on. *)
LEMMA QualifiesCounts ==
  ASSUME Typed, NEW group \in Group, Qualifies(group)
  PROVE  Counting(group) # {}
<1>1. /\ baseline.requests[group] \in Nat
      /\ Detection.volumeRequests \in Nat \ {0} /\ Detection.shapeRequests \in Nat \ {0}
  BY DetectionAssumption DEF Typed
<1>2. /\ VolumeThreshold(group) \in Nat \ {0}
      /\ ShapeThreshold(group) \in Nat \ {0}
  <2>1. /\ EffectiveThreshold(baseline.requests[group], Detection.volumeRequests) \in Nat
        /\ EffectiveThreshold(baseline.requests[group], Detection.volumeRequests)
             >= Detection.volumeRequests
    BY <1>1, ThresholdIs
  <2>2. /\ EffectiveThreshold(baseline.requests[group], Detection.shapeRequests) \in Nat
        /\ EffectiveThreshold(baseline.requests[group], Detection.shapeRequests)
             >= Detection.shapeRequests
    BY <1>1, ThresholdIs
  <2> QED
    BY <1>1, <2>1, <2>2 DEF VolumeThreshold, ShapeThreshold
<1>3. \/ RequestsOf(Counting(group)) >= VolumeThreshold(group)
      \/ RequestsOf(Counting(group)) >= ShapeThreshold(group)
  BY DEF Qualifies, VolumeQualifies, ShapeQualifies
<1>4. ASSUME Counting(group) = {} PROVE FALSE
  <2>1. RequestsOf(Counting(group)) = 0
    BY <1>4, NothingCounted DEF RequestsOf
  <2> QED
    BY <1>2, <1>3, <2>1
<1> QED
  BY <1>4

(* A group that may be acted on reaches no excluded path. *)
LEMMA CandidateReaches ==
  ASSUME NEW group \in Group, Counting(group) # {}
  PROVE  /\ group.method \notin ExcludedMethod \cup {"OPTIONS"}
         /\ \A excluded \in Excluded : Reached(group.prefix) \cap Reached(excluded) = {}
<1>1. PICK kind \in LiveKind : /\ group \in {VolumeGroup(kind), ShapeGroup(kind)}
                               /\ Candidate(kind)
  BY DEF Counting, Of
<1>2. group.method = kind.method /\ group.prefix = kind.prefix
  BY <1>1 DEF VolumeGroup, ShapeGroup
<1>3. ~ActionExcluded(group.method, group.prefix)
  BY <1>1, <1>2 DEF Candidate
<1>4. /\ group.prefix \in Seq(STRING) \ {<<>>}
      /\ Excluded \subseteq Seq(STRING) \ {<<>>} /\ Path \subseteq Seq(STRING) \ {<<>>}
  <2>1. kind.prefix \in Seq(STRING) \ {<<>>}
    BY PathAssumption
  <2>2. Excluded \cup Path \subseteq Seq(STRING) \ {<<>>}
    BY PathAssumption
  <2> QED
    BY <1>2, <2>1, <2>2
<1>5. ASSUME NEW excluded \in Excluded, NEW path \in Path,
             Covers(group.prefix, path), Covers(excluded, path)
      PROVE  FALSE
  <2>1. Covers(group.prefix, excluded) \/ Covers(excluded, group.prefix)
    BY <1>4, <1>5, OneCovers
  <2> QED
    BY <1>3, <2>1 DEF ActionExcluded
<1> QED
  BY <1>3, <1>5 DEF ActionExcluded, Reached

(* No rule that may come out of a group is enforced on a request under an   *)
(* excluded path, for any paths and any thresholds (actionExcluded).        *)
THEOREM ExcludedNeverLimitedAlways == QualificationSpec => []ExcludedNeverLimited
<1>1. QualificationInit => ExcludedNeverLimited
  BY DEF QualificationInit, ExcludedNeverLimited
<1>2. Typed /\ ExcludedNeverLimited /\ [QualificationNext]_vars => ExcludedNeverLimited'
  <2> SUFFICES ASSUME Typed, ExcludedNeverLimited, [QualificationNext]_vars,
                      NEW group \in qualified'
               PROVE  /\ group.method \notin ExcludedMethod \cup {"OPTIONS"}
                      /\ \A excluded \in Excluded :
                           Reached(group.prefix) \cap Reached(excluded) = {}
    BY DEF ExcludedNeverLimited, Reached, Covers
  <2>1. CASE Evaluate
    <3>1. group \in Group /\ Qualifies(group)
      BY <2>1 DEF Evaluate
    <3> QED
      BY <3>1, QualifiesCounts, CandidateReaches
  <2>2. CASE qualified' = qualified
    BY <2>2 DEF ExcludedNeverLimited
  <2> QED
    BY <2>1, <2>2 DEF QualificationNext, vars, RecordPast, BuildBaseline, StartLive,
       Observe, ObserveRefused, ObserveError
<1> QED
  BY <1>1, <1>2, TypedAlways, PTL DEF QualificationSpec

-----------------------------------------------------------------------------
(* Quiet groups *)

(* The minutes that a window may lie in. *)
Parts == (Window + Minute - 2) \div Minute + 1

(* The window is long enough, and the multiplier great enough, to outweigh  *)
(* that the window may lie across one minute more than it is long.          *)
Outweighs == Detection.multiplier * Window > Minute * Parts

(* The ticks of the window lie in that many minutes. *)
LEMMA PartsAre ==
  ASSUME Typed
  PROVE  /\ Parts \in Nat
         /\ \A age \in Age : MinuteOf(age) \in 0 .. Parts - 1
<1> DEFINE last == Window + Minute - 2
           q == last \div Minute
<1>1. Minute \in Nat \ {0} /\ Window \in Nat \ {0} /\ offset \in 0 .. Minute - 1
  BY Constants DEF Typed
<1>2. last \in Nat
  BY <1>1
<1> HIDE DEF last
<1>3. q \in Nat
  BY <1>1, <1>2, Quotient
<1> HIDE DEF q
<1>4. Parts = q + 1
  BY DEF Parts, q, last
<1>5. ASSUME NEW age \in Age PROVE MinuteOf(age) \in 0 .. Parts - 1
  <2> DEFINE n == age + Minute - 2 - offset
             m == n \div Minute
  <2>1. n \in Nat /\ n <= last
    BY <1>1 DEF Age, last
  <2> HIDE DEF n
  <2>2. m \in Nat /\ m <= q
    BY <1>1, <1>2, <2>1, Quotient, QuotientsGrow DEF q
  <2>3. MinuteOf(age) = m
    BY DEF MinuteOf, m, n
  <2> HIDE DEF m
  <2> QED
    BY <1>3, <1>4, <2>2, <2>3
<1> QED
  BY <1>3, <1>4, <1>5

(* Within the bound in every minute, a count stays below the threshold.     *)
LEMMA ThresholdOutweighs ==
  ASSUME Outweighs, Parts \in Nat, NEW p99 \in Nat, NEW floor \in Nat \ {0}
  PROVE  p99 * Parts < EffectiveThreshold(p99, floor)
<1> DEFINE t == EffectiveThreshold(p99, floor)
           mult == Detection.multiplier
           scaled == (p99 * Window + Minute - 1) \div Minute
<1>1. /\ Minute \in Nat \ {0} /\ Window \in Nat \ {0} /\ mult \in Nat \ {0}
      /\ mult * Window > Minute * Parts
  BY Constants, DetectionAssumption DEF Outweighs
<1>2. t \in Nat /\ t >= floor /\ t >= mult * scaled
  BY ThresholdIs
<1> HIDE DEF t, mult
<1>3. CASE p99 = 0
  BY <1>2, <1>3 DEF t
<1>4. CASE p99 # 0
  <2> DEFINE w == p99 * Window
             k == p99 * Parts
  <2>1. w \in Nat /\ k \in Nat /\ p99 \in Nat \ {0}
    BY <1>1, <1>4
  <2>2. w + Minute - 1 \in Nat
    <3> HIDE DEF w
    <3> QED
      BY <1>1, <2>1
  <2>3. scaled \in Nat /\ w + Minute - 1 < Minute * scaled + Minute
    <3> HIDE DEF w
    <3>1. (w + Minute - 1) \div Minute \in Nat
      BY <1>1, <2>2, Quotient
    <3>2. w + Minute - 1 < Minute * ((w + Minute - 1) \div Minute) + Minute
      BY <1>1, <2>2, Quotient
    <3> QED
      BY <3>1, <3>2 DEF w
  <2> HIDE DEF scaled
  <2>4. w <= Minute * scaled
    <3> DEFINE ms == Minute * scaled
    <3>1. ms \in Nat
      BY <1>1, <2>3
    <3> HIDE DEF w, ms
    <3> QED
      BY <1>1, <2>1, <2>3, <3>1 DEF ms
  (* mult * w > Minute * k *)
  <2>5. Minute * k < mult * w
    <3> DEFINE a == Minute * Parts
               b == mult * Window
    <3>1. a \in Nat /\ b \in Nat /\ a < b
      BY <1>1
    <3>2. Minute * k = p99 * a /\ mult * w = p99 * b
      BY <1>1
    <3> HIDE DEF a, b, w, k
    <3> DEFINE pa == p99 * a
               pb == p99 * b
    <3>3. pa + p99 <= pb
      BY <2>1, <3>1, Multiples
    <3>4. pa \in Nat /\ pb \in Nat
      BY <2>1, <3>1
    <3> HIDE DEF pa, pb
    <3>5. pa < pb
      BY <2>1, <3>3, <3>4
    <3> QED
      BY <3>2, <3>5 DEF pa, pb
  (* mult * w <= Minute * (mult * scaled) *)
  <2>6. mult * w <= Minute * (mult * scaled)
    <3>1. mult * (Minute * scaled) = Minute * (mult * scaled)
      BY <1>1, <2>3
    <3>2. Minute * scaled \in Nat
      BY <1>1, <2>3
    <3> DEFINE ms == Minute * scaled
    <3> HIDE DEF w, ms
    <3>3. w = ms \/ mult * w + mult <= mult * ms
      BY <1>1, <2>1, <2>4, <3>2, Multiples DEF ms
    <3>4. mult * w \in Nat /\ mult * ms \in Nat
      BY <1>1, <2>1, <3>2 DEF ms
    <3>5. mult * w <= mult * ms
      BY <1>1, <3>3, <3>4
    <3> QED
      BY <3>1, <3>5 DEF ms
  <2>7. k < mult * scaled
    <3> DEFINE c == mult * scaled
    <3>1. c \in Nat
      BY <1>1, <2>3
    <3> HIDE DEF c, k, w
    <3>2. Minute * k < Minute * c
      <4>1. Minute * k \in Nat /\ mult * w \in Nat /\ Minute * c \in Nat
        BY <1>1, <2>1, <3>1
      <4> QED
        BY <2>5, <2>6, <4>1 DEF c
    <3>3. c < k => Minute * c + Minute <= Minute * k
      BY <1>1, <2>1, <3>1, Multiples
    <3>4. Minute * c \in Nat /\ Minute * k \in Nat
      BY <1>1, <2>1, <3>1
    <3>5. c # k
      BY <3>2, <3>4
    <3> QED
      BY <1>1, <2>1, <3>1, <3>2, <3>3, <3>4, <3>5 DEF c
  <2>8. mult * scaled \in Nat
    BY <1>1, <2>3
  <2> DEFINE c == mult * scaled
  <2> HIDE DEF c, k
  <2>9. k < t
    BY <1>2, <2>1, <2>7, <2>8 DEF c
  <2> QED
    BY <2>9 DEF k, t
<1> QED
  BY <1>3, <1>4 DEF t

(* What requests count, and their sum over cells of the window. *)
LEMMA CountIs ==
  ASSUME Typed, NEW what \in {"requests", "upstream"}, NEW cells \in SUBSET (Age \X LiveKind)
  PROVE  LET f == [cell \in Age \X LiveKind |->
                     window[cell[1]][cell[2]] * Amount(cell[2], what)]
         IN  /\ IsFiniteSet(Age \X LiveKind)
             /\ \A cell \in Age \X LiveKind : f[cell] \in Nat
             /\ CountIn(cells, what) = Sum(f, cells)
<1> DEFINE All == Age \X LiveKind
           f == [cell \in All |-> window[cell[1]][cell[2]] * Amount(cell[2], what)]
           g == [cell \in cells |-> window[cell[1]][cell[2]] * Amount(cell[2], what)]
<1>1. IsFiniteSet(All)
  <2>1. IsFiniteSet(Age)
    BY Constants, FS_Interval DEF Age
  <2> QED
    BY <2>1, Constants, FS_Product
<1>2. ASSUME NEW cell \in All PROVE f[cell] \in Nat
  <2>1. cell[1] \in Age /\ cell[2] \in LiveKind
    OBVIOUS
  <2>2. window[cell[1]][cell[2]] \in Nat
    BY <2>1, Constants DEF Typed
  <2>3. Amount(cell[2], what) \in Nat
    BY <2>1, PathAssumption DEF Amount
  <2> QED
    BY <2>2, <2>3
<1>3. CountIn(cells, what) = Sum(g, cells)
  <2>1. CountIn(cells, what) = SumFunction(g)
    BY DEF CountIn
  <2>2. DOMAIN g = cells
    OBVIOUS
  <2> HIDE DEF g
  <2> QED
    BY <2>1, <2>2, SumFunctionIs
<1>4. \A cell \in cells : g[cell] = f[cell]
  OBVIOUS
<1>5. IsFiniteSet(cells)
  BY <1>1, FS_Subset
<1>6. Sum(g, cells) = Sum(f, cells)
  <2> HIDE DEF f, g
  <2> QED
    BY <1>4, <1>5, SumSame
<1> QED
  BY <1>1, <1>2, <1>3, <1>6

(* A group whose count reaches its threshold exceeds the percentile in some *)
(* minute of the window.                                                    *)
LEMMA ReachingExceeds ==
  ASSUME Outweighs, Typed, NEW group, NEW what \in {"requests", "upstream"},
         NEW p99 \in Nat, NEW floor \in Nat \ {0},
         Count(Counting(group), what) >= EffectiveThreshold(p99, floor)
  PROVE  Exceeds(group, p99, what)
<1> SUFFICES ASSUME ~Exceeds(group, p99, what) PROVE FALSE
  OBVIOUS
<1> DEFINE All == Age \X LiveKind
           Mine == Age \X Of(group, LiveKind)
           f == [cell \in All |-> window[cell[1]][cell[2]] * Amount(cell[2], what)]
           part == [cell \in Mine |-> MinuteOf(cell[1])]
           P == 0 .. Parts - 1
<1>1. /\ Of(group, LiveKind) \subseteq LiveKind
      /\ Counting(group) \subseteq Of(group, LiveKind)
  BY DEF Of, Counting
<1>2. /\ Age \X Counting(group) \in SUBSET Mine
      /\ Mine \in SUBSET All /\ Age \X Counting(group) \in SUBSET All
  BY <1>1
<1>3. IsFiniteSet(All) /\ \A cell \in All : f[cell] \in Nat
  BY CountIs
<1>4. \A cells \in SUBSET All : CountIn(cells, what) = Sum(f, cells)
  BY CountIs
<1>5. Parts \in Nat /\ \A age \in Age : MinuteOf(age) \in P
  BY PartsAre
<1>6. IsFiniteSet(P) /\ Cardinality(P) = Parts
  BY <1>5, FS_Interval
<1>7. IsFiniteSet(Mine)
  BY <1>2, <1>3, FS_Subset
<1>8. \A cell \in Mine : part[cell] \in P
  <2> HIDE DEF P
  <2> QED
    BY <1>5
<1>9. ASSUME NEW p \in P
      PROVE  Sum(f, {cell \in Mine : part[cell] = p}) <= p99
  <2> DEFINE Here == {cell \in Mine : part[cell] = p}
  <2>1. CASE Here = {}
    <3>1. Sum(f, {}) = 0
      BY FS_EmptySet, SumFacts
    <3> HIDE DEF Here
    <3>2. Sum(f, Here) = Sum(f, {})
      BY <2>1, Zenon
    <3>3. Sum(f, Here) <= p99
      BY <3>1, <3>2
    <3> QED
      BY <3>3 DEF Here
  <2>2. CASE Here # {}
    <3>1. PICK cell \in Here : TRUE
      BY <2>2
    <3> DEFINE age == cell[1]
               Ticks == {other \in Age : MinuteOf(other) = MinuteOf(age)}
    <3>2. age \in Age /\ MinuteOf(age) = p
      OBVIOUS
    <3>3. Here = Ticks \X Of(group, LiveKind)
      <4> HIDE DEF age
      <4>1. \A other \in Mine : /\ other[1] \in Age /\ other[2] \in Of(group, LiveKind)
                                /\ other = <<other[1], other[2]>>
        OBVIOUS
      <4>2. Here \subseteq Ticks \X Of(group, LiveKind)
        BY <3>2, <4>1
      <4>3. Ticks \X Of(group, LiveKind) \subseteq Here
        BY <3>2
      <4> QED
        BY <4>2, <4>3
    <3>4. ~(CountIn(Ticks \X Of(group, LiveKind), what) > p99)
      BY <3>2 DEF Exceeds
    <3>5. Here \in SUBSET All
      BY <1>2
    <3>6. IsFiniteSet(Here)
      BY <1>7, FS_Subset
    <3> HIDE DEF Here, f, All, Ticks
    <3>7. CountIn(Here, what) = Sum(f, Here) /\ Sum(f, Here) \in Nat
      BY <1>3, <1>4, <3>5, <3>6, SumFacts
    <3>8. ~(CountIn(Here, what) > p99)
      BY <3>3, <3>4, Zenon
    <3>9. Sum(f, Here) <= p99
      BY <3>7, <3>8
    <3> QED
      BY <3>9 DEF Here
  <2> QED
    BY <2>1, <2>2
<1>10. Sum(f, Mine) <= p99 * Parts
  <2> HIDE DEF f, Mine, part, P, All
  <2>1. \A cell \in Mine : f[cell] \in Nat
    BY <1>2, <1>3
  <2>2. Sum(f, Mine) <= p99 * Cardinality(P)
    BY <1>6, <1>7, <1>8, <1>9, <2>1, SumOfParts
  <2> QED
    BY <1>6, <2>2
<1>11. Sum(f, Age \X Counting(group)) <= Sum(f, Mine)
  <2> HIDE DEF f, All
  <2>1. \A cell \in Mine : f[cell] \in Nat
    BY <1>2, <1>3
  <2> HIDE DEF Mine
  <2> QED
    BY <1>2, <1>7, <2>1, SumOfPart
<1>12. Count(Counting(group), what) = Sum(f, Age \X Counting(group))
  BY <1>2, <1>4 DEF Count
<1>13. Sum(f, Mine) \in Nat /\ Sum(f, Age \X Counting(group)) \in Nat
  <2> DEFINE C == Age \X Counting(group)
  <2> HIDE DEF f, All, C
  <2>1. IsFiniteSet(C) /\ \A cell \in C : f[cell] \in Nat
    BY <1>2, <1>3, FS_Subset DEF C
  <2>2. \A cell \in Mine : f[cell] \in Nat
    BY <1>2, <1>3
  <2> HIDE DEF Mine
  <2>3. Sum(f, Mine) \in Nat
    BY <1>7, <2>2, SumFacts
  <2>4. Sum(f, C) \in Nat
    BY <2>1, SumFacts
  <2> QED
    BY <2>3, <2>4 DEF C
<1>14. p99 * Parts < EffectiveThreshold(p99, floor) /\ EffectiveThreshold(p99, floor) \in Nat
  BY <1>5, ThresholdOutweighs, ThresholdIs
<1>15. p99 * Parts \in Nat
  BY <1>5
<1> DEFINE total == Sum(f, Age \X Counting(group))
           mine == Sum(f, Mine)
           most == p99 * Parts
<1>16. /\ total \in Nat /\ mine \in Nat /\ most \in Nat
       /\ total <= mine /\ mine <= most /\ most < EffectiveThreshold(p99, floor)
       /\ total >= EffectiveThreshold(p99, floor)
  BY <1>10, <1>11, <1>12, <1>13, <1>14, <1>15
<1> HIDE DEF total, mine, most
<1> QED
  BY <1>14, <1>16

(* A group whose traffic stays, minute by minute, within its percentile     *)
(* never qualifies, for any baseline, any window and any minute, if the     *)
(* multiplier outweighs the minutes that a window may touch: one of the     *)
(* length of a minute needs a multiplier of 3 (effectiveThreshold).         *)
THEOREM QuietStaysQuietAlways ==
  ASSUME Outweighs
  PROVE  QualificationSpec => QuietStaysQuiet
<1>1. Typed /\ [QualificationNext]_vars =>
        [phase = "live" /\ offset' # offset =>
           \A group \in qualified' :
             /\ Exceeds(group, baseline.requests[group], "requests")
             /\ group \notin Volume =>
                  Exceeds(group, baseline.upstream[group], "upstream")]_vars
  <2> SUFFICES ASSUME Typed, [QualificationNext]_vars, offset' # offset,
                      NEW group \in qualified'
               PROVE  /\ Exceeds(group, baseline.requests[group], "requests")
                      /\ group \notin Volume =>
                           Exceeds(group, baseline.upstream[group], "upstream")
    OBVIOUS
  <2>1. Evaluate
    BY DEF QualificationNext, vars, RecordPast, BuildBaseline, StartLive,
       Observe, ObserveRefused, ObserveError
  <2>2. group \in Group /\ Qualifies(group)
    BY <2>1 DEF Evaluate
  <2>3. /\ baseline.requests[group] \in Nat /\ baseline.upstream[group] \in Nat
        /\ Detection.volumeRequests \in Nat \ {0} /\ Detection.shapeRequests \in Nat \ {0}
        /\ Detection.shapeUpstream \in Nat \ {0}
    BY <2>2, DetectionAssumption DEF Typed
  <2>4. \E floor \in Nat \ {0} :
          Count(Counting(group), "requests") >=
            EffectiveThreshold(baseline.requests[group], floor)
    <3>1. CASE group \in Volume
      BY <2>2, <2>3, <3>1 DEF Qualifies, VolumeQualifies, VolumeThreshold, RequestsOf
    <3>2. CASE group \notin Volume
      BY <2>2, <2>3, <3>2 DEF Qualifies, ShapeQualifies, ShapeThreshold, RequestsOf
    <3> QED
      BY <3>1, <3>2
  <2>5. Exceeds(group, baseline.requests[group], "requests")
    BY <2>3, <2>4, ReachingExceeds
  <2>6. ASSUME group \notin Volume
        PROVE  Exceeds(group, baseline.upstream[group], "upstream")
    <3>1. Count(Counting(group), "upstream") >=
            EffectiveThreshold(baseline.upstream[group], Detection.shapeUpstream)
      BY <2>2, <2>6 DEF Qualifies, ShapeQualifies, UpstreamThreshold, UpstreamOf
    <3> QED
      BY <2>3, <3>1, ReachingExceeds
  <2> QED
    BY <2>5, <2>6
<1> QED
  BY <1>1, TypedAlways, PTL DEF QualificationSpec, QuietStaysQuiet
=============================================================================
