---------------------------- MODULE SensorHealth ----------------------------
(***************************************************************************)
(* The health of the log sensor in the detector: a ring of the last lines  *)
(* with a running count of those whose structure was wrong.  The code has  *)
(* a ring of 100 and tolerates 10 (SensorSuspended).                       *)
(***************************************************************************)
EXTENDS Naturals, FiniteSets

CONSTANTS
  Size,      \* len(Detector.health)
  Tolerated  \* structure errors that do not suspend detection

ASSUME SizeAssumption == Size \in Nat \ {0} /\ Tolerated \in Nat

VARIABLES
  health,          \* TRUE where the line had a wrong structure
  healthCount,     \* slots in use
  healthIndex,     \* the slot written next
  structureErrors  \* how many slots are TRUE

sensor == <<health, healthCount, healthIndex, structureErrors>>

Slot == 0 .. Size - 1

HealthTypeOK ==
  /\ health \in [Slot -> BOOLEAN]
  /\ healthCount \in 0 .. Size
  /\ healthIndex \in Slot
  /\ structureErrors \in 0 .. Size

HealthInit ==
  /\ health = [slot \in Slot |-> FALSE]
  /\ healthCount = 0
  /\ healthIndex = 0
  /\ structureErrors = 0

(* Fault: the count forgets to give back the line that is overwritten. *)
ErrorsKeptAfter(wrong) == structureErrors + (IF wrong THEN 1 ELSE 0)

(* The line that is overwritten, if it was a wrong one, is given back. *)
ErrorsAfter(wrong) ==
  (IF healthCount = Size /\ health[healthIndex]
   THEN structureErrors - 1 ELSE structureErrors)
    + (IF wrong THEN 1 ELSE 0)

(* Fault: the ring starts over one slot too early. *)
ShortNextIndex == IF healthIndex + 2 >= Size THEN 0 ELSE healthIndex + 1

NextIndex == IF healthIndex + 1 = Size THEN 0 ELSE healthIndex + 1

RecordHealth(wrong) ==
  /\ structureErrors' = ErrorsAfter(wrong)
  /\ healthCount' = IF healthCount = Size THEN Size ELSE healthCount + 1
  /\ health' = [health EXCEPT ![healthIndex] = wrong]
  /\ healthIndex' = NextIndex

(* Any record that parses, however late or early it is, is a healthy line. *)
HealthyLine == RecordHealth(FALSE)

(* A line that does not parse: an empty one says nothing about the sensor,  *)
(* one with a wrong structure counts against it, one with wrong content     *)
(* does not.                                                                *)
UnparsedLine ==
  \E wrong, nonEmpty \in BOOLEAN :
    IF nonEmpty THEN RecordHealth(wrong) ELSE UNCHANGED sensor

HealthNext == HealthyLine \/ UnparsedLine

HealthSpec == HealthInit /\ [][HealthNext]_sensor

SensorSuspended == healthCount = Size /\ structureErrors > Tolerated

-----------------------------------------------------------------------------
(* The running count is the number of wrong lines in the ring, through any  *)
(* number of laps (recordHealth).                                           *)
ErrorsCounted ==
  structureErrors = Cardinality({slot \in Slot : health[slot]})

(* The ring, read from its oldest line on. *)
Recent ==
  [i \in 1 .. healthCount |->
     health[IF healthCount = Size THEN (healthIndex + i - 1) % Size ELSE i - 1]]

Sliding == INSTANCE SlidingHealth WITH recent <- Recent

(* The ring remembers the last lines in their order, and nothing else, with *)
(* no gap and no line twice when it starts over (recordHealth).             *)
ImplementsSliding == Sliding!Spec
=============================================================================
