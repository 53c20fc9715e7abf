--------------------------- MODULE RollingWindow ---------------------------
(***************************************************************************)
(* The rolling window of the detector: records of the protection log are   *)
(* accounted in buckets of one evaluation interval, per site, per tracked  *)
(* group and per enforced rule, and an evaluation prunes what has left the *)
(* window (Observe, registerGroup, addGroupObservation, observeRefresh,    *)
(* prune).  The loop of the watcher decides when evaluations come: it      *)
(* reads records and serves the timer in any order, and an evaluation may  *)
(* take so long that the next ones are skipped (runProtectionLoop).        *)
(*                                                                         *)
(* What the sums are compared with, and so which groups qualify, is left   *)
(* to module RuleBook.  Time is counted in ticks shorter than an interval. *)
(***************************************************************************)
EXTENDS DetectorConfig, FiniteSetsExt

CONSTANTS
  Kind,        \* kinds of log records
  NoGroup,     \* the volume of a group that is not tracked
  RecordId,    \* bound: as many records may still count at a time
  Delay        \* bound: how long an evaluation or a restart may take

(* A record says what Nginx answered, how the dynamic zone decided, whether *)
(* its path may be acted on, and the groups it falls under.                 *)
ASSUME KindAssumption ==
  Kind \subseteq
    [denied : BOOLEAN,   \* status 403 or 429
     limiter : {"passed", "dry_run", "rejected"},
     safe : BOOLEAN,     \* candidateSafe
     volume : Key,
     shape : Group \ Key]

ASSUME BoundAssumption ==
  /\ IsFiniteSet(RecordId)
  /\ Delay \in Nat
  /\ NoGroup \notin Group

Time == 1 .. Horizon
Bucket == {Interval * n : n \in 1 .. Horizon \div Interval + 1}

VARIABLES
  clock,           \* the time of receipt
  due,             \* the evaluation the timer is set to
  evaluated,       \* Detector.lastEvaluationUS
  siteBuckets,     \* Detector.siteBuckets, 0 for an absent one
  groupBuckets,    \* trackedGroup.buckets, their requests
  volumeOf,        \* trackedGroup.pathPrefix
  unsafe,          \* trackedGroup.unsafe
  attemptBuckets,  \* Detector.attemptBuckets
  appliedRules,    \* Detector.appliedRules
  fresh,           \* Detector.freshSinceEvaluation
  overflowed,      \* Detector.capacitySinceEvaluation
  observed         \* history: the records that may still count

vars == <<clock, due, evaluated, siteBuckets, groupBuckets, volumeOf, unsafe,
          attemptBuckets, appliedRules, fresh, overflowed, observed>>

buckets == <<siteBuckets, groupBuckets, volumeOf, unsafe, attemptBuckets>>

NoCount == [bucket \in Bucket |-> 0]
tracked == {group \in Group : volumeOf[group] # NoGroup}

TypeOK ==
  /\ clock \in Time
  /\ {due, evaluated} \subseteq Bucket \cup {0}
  /\ siteBuckets \in [Bucket -> Nat]
  /\ groupBuckets \in [Group -> [Bucket -> Nat]]
  /\ volumeOf \in [Group -> Group \cup {NoGroup}]
  /\ unsafe \subseteq tracked
  /\ attemptBuckets \in [Group -> [Bucket -> Nat]]
  /\ appliedRules \subseteq Key
  /\ {fresh, overflowed} \subseteq BOOLEAN
  /\ observed \subseteq [id : RecordId, ts : Time, kind : Kind,
                         due : Bucket, groups : SUBSET Group,
                         rules : SUBSET Group]

(* The first evaluation after a time.  For the code, multiples are those    *)
(* since year 1 (time.Truncate), while Evaluate refuses all but those since *)
(* the epoch: here, as for the intervals that divide the time between, they *)
(* are the same.                                                            *)
NextDue(time) == (time \div Interval + 1) * Interval

Init ==
  /\ clock = 1
  /\ due = NextDue(clock)
  /\ evaluated = 0
  /\ siteBuckets = NoCount
  /\ groupBuckets = [group \in Group |-> NoCount]
  /\ volumeOf = [group \in Group |-> NoGroup]
  /\ unsafe = {}
  /\ attemptBuckets = [group \in Group |-> NoCount]
  /\ appliedRules \subseteq Key
  /\ fresh = FALSE
  /\ overflowed = FALSE
  /\ observed = {}

-----------------------------------------------------------------------------
(* ClassifyAccounting *)

(* A record the dynamic zone rejected counts for its rule only. *)
Denominator(kind) == kind.limiter # "rejected"

Candidate(kind) == kind.limiter # "rejected" /\ ~kind.denied

(* Attempts are the rejected ones and those the limiter let through, not    *)
(* the ones of a dry run.                                                   *)
Refresh(kind) ==
  \/ kind.limiter = "rejected" /\ kind.denied
  \/ kind.limiter = "passed" /\ ~kind.denied

(* Fault: a record at the very end of an interval falls into the next one. *)
BucketAfter(ts) == (ts \div Interval + 1) * Interval

BucketEnd(ts) == ((ts - 1) \div Interval + 1) * Interval

Stale(ts) == clock - ts > MaxLag \/ clock - ts >= Window

-----------------------------------------------------------------------------
(* Observe *)

Counted(count, bucket) == [count EXCEPT ![bucket] = @ + 1]

(* registerGroup, for the volume group first.  A group that does not fit is *)
(* not counted.                                                             *)
Registered(kind) ==
  LET volume == {group \in {kind.volume} :
                   group \in tracked \/ Cardinality(tracked) < MaxTracked}
      shape == {group \in {kind.shape} :
                  \/ group \in tracked
                  \/ Cardinality(tracked \cup volume) < MaxTracked}
  IN  volume \cup shape

(* Fault: the prefixes of a shape are not compared. *)
MixedNever(kind, groups) == {}

(* A shape that is seen under two prefixes is never acted on. *)
Mixed(kind, groups) ==
  {group \in groups \cap {kind.shape} :
     group \in tracked /\ volumeOf[group] # kind.volume}

ObserveCandidate(kind, bucket, groups) ==
  /\ groupBuckets' = [group \in Group |->
                        IF group \in groups
                        THEN Counted(groupBuckets[group], bucket)
                        ELSE groupBuckets[group]]
  /\ volumeOf' = [group \in Group |->
                    IF group \in groups \ tracked THEN kind.volume
                                                  ELSE volumeOf[group]]
  /\ unsafe' = unsafe \cup Mixed(kind, groups)
  /\ overflowed' = (overflowed \/ groups # {kind.volume, kind.shape})

(* The rules a record is an attempt against. *)
Attempted(kind) ==
  IF Refresh(kind) THEN appliedRules \cap {kind.volume} ELSE {}

Observe(id, kind, ts) ==
  /\ id \notin {record.id : record \in observed}
  /\ ts <= clock
  /\ ~Stale(ts)
  /\ LET bucket == BucketEnd(ts)
         candidate == Candidate(kind) /\ kind.safe
         groups == IF candidate THEN Registered(kind) ELSE {}
     IN  /\ siteBuckets' = IF Denominator(kind) THEN Counted(siteBuckets, bucket)
                                                ELSE siteBuckets
         /\ attemptBuckets' = [group \in Group |->
                                 IF group \in Attempted(kind)
                                 THEN Counted(attemptBuckets[group], bucket)
                                 ELSE attemptBuckets[group]]
         /\ IF candidate THEN ObserveCandidate(kind, bucket, groups)
            ELSE UNCHANGED <<groupBuckets, volumeOf, unsafe, overflowed>>
         /\ observed' = observed \cup
              {[id |-> id, ts |-> ts, kind |-> kind, due |-> due,
                groups |-> groups, rules |-> Attempted(kind)]}
  /\ fresh' = TRUE
  /\ UNCHANGED <<clock, due, evaluated, appliedRules>>

-----------------------------------------------------------------------------
(* Evaluate *)

(* Fault: the bucket that ends with the window is kept. *)
InWindowKeepingCutoff(bucket, evaluation) ==
  bucket + Window >= evaluation /\ bucket <= evaluation

(* Not only what is older than the window is dropped, but also what is      *)
(* younger than the evaluation.                                             *)
InWindow(bucket, evaluation) ==
  bucket + Window > evaluation /\ bucket <= evaluation

Pruned(count, evaluation) ==
  [bucket \in Bucket |-> IF InWindow(bucket, evaluation) THEN count[bucket] ELSE 0]

(* The groups with a bucket left. *)
Remaining(evaluation) ==
  {group \in tracked : Pruned(groupBuckets[group], evaluation) # NoCount}

Prune(evaluation) ==
  /\ siteBuckets' = Pruned(siteBuckets, evaluation)
  /\ groupBuckets' = [group \in Group |-> Pruned(groupBuckets[group], evaluation)]
  /\ volumeOf' = [group \in Group |->
                    IF group \in Remaining(evaluation) THEN volumeOf[group]
                                                       ELSE NoGroup]
  /\ unsafe' = unsafe \cap Remaining(evaluation)
  /\ attemptBuckets' = [group \in Group |->
                          Pruned(attemptBuckets[group], evaluation)]

(* The timer is served some time after the evaluation was due, and applying *)
(* the decision takes a while, in which no record is read.  Whichever rules *)
(* are applied then (MarkApplied), the next evaluation lies in the future.  *)
Evaluate(finished, applied) ==
  /\ clock >= due
  /\ finished >= clock
  /\ finished <= clock + Delay
  /\ Prune(due)
  /\ evaluated' = due
  /\ clock' = finished
  /\ due' = NextDue(finished)
  /\ appliedRules' = applied
  /\ fresh' = FALSE
  /\ overflowed' = FALSE
  /\ observed' = {record \in observed : record.ts + Window > due}

(* The watcher ends and another one starts, later: the window is in memory  *)
(* only, and the next evaluation lies in the future again.                  *)
StartAgain(start, applied) ==
  /\ start >= clock
  /\ start <= clock + Delay
  /\ clock' = start
  /\ due' = NextDue(start)
  /\ evaluated' = 0
  /\ siteBuckets' = NoCount
  /\ groupBuckets' = [group \in Group |-> NoCount]
  /\ volumeOf' = [group \in Group |-> NoGroup]
  /\ unsafe' = {}
  /\ attemptBuckets' = [group \in Group |-> NoCount]
  /\ appliedRules' = applied
  /\ fresh' = FALSE
  /\ overflowed' = FALSE
  /\ observed' = {}

Tick ==
  /\ clock < Horizon
  /\ clock < due + Delay
  /\ clock' = clock + 1
  /\ UNCHANGED <<due, evaluated, buckets, appliedRules, fresh, overflowed,
                 observed>>

Next ==
  \/ \E id \in RecordId, kind \in Kind, ts \in Time : Observe(id, kind, ts)
  \/ \E finished \in Time, applied \in SUBSET Key :
       Evaluate(finished, applied) \/ StartAgain(finished, applied)
  \/ Tick

Spec == Init /\ [][Next]_vars

-----------------------------------------------------------------------------
(* What the next evaluation is going to see *)

WindowSum(count) ==
  MapThenSumSet(LAMBDA bucket : count[bucket],
                {bucket \in Bucket : InWindow(bucket, due)})

(* The records of the window that ends at the next evaluation, but not the  *)
(* ones that were read after an earlier evaluation was due and before it    *)
(* was served, and are younger than it: its prune drops them.               *)
InScope(record) ==
  /\ record.ts + Window > due
  /\ record.ts <= due
  /\ record.ts <= record.due

(* The total of the site is the number of records in the window that count, *)
(* tick by tick, although it is kept in whole intervals and pruned at       *)
(* evaluations only, some of which are skipped (bucketEnd, prune).  So is   *)
(* the total of every group, since it is tracked: a group that is forgotten *)
(* to make room has no record left in the window.  And so are the attempts  *)
(* against a rule while it was applied.                                     *)
WindowExact ==
  LET Records(condition(_)) ==
        Cardinality({record \in observed : InScope(record) /\ condition(record)})
  IN  /\ WindowSum(siteBuckets) = Records(LAMBDA record : Denominator(record.kind))
      /\ \A group \in Group :
           /\ WindowSum(groupBuckets[group]) =
                Records(LAMBDA record : group \in record.groups)
           /\ WindowSum(attemptBuckets[group]) =
                Records(LAMBDA record : group \in record.rules)

(* A tracked group that may be acted on has, in the window, requests under  *)
(* its own prefix only: an action on the prefix is an action on the group.  *)
ActionFitsGroup ==
  \A group \in tracked \ unsafe :
    \A record \in observed :
      InScope(record) /\ group \in record.groups =>
        record.kind.volume = volumeOf[group]

(* The memory limit on groups holds, a candidate that is not counted in     *)
(* both its groups is reported by the next evaluation, and that evaluation  *)
(* may activate rules if a timely record came in since the last one         *)
(* (registerGroup, activationAllowed).                                      *)
LimitReported ==
  /\ Cardinality(tracked) <= MaxTracked
  /\ LET recent == {record \in observed : record.due = due} IN
       /\ \A record \in recent :
            Candidate(record.kind) /\ record.kind.safe =>
              overflowed \/ record.groups = {record.kind.volume, record.kind.shape}
       /\ fresh <=> recent # {}

=============================================================================
