------------------------------- MODULE Detector -------------------------------
(***************************************************************************)
(* The detector as a whole: the rolling window decides which groups        *)
(* qualify and which rules are still attempted, the rule book turns that   *)
(* into rules, and the rules that are applied decide which records the     *)
(* window counts as attempts (Detector.Observe, Evaluate, MarkApplied).    *)
(*                                                                         *)
(* Thresholds come from the baseline; here one of them serves all groups   *)
(* and rules.  What a shape group costs upstream is left open.             *)
(***************************************************************************)
EXTENDS RollingWindow

CONSTANTS
  Threshold,   \* requests it takes, in a group or against a rule
  MinShare     \* volume_min_site_share_ppm, in percent

VARIABLES now, rules, consecutive, lastApplied, refused, evaluations, calm

bookVars == <<now, rules, consecutive, lastApplied, refused, evaluations, calm>>
detectorVars == <<vars, bookVars>>

Book == INSTANCE RuleBook WITH applied <- appliedRules

ASSUME ThresholdAssumption == Threshold \in Nat \ {0} /\ MinShare \in Nat

(* A group proposes an action on the prefix of one of its records. *)
ASSUME ClaimAssumption ==
  \A kind \in Kind : {kind.volume, kind.shape} \X {kind.volume} \subseteq Claim

Shape == Group \ Key

DetectorTypeOK == TypeOK /\ Book!TypeOK

DetectorInit == clock = 1 /\ now = clock /\ Book!Init /\ Init

-----------------------------------------------------------------------------
(* groupQualified *)

RequestsOf(group) == WindowSum(groupBuckets[group])

Above == {group \in tracked \ unsafe : RequestsOf(group) >= Threshold}

(* ratioAtLeast: a volume group takes its share of the site. *)
ShareReached(group) ==
  RequestsOf(group) * 100 >= WindowSum(siteBuckets) * MinShare

(* A shape group is above, and costs enough, or not.                        *)
Qualified(costly) ==
  {<<group, volumeOf[group]>> :
     group \in costly \cup {group \in Above \ Shape : ShareReached(group)}}

StillAttempted == {key \in Key : WindowSum(attemptBuckets[key]) >= Threshold}

-----------------------------------------------------------------------------
(* The evaluation prunes first, so that what is compared are the sums of    *)
(* its window.  It is suspended without a record since the last one, and    *)
(* while the sensor is unhealthy (activationAllowed, module SlidingHealth). *)
DetectorEvaluate ==
  /\ clock >= due
  /\ \E costly \in SUBSET (Above \cap Shape), allowed \in {fresh, FALSE} :
       Book!EvaluateWith(due, Qualified(costly), StillAttempted, allowed)
  /\ \E finished \in Time : Evaluate(finished, appliedRules')

(* As in RuleBook, the watcher that ended has written the state of its last *)
(* evaluation.                                                              *)
DetectorRestart(start) ==
  /\ start \in clock .. clock + Delay
  /\ Book!Restart(start)
  /\ StartAgain(start, appliedRules')

DetectorObserve ==
  /\ \E id \in RecordId, kind \in Kind, ts \in Time : Observe(id, kind, ts)
  /\ UNCHANGED bookVars

DetectorNext ==
  \/ \E start \in Time : DetectorRestart(start)
  \/ DetectorEvaluate
  \/ DetectorObserve
  \/ Tick /\ UNCHANGED bookVars

DetectorSpec == DetectorInit /\ [][DetectorNext]_detectorVars

-----------------------------------------------------------------------------
(* The lifetime slides: every rule ends one TTL after its last              *)
(* qualification, and no rule outlives the evaluation at which it is over   *)
(* (updateRules).                                                           *)
SlidingLifetime == Book!SlidingLifetime

(* Never more rules than configured, whatever qualifies, expires and is     *)
(* inherited (updateRules, NewDetector).                                    *)
WithinCapacity == Book!WithinCapacity

(* Unless the last evaluation had an apply that failed, Nginx enforces no   *)
(* rule the detector has dropped, and a new rule waits less than the reload *)
(* interval for its apply; after a failure the next evaluation asks again   *)
(* (ApplyNow, coalescing).                                                  *)
ApplyIsPrompt == Book!ApplyIsPrompt

(* A rule is dropped when its time is over and not before, except by a      *)
(* watcher that starts with no rules (updateRules at its capacity).         *)
OnlyExpiryDrops == Book!OnlyExpiryDrops

(* A new rule takes Required evaluations in a row, none of them suspended,  *)
(* at each of which one and the same group qualified for it                 *)
(* (evaluateGroups).                                                        *)
ActivationTakesAStreak == Book!ActivationTakesAStreak

Seen == {record \in observed : InScope(record)}

(* A rule is activated or extended only on evidence of the last window,     *)
(* record by record: enough requests under its own prefix that no limiter   *)
(* rejected and the site did not refuse, or, for a rule that was there,     *)
(* enough attempts against it while it was applied.  Counting in intervals, *)
(* late and skipped evaluations, groups that come and go, and shapes seen   *)
(* under several prefixes bring in nothing else (Observe, prune,            *)
(* evaluateGroups, updateRules).                                            *)
RulesHaveEvidence ==
  [][\A key \in Key :
       rules'[key] \notin {NoRule, rules[key]} =>
         \/ Cardinality({record \in Seen : /\ Candidate(record.kind)
                                          /\ record.kind.volume = key}) >= Threshold
         \/ /\ rules[key] # NoRule
            /\ Cardinality({record \in Seen : key \in record.rules}) >= Threshold
    ]_detectorVars
=============================================================================
