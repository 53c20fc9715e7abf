------------------------------ MODULE RuleBook ------------------------------
(***************************************************************************)
(* The temporary rules of the detector and what it believes Nginx enforces:*)
(* consecutive qualifications, activation up to a capacity, the sliding    *)
(* lifetime, and the decision to apply now or to coalesce (Evaluate,       *)
(* evaluateGroups, updateRules, MarkApplied).                              *)
(*                                                                         *)
(* Which groups qualify, and which rules see enough attempts, is up to the *)
(* rolling window: here any outcome is allowed, and module Detector joins  *)
(* the two.                                                                *)
(* Applying a decision, which handleProtectionDecision does before the     *)
(* next evaluation, belongs to the step: it succeeds or fails.             *)
(***************************************************************************)
EXTENDS DetectorConfig

Time == 0 .. Horizon

VARIABLES
  now,          \* the last evaluation, or the start of the watcher
  rules,        \* Detector.state.Rules
  consecutive,  \* trackedGroup.consecutive, up to Required
  applied,      \* Detector.appliedRules
  lastApplied,  \* Detector.lastAppliedUS
  refused,      \* history: the last evaluation had an apply that failed
  evaluations,  \* history: how many evaluations there were
  calm          \* history: the last one at which each claim did not qualify

vars == <<now, rules, consecutive, applied, lastApplied, refused, evaluations,
          calm>>

Active == {key \in Key : rules[key] # NoRule}

TypeOK ==
  /\ now \in Nat
  /\ rules \in [Key -> Rule \cup {NoRule}]
  /\ consecutive \in [Claim -> 0 .. Required]
  /\ applied \in SUBSET Key
  /\ lastApplied \in Nat
  /\ refused \in BOOLEAN
  /\ evaluations \in Nat
  /\ calm \in [Claim -> Nat]

(* The action a claim proposes. *)
KeyOf(claim) == claim[2]

(* The rules a new watcher may find in the state file (State.Validate) and  *)
(* keep.                                                                    *)
Inheritable ==
  {rule \in [first : 0 .. now, last : 0 .. now, expires : now + 1 .. now + TTL] :
     rule.first <= rule.last /\ rule.expires = rule.last + TTL}

(* A live watcher starts with an apply of what it inherits; a dry run       *)
(* inherits nothing and has applied nothing.                                *)
Init ==
  /\ now \in 1 .. Interval
  /\ rules \in [Key -> Inheritable \cup {NoRule}]
  /\ Cardinality(Active) <= MaxRules
  /\ applied = Active
  /\ lastApplied = now \/ (lastApplied = 0 /\ Active = {})
  /\ refused = FALSE
  /\ consecutive = [claim \in Claim |-> 0]
  /\ evaluations = 0
  /\ calm = [claim \in Claim |-> 0]

-----------------------------------------------------------------------------
(* evaluateGroups *)

(* Fault: a suspended evaluation is passed over instead of starting again. *)
StreakAcrossSuspension(qualified, allowed) ==
  [claim \in Claim |->
     IF ~allowed THEN consecutive[claim]
     ELSE IF claim \notin qualified THEN 0
     ELSE IF consecutive[claim] < Required THEN consecutive[claim] + 1
     ELSE Required]

(* A group that does not qualify, or is gone from the window, and every     *)
(* group of a suspended evaluation, starts again.  While a group is tracked *)
(* its claim stays the same.                                                *)
StreakAfter(qualified, allowed) ==
  [claim \in Claim |->
     IF ~allowed \/ claim \notin qualified THEN 0
     ELSE IF consecutive[claim] < Required THEN consecutive[claim] + 1
     ELSE Required]

(* makeProposals *)
Proposed(streak) ==
  {KeyOf(claim) : claim \in {c \in Claim : streak[c] = Required}}

-----------------------------------------------------------------------------
(* updateRules *)

(* Fault: the capacity is compared before the rule is added. *)
AdmittedBeyond(proposed) ==
  {new \in SUBSET (proposed \ Active) :
     new = proposed \ Active /\ Cardinality(Active) <= MaxRules}

(* New rules are taken while there is room; a rule that expires at this     *)
(* very evaluation still takes its place.  Which ones are left out follows  *)
(* from the order of the keys, which is left open.                          *)
Admitted(proposed) ==
  {new \in SUBSET (proposed \ Active) :
     /\ Cardinality(Active) + Cardinality(new) <= MaxRules \/ new = {}
     /\ new = proposed \ Active \/ Cardinality(Active) + Cardinality(new) >= MaxRules}

(* Attempts against an applied rule keep it, unless detection is suspended. *)
Refreshed(proposed, attempted, allowed) ==
  (proposed \cup (IF allowed THEN attempted ELSE {})) \cap Active

NewRule(time) == [first |-> time, last |-> time, expires |-> time + TTL]

(* Fault: a refresh lets the first lifetime run on. *)
RefreshWithoutExtension(rule, time) == [rule EXCEPT !.last = time]

RefreshedRule(rule, time) == [rule EXCEPT !.last = time, !.expires = time + TTL]

(* Fault: the rules that are not refreshed are dropped. *)
DroppedUnlessRefreshed(rule, time) == NoRule

(* A rule that is not refreshed stays until its time is over. *)
KeptUntilExpiry(rule, time) ==
  IF rule # NoRule /\ rule.expires <= time THEN NoRule ELSE rule

UpdatedRules(time, new, refreshed) ==
  [key \in Key |->
     IF key \in new THEN NewRule(time)
     ELSE IF key \in refreshed THEN RefreshedRule(rules[key], time)
     ELSE KeptUntilExpiry(rules[key], time)]

-----------------------------------------------------------------------------
(* Decision.ApplyNow and MarkApplied *)

RulesEqual(desired) == applied = desired
RuleRemoved(desired) == applied \ desired # {}

(* Fault: every change waits for the reload interval. *)
ApplyAfterInterval(time, desired) ==
  ~RulesEqual(desired) /\ time >= lastApplied + MinReload

(* A removal or a first activation does not wait, another change waits for  *)
(* the reload interval since the last successful apply.                     *)
ApplyNow(time, desired) ==
  /\ ~RulesEqual(desired)
  /\ \/ RuleRemoved(desired)
     \/ applied = {}
     \/ lastApplied = 0
     \/ time >= lastApplied + MinReload

MarkApplied(time, desired) ==
  /\ applied' = desired
  /\ lastApplied' = time
  /\ refused' = FALSE

(* Nothing is remembered of an apply that fails.                            *)
ApplyFailed ==
  /\ refused' = TRUE
  /\ UNCHANGED <<applied, lastApplied>>

(* An evaluation at which these groups qualify and these rules have seen    *)
(* enough attempts, suspended or not.                                       *)
EvaluateWith(time, qualified, attempted, allowed) ==
  /\ time > now
  /\ time % Interval = 0
  /\ consecutive' = StreakAfter(qualified, allowed)
  /\ calm' = [claim \in Claim |->
                IF allowed /\ claim \in qualified THEN calm[claim]
                                                  ELSE evaluations + 1]
  /\ \E new \in Admitted(Proposed(consecutive')) :
       rules' = UpdatedRules(time, new,
                  Refreshed(Proposed(consecutive'), attempted, allowed))
  /\ LET desired == {key \in Key : rules'[key] # NoRule} IN
       IF ApplyNow(time, desired)
       THEN MarkApplied(time, desired) \/ ApplyFailed
       ELSE refused' = FALSE /\ UNCHANGED <<applied, lastApplied>>
  /\ now' = time
  /\ evaluations' = evaluations + 1

Evaluate(time) ==
  \E qualified \in SUBSET Claim, attempted \in SUBSET Key, allowed \in BOOLEAN :
    EvaluateWith(time, qualified, attempted, allowed)

(* The watcher ends and another one starts, later: it inherits the rules    *)
(* of the state file that are not over, or none after a clear or with       *)
(* another baseline, and has them applied before it goes on.  An evaluation *)
(* takes effect when its state is written: one whose write fails, or that a *)
(* death cuts off before, ends the watcher and is none of the steps above.  *)
Restart(time) ==
  /\ time >= now
  /\ \E kept \in {{}, {key \in Active : rules[key].expires > time}} :
       /\ rules' = [key \in Key |-> IF key \in kept THEN rules[key] ELSE NoRule]
       /\ applied' = kept
  /\ lastApplied' = time
  /\ refused' = FALSE
  /\ now' = time
  /\ consecutive' = [claim \in Claim |-> 0]
  /\ calm' = [claim \in Claim |-> evaluations]
  /\ UNCHANGED evaluations

Next == \E time \in Time : Evaluate(time) \/ Restart(time)

Spec == Init /\ [][Next]_vars

-----------------------------------------------------------------------------
(* The lifetime slides: every rule ends one TTL after its last              *)
(* qualification, no rule outlives the evaluation at which it is over, and  *)
(* the times are in the order State.Validate demands (updateRules).         *)
SlidingLifetime ==
  \A key \in Active :
    /\ rules[key].first <= rules[key].last
    /\ rules[key].last <= now
    /\ rules[key].expires = rules[key].last + TTL
    /\ rules[key].expires > now

(* Never more rules than configured, whatever qualifies, expires and is     *)
(* inherited (updateRules, NewDetector).                                    *)
WithinCapacity == Cardinality(Active) <= MaxRules

(* Unless the last evaluation had an apply that failed, Nginx enforces no   *)
(* rule the detector has dropped, and a new rule waits less than the reload *)
(* interval for its apply, counted from its own activation.  So a change    *)
(* that is due is applied, and after a failure asked for again at the next  *)
(* evaluation, though no rule changes any more (ApplyNow, coalescing).      *)
ApplyIsPrompt ==
  ~refused =>
    /\ applied \subseteq Active
    /\ \A key \in Active \ applied : now < rules[key].first + MinReload

(* A rule is dropped when its time is over and not before, except by a      *)
(* watcher that starts with no rules (updateRules at its capacity).         *)
OnlyExpiryDrops ==
  [][\A key \in Active :
       rules'[key] = NoRule =>
         \/ rules[key].expires <= now'
         \/ evaluations' = evaluations /\ Active' = {}]_vars

(* A new rule takes Required evaluations in a row, none of them suspended,  *)
(* at each of which one and the same group qualified for it                 *)
(* (evaluateGroups).                                                        *)
ActivationTakesAStreak ==
  [][\A key \in Key :
       rules[key] = NoRule /\ rules'[key] # NoRule =>
         \E claim \in Claim :
           KeyOf(claim) = key /\ evaluations' >= calm'[claim] + Required]_vars
=============================================================================
