---------------------------- MODULE RuleBookProofs ----------------------------
(***************************************************************************)
(* Proofs about RuleBook for any actions, groups, capacity and intervals.  *)
(*                                                                         *)
(* ApplyIsPrompt is not inductive: it needs that a rule Nginx does not     *)
(* have yet was activated after the last successful apply (Pending).       *)
(* ActivationTakesAStreak needs that a group's streak is no longer than    *)
(* the evaluations since it last failed to qualify (Streak).               *)
(***************************************************************************)
EXTENDS RuleBook, FiniteSetTheorems, TLAPS

(* What the assumptions on the settings say. *)
USE DEF ValidDetection, ValidAction

(* A rule that waits for its apply is younger than the last one. *)
Pending ==
  /\ lastApplied <= now
  /\ \A key \in Active \ applied : lastApplied <= rules[key].first

Streak == \A claim \in Claim : calm[claim] + consecutive[claim] <= evaluations

Inductive ==
  /\ TypeOK
  /\ SlidingLifetime
  /\ WithinCapacity
  /\ Pending
  /\ ApplyIsPrompt
  /\ Streak

-----------------------------------------------------------------------------
(* Helpers *)

(* There are finitely many actions, as each of them is a group. *)
LEMMA KeyFinite == IsFiniteSet(Key)
  BY GroupAssumption, FS_Subset

(* A rule book is finite, as the actions are. *)
LEMMA ActiveFinite ==
  /\ IsFiniteSet(Active)
  /\ Cardinality(Active) \in Nat
  BY KeyFinite, FS_Subset, FS_CardinalityType DEF Active

(* What an evaluation admits is new, proposed and within the capacity. *)
LEMMA AdmittedFits ==
  ASSUME NEW proposed \in SUBSET Key, NEW new \in Admitted(proposed),
         Cardinality(Active) <= MaxRules
  PROVE  /\ new \subseteq proposed \ Active
         /\ IsFiniteSet(Active \cup new)
         /\ Cardinality(Active \cup new) <= MaxRules
<1>1. new \subseteq proposed \ Active
  BY DEF Admitted
<1>2. IsFiniteSet(new) /\ Cardinality(new) \in Nat
  BY <1>1, KeyFinite, FS_Subset, FS_CardinalityType
<1>3. IsFiniteSet(Active \cup new)
  BY <1>2, ActiveFinite, FS_Union
<1>4. CASE new = {}
  <2>1. Active \cup new = Active
    BY <1>4
  <2> QED
    BY <1>1, <1>3, <2>1
<1>5. CASE Cardinality(Active) + Cardinality(new) <= MaxRules
  <2>1. Active \cap new = {}
    BY <1>1
  <2>2. Cardinality(Active \cup new) =
          Cardinality(Active) + Cardinality(new) - Cardinality({})
    BY <1>2, <2>1, ActiveFinite, FS_Union
  <2>3. Cardinality({}) = 0
    BY FS_EmptySet
  <2> QED
    BY <1>1, <1>2, <1>3, <1>5, <2>2, <2>3, ActiveFinite
<1> QED
  BY <1>4, <1>5 DEF Admitted

(* The rules after an evaluation: old ones, refreshed or not, and new ones. *)
LEMMA UpdatedRulesAre ==
  ASSUME TypeOK, SlidingLifetime, NEW time \in Nat, time > now,
         NEW new \in SUBSET (Key \ Active), NEW refreshed \in SUBSET Active,
         rules' = UpdatedRules(time, new, refreshed)
  PROVE  /\ rules' \in [Key -> Rule \cup {NoRule}]
         /\ Active' \subseteq Active \cup new
         /\ \A key \in Active' :
              /\ rules'[key].first <= rules'[key].last
              /\ rules'[key].last <= time
              /\ rules'[key].expires = rules'[key].last + TTL
              /\ rules'[key].expires > time
              /\ key \in new => rules'[key].first = time
              /\ key \notin new => rules'[key].first = rules[key].first
<1> USE WindowAssumption, DetectorAssumption, GroupAssumption
<1>1. \A key \in Active : /\ rules[key] \in Rule
                          /\ rules[key].first <= rules[key].last
                          /\ rules[key].last <= now
                          /\ rules[key].expires = rules[key].last + TTL
  BY DEF TypeOK, SlidingLifetime, Active
<1>2. ASSUME NEW key \in Key, key \in new
      PROVE  rules'[key] = [first |-> time, last |-> time, expires |-> time + TTL]
  BY <1>2 DEF UpdatedRules, NewRule
<1>3. ASSUME NEW key \in Key, key \in refreshed
      PROVE  rules'[key] = [rules[key] EXCEPT !.last = time, !.expires = time + TTL]
  BY <1>3 DEF UpdatedRules, RefreshedRule
<1>4. ASSUME NEW key \in Key, key \notin new, key \notin refreshed
      PROVE  rules'[key] = IF rules[key] # NoRule /\ rules[key].expires <= time
                           THEN NoRule ELSE rules[key]
  BY <1>4 DEF UpdatedRules, KeptUntilExpiry
<1>5. \A key \in Key : key \in new => rules'[key] \in Rule
  BY <1>2 DEF Rule
<1>6. ASSUME NEW key \in Key, key \in refreshed PROVE rules'[key] \in Rule
  <2>1. PICK rule \in [first : Nat, last : Nat, expires : Nat] : rule = rules[key]
    BY <1>1, <1>6 DEF Rule
  <2>2. rules'[key] = [rule EXCEPT !.last = time, !.expires = time + TTL]
    BY <1>3, <1>6, <2>1
  <2>3. rules'[key] = [first |-> rule.first, last |-> time, expires |-> time + TTL]
    BY <2>1, <2>2
  <2> QED
    BY <2>1, <2>3 DEF Rule
<1>7. \A key \in Key :
        key \notin new /\ key \notin refreshed => rules'[key] \in {rules[key], NoRule}
  BY <1>4
<1>8. rules' \in [Key -> Rule \cup {NoRule}]
  <2>1. \A key \in Key : rules'[key] \in Rule \cup {NoRule}
    BY <1>5, <1>6, <1>7 DEF TypeOK
  <2>2. rules' = [key \in Key |-> rules'[key]]
    BY DEF UpdatedRules
  <2> QED
    BY <2>1, <2>2
<1>9. Active' \subseteq Active \cup new
  BY <1>7 DEF Active
<1>10. ASSUME NEW key \in Active'
       PROVE  /\ rules'[key].first <= rules'[key].last
              /\ rules'[key].last <= time
              /\ rules'[key].expires = rules'[key].last + TTL
              /\ rules'[key].expires > time
              /\ key \in new => rules'[key].first = time
              /\ key \notin new => rules'[key].first = rules[key].first
  <2>1. key \in Key /\ rules'[key] # NoRule
    BY DEF Active
  <2>2. CASE key \in new
    BY <1>2, <2>1, <2>2
  <2>3. CASE key \in refreshed
    <3>1. rules[key] \in [first : Nat, last : Nat, expires : Nat]
      BY <1>1, <2>3 DEF Rule
    <3>2. rules[key].first <= time
      BY <1>1, <2>3, <3>1 DEF TypeOK
    <3>3. /\ rules'[key].first = rules[key].first
          /\ rules'[key].last = time
          /\ rules'[key].expires = time + TTL
      BY <1>3, <2>1, <2>3, <3>1
    <3> QED
      BY <2>3, <3>1, <3>2, <3>3
  <2>4. CASE key \notin new /\ key \notin refreshed
    <3>1. key \in Active /\ rules'[key] = rules[key] /\ ~(rules[key].expires <= time)
      BY <1>4, <2>1, <2>4 DEF Active
    <3>2. rules[key] \in [first : Nat, last : Nat, expires : Nat]
      BY <1>1, <3>1 DEF Rule
    <3> QED
      BY <1>1, <2>4, <3>1, <3>2 DEF TypeOK
  <2> QED
    BY <2>2, <2>3, <2>4
<1> QED
  BY <1>8, <1>9, <1>10

-----------------------------------------------------------------------------
(* The inductive invariant *)

(* A watcher starts with rules that could have been its own. *)
LEMMA InductiveInit == Init => Inductive
<1> SUFFICES ASSUME Init PROVE Inductive
  OBVIOUS
<1> USE WindowAssumption, DetectorAssumption
<1>1. now \in Nat
  <2>1. Interval \in Nat /\ now \in 1 .. Interval
    BY DEF Init
  <2> QED
    BY <2>1
<1>2. lastApplied \in {0, now}
  BY DEF Init
<1>3. ASSUME NEW rule \in Inheritable
      PROVE  /\ rule \in Rule
             /\ rule.first <= rule.last
             /\ rule.last <= now
             /\ rule.expires = rule.last + TTL
             /\ rule.expires > now
  <2>1. /\ rule \in [first : 0 .. now, last : 0 .. now, expires : now + 1 .. now + TTL]
        /\ rule.first <= rule.last
        /\ rule.expires = rule.last + TTL
    BY DEF Inheritable
  <2>2. /\ 0 .. now \subseteq Nat
        /\ now + 1 .. now + TTL \subseteq Nat
    BY <1>1
  <2>3. rule \in Rule
    BY <2>1, <2>2 DEF Rule
  <2>4. rule.last \in 0 .. now /\ rule.expires \in now + 1 .. now + TTL
    BY <2>1
  <2> QED
    BY <1>1, <2>1, <2>3, <2>4
<1>4. rules \in [Key -> Inheritable \cup {NoRule}]
  BY DEF Init
<1>5. TypeOK
  <2>1. rules \in [Key -> Rule \cup {NoRule}]
    BY <1>3, <1>4
  <2>2. 0 \in 0 .. Required
    OBVIOUS
  <2>3. consecutive \in [Claim -> 0 .. Required] /\ calm \in [Claim -> Nat]
    BY <2>2 DEF Init
  <2>4. applied \in SUBSET Key /\ refused \in BOOLEAN /\ evaluations \in Nat
    BY DEF Init, Active
  <2> QED
    BY <1>1, <1>2, <2>1, <2>3, <2>4 DEF TypeOK
<1>6. SlidingLifetime
  BY <1>3, <1>4 DEF SlidingLifetime, Active
<1>7. WithinCapacity
  BY DEF Init, WithinCapacity
<1>8. applied = Active
  BY DEF Init
<1>9. ApplyIsPrompt /\ Pending
  BY <1>1, <1>2, <1>8 DEF ApplyIsPrompt, Pending
<1>10. Streak
  BY DEF Init, Streak
<1> QED
  BY <1>5, <1>6, <1>7, <1>9, <1>10 DEF Inductive

(* What an evaluation does to the rules, whatever qualifies. *)
LEMMA EvaluateUpdates ==
  ASSUME Inductive, NEW time \in Time, Evaluate(time)
  PROVE  \E new \in SUBSET (Proposed(consecutive') \ Active),
            refreshed \in SUBSET Active :
           /\ rules' = UpdatedRules(time, new, refreshed)
           /\ IsFiniteSet(Active \cup new)
           /\ Cardinality(Active \cup new) <= MaxRules
           /\ new \subseteq Key
<1>1. PICK qualified \in SUBSET Claim, attempted \in SUBSET Key,
           allowed \in BOOLEAN, new \in Admitted(Proposed(consecutive')) :
        rules' = UpdatedRules(time, new,
                   Refreshed(Proposed(consecutive'), attempted, allowed))
  BY DEF Evaluate, EvaluateWith
<1>2. Proposed(consecutive') \subseteq Key
  BY GroupAssumption DEF Proposed, KeyOf
<1>3. Refreshed(Proposed(consecutive'), attempted, allowed) \subseteq Active
  BY DEF Refreshed
<1>4. /\ new \subseteq Proposed(consecutive') \ Active
      /\ IsFiniteSet(Active \cup new)
      /\ Cardinality(Active \cup new) <= MaxRules
  BY <1>2, AdmittedFits DEF Inductive, WithinCapacity
<1> QED
  BY <1>1, <1>2, <1>3, <1>4

(* A streak grows by one evaluation or starts again. *)
LEMMA EvaluateStreak ==
  ASSUME TypeOK, Streak, NEW time \in Time, Evaluate(time)
  PROVE  /\ consecutive' \in [Claim -> 0 .. Required]
         /\ calm' \in [Claim -> Nat]
         /\ Streak'
<1> USE WindowAssumption, DetectorAssumption DEF TypeOK
<1>1. PICK qualified \in SUBSET Claim, allowed \in BOOLEAN :
        /\ consecutive' = StreakAfter(qualified, allowed)
        /\ calm' = [claim \in Claim |->
                      IF allowed /\ claim \in qualified THEN calm[claim]
                                                        ELSE evaluations + 1]
  BY DEF Evaluate, EvaluateWith
<1>2. evaluations' = evaluations + 1
  BY DEF Evaluate, EvaluateWith
<1>3. \A claim \in Claim : consecutive'[claim] \in 0 .. Required
  BY <1>1 DEF StreakAfter
<1>4. consecutive' \in [Claim -> 0 .. Required]
  BY <1>1, <1>3 DEF StreakAfter
<1>5. calm' \in [Claim -> Nat]
  BY <1>1
<1>6. ASSUME NEW claim \in Claim
      PROVE  calm'[claim] + consecutive'[claim] <= evaluations'
  <2>1. CASE allowed /\ claim \in qualified
    <3>1. calm'[claim] = calm[claim]
      BY <1>1, <2>1
    <3>2. consecutive'[claim] <= consecutive[claim] + 1
      BY <1>1, <2>1 DEF StreakAfter
    <3>3. calm[claim] + consecutive[claim] <= evaluations
      BY DEF Streak
    <3> QED
      BY <1>2, <1>3, <3>1, <3>2, <3>3
  <2>2. CASE ~(allowed /\ claim \in qualified)
    <3>1. calm'[claim] = evaluations + 1 /\ consecutive'[claim] = 0
      BY <1>1, <2>2 DEF StreakAfter
    <3> QED
      BY <1>2, <3>1
  <2> QED
    BY <2>1, <2>2
<1> QED
  BY <1>4, <1>5, <1>6 DEF Streak

(* An evaluation keeps the rule book in order. *)
LEMMA EvaluateKeeps ==
  ASSUME Inductive, NEW time \in Time, Evaluate(time)
  PROVE  Inductive'
<1> USE WindowAssumption, DetectorAssumption
<1>1. TypeOK /\ SlidingLifetime /\ WithinCapacity /\ Pending /\ ApplyIsPrompt
        /\ Streak
  BY DEF Inductive
<1>2. time \in Nat /\ time > now /\ now' = time /\ evaluations' = evaluations + 1
  BY DEF Evaluate, EvaluateWith, Time
<1>3. PICK new \in SUBSET (Proposed(consecutive') \ Active),
           refreshed \in SUBSET Active :
        /\ rules' = UpdatedRules(time, new, refreshed)
        /\ IsFiniteSet(Active \cup new)
        /\ Cardinality(Active \cup new) <= MaxRules
        /\ new \subseteq Key
  BY EvaluateUpdates
<1>4. /\ rules' \in [Key -> Rule \cup {NoRule}]
      /\ Active' \subseteq Active \cup new
      /\ \A key \in Active' :
           /\ rules'[key].first <= rules'[key].last
           /\ rules'[key].last <= time
           /\ rules'[key].expires = rules'[key].last + TTL
           /\ rules'[key].expires > time
           /\ key \in new => rules'[key].first = time
           /\ key \notin new => rules'[key].first = rules[key].first
  <2>1. new \in SUBSET (Key \ Active)
    BY <1>3
  <2> QED
    BY <1>1, <1>2, <1>3, <2>1, UpdatedRulesAre
<1>5. SlidingLifetime'
  BY <1>2, <1>4 DEF SlidingLifetime
<1>6. WithinCapacity'
  <2>1. Cardinality(Active') <= Cardinality(Active \cup new)
    BY <1>3, <1>4, FS_Subset
  <2>2. Cardinality(Active') \in Nat /\ Cardinality(Active \cup new) \in Nat
    BY <1>3, <1>4, FS_Subset, FS_CardinalityType
  <2> QED
    BY <1>3, <2>1, <2>2 DEF WithinCapacity
<1>7. Active' \subseteq Key /\ Active' = {key \in Key : rules'[key] # NoRule}
  BY DEF Active
<1>8. \/ ApplyNow(time, Active') /\ MarkApplied(time, Active')
      \/ refused' = TRUE /\ UNCHANGED <<applied, lastApplied>>
      \/ ~ApplyNow(time, Active') /\ refused' = FALSE /\ UNCHANGED <<applied, lastApplied>>
  BY <1>7 DEF Evaluate, EvaluateWith, ApplyFailed
<1>9. applied' \in SUBSET Key /\ lastApplied' \in Nat /\ refused' \in BOOLEAN
  BY <1>1, <1>2, <1>7, <1>8 DEF TypeOK, MarkApplied
<1>10. TypeOK'
  BY <1>1, <1>2, <1>4, <1>9, EvaluateStreak DEF TypeOK
<1>11. Streak'
  BY <1>1, EvaluateStreak
<1>12. ASSUME NEW key \in Active', key \notin applied, UNCHANGED lastApplied
       PROVE  lastApplied' <= rules'[key].first
  <2>1. CASE key \in new
    BY <1>1, <1>2, <1>4, <1>12, <2>1 DEF Pending, TypeOK
  <2>2. CASE key \notin new
    <3>1. key \in Active \ applied
      BY <1>4, <1>12, <2>2
    <3> QED
      BY <1>1, <1>4, <1>12, <2>2, <3>1 DEF Pending
  <2> QED
    BY <2>1, <2>2
<1>13. Pending'
  <2>1. CASE MarkApplied(time, Active')
    BY <1>2, <2>1 DEF MarkApplied, Pending
  <2>2. CASE UNCHANGED <<applied, lastApplied>>
    BY <1>1, <1>2, <1>12, <2>2 DEF Pending, TypeOK
  <2> QED
    BY <1>8, <2>1, <2>2
<1>14. ApplyIsPrompt'
  <2>1. CASE MarkApplied(time, Active')
    BY <2>1 DEF MarkApplied, ApplyIsPrompt
  <2>2. CASE refused'
    BY <2>2 DEF ApplyIsPrompt
  <2>3. CASE ~ApplyNow(time, Active') /\ UNCHANGED <<applied, lastApplied>>
    <3>1. CASE applied = Active'
      BY <2>3, <3>1 DEF ApplyIsPrompt
    <3>2. CASE applied # Active'
      <4>1. applied \subseteq Active' /\ ~(time >= lastApplied + MinReload)
        BY <2>3, <3>2 DEF ApplyNow, RulesEqual, RuleRemoved
      <4>2. ASSUME NEW key \in Active' \ applied'
            PROVE  now' < rules'[key].first + MinReload
        <5>1. lastApplied <= rules'[key].first
          BY <1>12, <2>3, <4>2
        <5>2. rules'[key].first \in Nat
          BY <1>4, GroupAssumption DEF Rule, Active
        <5> QED
          BY <1>1, <1>2, <4>1, <5>1, <5>2 DEF TypeOK
      <4> QED
        BY <2>3, <4>1, <4>2 DEF ApplyIsPrompt
    <3> QED
      BY <3>1, <3>2
  <2> QED
    BY <1>8, <2>1, <2>2, <2>3
<1> QED
  BY <1>5, <1>6, <1>10, <1>11, <1>13, <1>14 DEF Inductive

(* A watcher that takes over inherits a rule book in order. *)
LEMMA RestartKeeps ==
  ASSUME Inductive, NEW time \in Time, Restart(time)
  PROVE  Inductive'
<1> USE WindowAssumption, DetectorAssumption, GroupAssumption
<1>1. TypeOK /\ SlidingLifetime /\ WithinCapacity
  BY DEF Inductive
<1>2. time \in Nat /\ time >= now /\ now' = time /\ lastApplied' = time
        /\ UNCHANGED evaluations
  BY DEF Restart, Time
<1>3. PICK kept \in {{}, {key \in Active : rules[key].expires > time}} :
        /\ rules' = [key \in Key |-> IF key \in kept THEN rules[key] ELSE NoRule]
        /\ applied' = kept
  BY DEF Restart
<1>4. kept \subseteq Active /\ \A key \in kept : rules[key].expires > time
  BY <1>3
<1>5. Active' = kept
  BY <1>3, <1>4 DEF Active
<1>6. \A key \in kept : rules'[key] = rules[key]
  BY <1>3, <1>4 DEF Active
<1>7. TypeOK'
  <2>1. rules' \in [Key -> Rule \cup {NoRule}] /\ applied' \in SUBSET Key
    BY <1>1, <1>3, <1>4 DEF TypeOK, Active
  <2>2. 0 \in 0 .. Required
    OBVIOUS
  <2>3. consecutive' \in [Claim -> 0 .. Required]
    BY <2>2 DEF Restart
  <2>4. calm' \in [Claim -> Nat] /\ refused' \in BOOLEAN
    BY <1>1 DEF Restart, TypeOK
  <2> QED
    BY <1>1, <1>2, <2>1, <2>3, <2>4 DEF TypeOK
<1>8. SlidingLifetime'
  <2> SUFFICES ASSUME NEW key \in kept
               PROVE  /\ rules[key].first <= rules[key].last
                      /\ rules[key].last <= time
                      /\ rules[key].expires = rules[key].last + TTL
                      /\ rules[key].expires > time
    BY <1>2, <1>5, <1>6 DEF SlidingLifetime
  <2>1. rules[key].last \in Nat
    BY <1>1, <1>4 DEF TypeOK, Active, Rule
  <2> QED
    BY <1>1, <1>2, <1>4, <2>1 DEF SlidingLifetime, TypeOK
<1>9. WithinCapacity'
  <2>1. Cardinality(Active') <= Cardinality(Active)
    BY <1>4, <1>5, ActiveFinite, FS_Subset
  <2>2. Cardinality(Active') \in Nat
    BY <1>4, <1>5, ActiveFinite, FS_Subset, FS_CardinalityType
  <2> QED
    BY <1>1, <2>1, <2>2, ActiveFinite DEF WithinCapacity
<1>10. Pending' /\ ApplyIsPrompt'
  BY <1>2, <1>3, <1>5 DEF Pending, ApplyIsPrompt
<1>11. Streak'
  BY <1>1 DEF Restart, Streak, TypeOK
<1> QED
  BY <1>7, <1>8, <1>9, <1>10, <1>11 DEF Inductive

(* Every step keeps the rule book in order. *)
LEMMA InductiveAlways == Spec => []Inductive
<1>1. Inductive /\ [Next]_vars => Inductive'
  <2> SUFFICES ASSUME Inductive, [Next]_vars PROVE Inductive'
    OBVIOUS
  <2>1. CASE Next
    BY <2>1, EvaluateKeeps, RestartKeeps DEF Next
  <2>2. CASE UNCHANGED vars
    BY <2>2 DEF vars, Inductive, TypeOK, SlidingLifetime, WithinCapacity,
                Pending, ApplyIsPrompt, Streak, Active
  <2> QED
    BY <2>1, <2>2
<1> QED
  BY InductiveInit, <1>1, PTL DEF Spec

-----------------------------------------------------------------------------
(* The theorems *)

(* The variables of the detector's rule book keep their types. *)
THEOREM RuleBookTypeCorrect == Spec => []TypeOK
<1>1. Inductive => TypeOK
  BY DEF Inductive
<1> QED
  BY InductiveAlways, <1>1, PTL

(* Every rule ends one TTL after its last qualification. *)
THEOREM SlidingLifetimeAlways == Spec => []SlidingLifetime
<1>1. Inductive => SlidingLifetime
  BY DEF Inductive
<1> QED
  BY InductiveAlways, <1>1, PTL

(* The configured number of rules is never exceeded. *)
THEOREM WithinCapacityAlways == Spec => []WithinCapacity
<1>1. Inductive => WithinCapacity
  BY DEF Inductive
<1> QED
  BY InductiveAlways, <1>1, PTL

(* Unless its apply has just failed, a new rule waits less than the reload  *)
(* interval, and a dropped one not at all.                                  *)
THEOREM ApplyIsPromptAlways == Spec => []ApplyIsPrompt
<1>1. Inductive => ApplyIsPrompt
  BY DEF Inductive
<1> QED
  BY InductiveAlways, <1>1, PTL

(* A rule is dropped at its expiry only, or by a watcher that starts empty. *)
THEOREM OnlyExpiryDropsAlways == Spec => OnlyExpiryDrops
<1> DEFINE Dropped == \A key \in Active :
                        rules'[key] = NoRule =>
                          \/ rules[key].expires <= now'
                          \/ evaluations' = evaluations /\ Active' = {}
<1>1. Inductive /\ [Next]_vars => [Dropped]_vars
  <2> SUFFICES ASSUME Inductive, Next PROVE Dropped
    OBVIOUS
  <2>1. ASSUME NEW time \in Time, Evaluate(time) PROVE Dropped
    <3>1. PICK new \in SUBSET (Proposed(consecutive') \ Active),
               refreshed \in SUBSET Active :
            rules' = UpdatedRules(time, new, refreshed)
      BY <2>1, EvaluateUpdates
    <3>2. now' = time
      BY <2>1 DEF Evaluate, EvaluateWith
    <3> SUFFICES ASSUME NEW key \in Active, rules'[key] = NoRule
                 PROVE  rules[key].expires <= time
      BY <3>2
    <3>3. key \in Key /\ rules[key] \in Rule
      BY DEF Active, Inductive, TypeOK
    <3>4. key \notin new
      BY <3>1
    <3>5. rules'[key] = IF key \in refreshed THEN RefreshedRule(rules[key], time)
                        ELSE KeptUntilExpiry(rules[key], time)
      BY <3>1, <3>3, <3>4 DEF UpdatedRules
    <3>6. RefreshedRule(rules[key], time) # NoRule
      <4>1. PICK rule \in [first : Nat, last : Nat, expires : Nat] :
              rule = rules[key]
        BY <3>3 DEF Rule
      <4>2. RefreshedRule(rule, time) =
              [first |-> rule.first, last |-> time, expires |-> time + TTL]
        <5>1. RefreshedRule(rule, time) =
                [rule EXCEPT !.last = time, !.expires = time + TTL]
          BY DEF RefreshedRule
        <5> QED
          BY <4>1, <5>1
      <4>3. time \in Nat /\ time + TTL \in Nat
        BY DetectorAssumption DEF Time
      <4>4. RefreshedRule(rule, time) \in Rule
        BY <4>1, <4>2, <4>3 DEF Rule
      <4> QED
        BY <4>1, <4>4, GroupAssumption
    <3>7. rules[key] # NoRule
      BY DEF Active
    <3> QED
      BY <3>5, <3>6, <3>7 DEF KeptUntilExpiry
  <2>2. ASSUME NEW time \in Time, Restart(time) PROVE Dropped
    <3>1. PICK kept \in {{}, {key \in Active : rules[key].expires > time}} :
            rules' = [key \in Key |-> IF key \in kept THEN rules[key] ELSE NoRule]
      BY <2>2 DEF Restart
    <3>2. now' = time /\ evaluations' = evaluations
      BY <2>2 DEF Restart
    <3>3. CASE kept = {}
      BY <3>1, <3>2, <3>3 DEF Active
    <3>4. CASE kept = {key \in Active : rules[key].expires > time}
      <4> SUFFICES ASSUME NEW key \in Active, rules'[key] = NoRule
                   PROVE  rules[key].expires <= time
        BY <3>2
      <4>1. rules[key].expires \in Nat
        BY DEF Active, Inductive, TypeOK, Rule
      <4>2. key \notin kept
        BY <3>1, <3>4 DEF Active
      <4> QED
        BY <3>4, <4>1, <4>2 DEF Time
    <3> QED
      BY <3>1, <3>3, <3>4
  <2> QED
    BY <2>1, <2>2 DEF Next
<1> QED
  BY InductiveAlways, <1>1, PTL DEF Spec, OnlyExpiryDrops

(* A rule needs Required evaluations in a row at which one and the same     *)
(* group qualified, none of them suspended and no restart in between.       *)
THEOREM ActivationTakesAStreakAlways == Spec => ActivationTakesAStreak
<1> DEFINE Earned == \A key \in Key :
                       rules[key] = NoRule /\ rules'[key] # NoRule =>
                         \E claim \in Claim :
                           KeyOf(claim) = key
                             /\ evaluations' >= calm'[claim] + Required
<1>1. Inductive /\ [Next]_vars => [Earned]_vars
  <2> SUFFICES ASSUME Inductive, Next PROVE Earned
    OBVIOUS
  <2>1. ASSUME NEW time \in Time, Evaluate(time) PROVE Earned
    <3>1. PICK new \in SUBSET (Proposed(consecutive') \ Active),
               refreshed \in SUBSET Active :
            rules' = UpdatedRules(time, new, refreshed)
      BY <2>1, EvaluateUpdates
    <3> SUFFICES ASSUME NEW key \in Key, rules[key] = NoRule,
                        rules'[key] # NoRule
                 PROVE  \E claim \in Claim :
                          /\ KeyOf(claim) = key
                          /\ evaluations' >= calm'[claim] + Required
      OBVIOUS
    <3>2. key \in new
      BY <3>1 DEF UpdatedRules, KeptUntilExpiry, Active
    <3>3. PICK claim \in Claim : KeyOf(claim) = key /\ consecutive'[claim] = Required
      BY <3>2 DEF Proposed
    <3>4. calm'[claim] + consecutive'[claim] <= evaluations'
      BY <2>1, EvaluateStreak DEF Inductive, Streak
    <3> QED
      BY <3>3, <3>4
  <2>2. ASSUME NEW time \in Time, Restart(time) PROVE Earned
    <3>1. \A key \in Key : rules'[key] \in {rules[key], NoRule}
      BY <2>2 DEF Restart
    <3> QED
      BY <3>1
  <2> QED
    BY <2>1, <2>2 DEF Next
<1> QED
  BY InductiveAlways, <1>1, PTL DEF Spec, ActivationTakesAStreak
=============================================================================
