---------------------------- MODULE DetectorProofs ----------------------------
(***************************************************************************)
(* Proofs about the detector: first about its rolling window, for any      *)
(* window, interval, lag and limit, and then that the detector implements  *)
(* the window and the rule book, so that what is proved about each of them *)
(* alone holds of the two together.                                        *)
(*                                                                         *)
(* Every bucket counts exactly the records that fall into it and have not  *)
(* been pruned (BucketsCount): this needs that buckets, evaluations and    *)
(* the edges of the window are all multiples of the interval, so that a    *)
(* record leaves the window together with its bucket.  From it follow what *)
(* the sums over the window are (WindowExact), and that a group has no     *)
(* record left in the window once it is forgotten, and so may take the     *)
(* prefix of another (ActionFitsGroup).                                    *)
(*                                                                         *)
(* The rule book is told which claims qualify, so that every group that is *)
(* tracked must propose an action it may propose (ClaimsKnown).            *)
(***************************************************************************)
EXTENDS Detector, NumberFacts, TLAPS

Rules == INSTANCE RuleBookProofs WITH applied <- appliedRules

(* What the assumptions on the settings say. *)
USE DEF ValidDetection, ValidAction, Rules!ValidDetection, Rules!ValidAction

-----------------------------------------------------------------------------
(* Arithmetic of intervals *)

Aligned(time) == \E n \in Nat : time = Interval * n

(* Two multiples of the interval are at least an interval apart. *)
LEMMA Apart ==
  ASSUME NEW a, NEW b, Aligned(a), Aligned(b), a < b
  PROVE  a + Interval <= b
<1>1. PICK m \in Nat : a = Interval * m
  BY DEF Aligned
<1>2. PICK n \in Nat : b = Interval * n
  BY DEF Aligned
<1>3. Interval \in Nat
  BY WindowAssumption
<1>4. m < n
  <2>1. ASSUME n <= m PROVE FALSE
    <3>1. n < m => Interval * n + Interval <= Interval * m
      BY <1>3, Multiples
    <3>2. Interval * n \in Nat /\ Interval * m \in Nat
      BY <1>3, Multiples
    <3> QED
      BY <1>1, <1>2, <1>3, <2>1, <3>1, <3>2
  <2> QED
    BY <2>1
<1> QED
  BY <1>1, <1>2, <1>3, <1>4, Multiples

(* The end of a bucket is the first multiple of the interval that is not    *)
(* before the record.                                                       *)
LEMMA BucketEndIs ==
  ASSUME NEW ts \in Time
  PROVE  /\ BucketEnd(ts) \in Bucket
         /\ ts <= BucketEnd(ts)
         /\ BucketEnd(ts) < ts + Interval
<1> DEFINE q == (ts - 1) \div Interval
<1>1. ts - 1 \in Nat /\ ts \in Nat /\ Interval \in Nat \ {0} /\ Horizon \in Nat
  BY WindowAssumption DEF Time
<1>2. q \in Nat /\ Interval * q <= ts - 1 /\ ts - 1 < Interval * q + Interval
  BY <1>1, Quotient
<1>3. BucketEnd(ts) = Interval * (q + 1)
  BY <1>1, <1>2 DEF BucketEnd
<1>4. BucketEnd(ts) = Interval * q + Interval /\ Interval * q \in Nat
  BY <1>1, <1>2, <1>3, Multiples
<1>5. q <= Horizon \div Interval /\ Horizon \div Interval \in Nat
  BY <1>1, Quotient, QuotientsGrow DEF Time
<1>6. BucketEnd(ts) \in Bucket
  BY <1>1, <1>2, <1>3, <1>5 DEF Bucket
<1> QED
  BY <1>1, <1>2, <1>4, <1>6

(* The next evaluation is the first multiple of the interval in the future. *)
LEMMA NextDueIs ==
  ASSUME NEW time \in Time
  PROVE  NextDue(time) \in Bucket /\ time < NextDue(time)
<1> DEFINE q == time \div Interval
<1>1. time \in Nat /\ Interval \in Nat \ {0} /\ Horizon \in Nat
  BY WindowAssumption DEF Time
<1>2. q \in Nat /\ Interval * q <= time /\ time < Interval * q + Interval
  BY <1>1, Quotient
<1>3. NextDue(time) = Interval * (q + 1)
  BY <1>1, <1>2 DEF NextDue
<1>4. NextDue(time) = Interval * q + Interval /\ Interval * q \in Nat
  BY <1>1, <1>2, <1>3, Multiples
<1>5. q <= Horizon \div Interval /\ Horizon \div Interval \in Nat
  BY <1>1, Quotient, QuotientsGrow DEF Time
<1>6. NextDue(time) \in Bucket
  BY <1>1, <1>2, <1>3, <1>5 DEF Bucket
<1> QED
  BY <1>1, <1>2, <1>4, <1>6

(* Buckets are aligned, and so is what lies a window after one. *)
LEMMA BucketsAligned ==
  ASSUME NEW bucket \in Bucket
  PROVE  /\ bucket \in Nat
         /\ Aligned(bucket)
         /\ Aligned(bucket + Window)
<1>1. Interval \in Nat \ {0} /\ Window \in Nat \ {0} /\ Window % Interval = 0
  BY WindowAssumption
<1>2. PICK n \in 1 .. Horizon \div Interval + 1 : bucket = Interval * n
  BY DEF Bucket
<1>3. n \in Nat
  BY <1>2, Quotient, WindowAssumption
<1>4. PICK m \in Nat : Window = Interval * m
  <2>1. Window = Interval * (Window \div Interval) + (Window % Interval)
    BY <1>1
  <2>2. Window \div Interval \in Nat
    BY <1>1, Quotient
  <2> QED
    BY <1>1, <2>1, <2>2
<1>5. bucket + Window = Interval * (n + m)
  BY <1>1, <1>2, <1>3, <1>4
<1>6. Aligned(bucket) /\ Aligned(bucket + Window)
  <2>1. n + m \in Nat
    BY <1>3, <1>4
  <2> QED
    BY <1>2, <1>3, <1>5, <2>1 DEF Aligned
<1>7. bucket \in Nat
  BY <1>1, <1>2, <1>3, Multiples
<1> QED
  BY <1>6, <1>7

-----------------------------------------------------------------------------
(* The inductive invariant *)

(* A record that the prune of the evaluation it was read before did not     *)
(* drop, or will not have dropped until then.                               *)
Held(record) == record.ts <= record.due \/ record.due = due

At(bucket) == {r \in observed : Held(r) /\ BucketEnd(r.ts) = bucket}
SiteAt(bucket) == {r \in At(bucket) : Denominator(r.kind)}
GroupAt(group, bucket) == {r \in At(bucket) : group \in r.groups}
AttemptsAt(group, bucket) == {r \in At(bucket) : group \in r.rules}

(* Every bucket counts the records that belong to it, tick by tick: what    *)
(* the site, a group and an action add up over the window is what was read. *)
BucketsCount ==
  \A bucket \in Bucket :
    /\ siteBuckets[bucket] = Cardinality(SiteAt(bucket))
    /\ \A group \in Group :
         /\ groupBuckets[group][bucket] = Cardinality(GroupAt(group, bucket))
         /\ attemptBuckets[group][bucket] = Cardinality(AttemptsAt(group, bucket))

(* The evaluations go on, and records are read before the one they meet. *)
Timeline ==
  /\ due \in Bucket
  /\ evaluated < due
  /\ evaluated <= clock
  /\ \A record \in observed :
       /\ record.due <= due
       /\ record.due < due => record.due <= evaluated
       /\ record.ts + Window > evaluated

(* The history is finite, as every record in it has an id of its own. *)
Bounded == IsFiniteSet(observed)

(* A group that is not tracked has no requests. *)
OnlyTracked ==
  \A group \in Group \ tracked : groupBuckets[group] = NoCount

(* A group's records are its own, and of its prefix unless it is unsafe. *)
OnePrefix ==
  \A group \in tracked \ unsafe : \A bucket \in Bucket :
    \A record \in GroupAt(group, bucket) : record.kind.volume = volumeOf[group]

(* A volume group has its own prefix. *)
OwnVolume ==
  \A kind \in Kind :
    kind.volume \in tracked => volumeOf[kind.volume] = kind.volume

Inductive ==
  /\ TypeOK
  /\ Timeline
  /\ Bounded
  /\ BucketsCount
  /\ OnlyTracked
  /\ OnePrefix
  /\ OwnVolume
  /\ LimitReported

-----------------------------------------------------------------------------
(* Reading a record *)

Record == [id : RecordId, ts : Time, kind : Kind, due : Bucket,
           groups : SUBSET Group, rules : SUBSET Group]

(* What reading a record adds to the history. *)
LEMMA ObserveAdds ==
  ASSUME Inductive, NEW id \in RecordId, NEW kind \in Kind, NEW ts \in Time,
         Observe(id, kind, ts)
  PROVE  \E new \in Record :
           /\ new \notin observed
           /\ observed' = observed \cup {new}
           /\ IsFiniteSet(observed')
           /\ new.ts = ts /\ new.kind = kind /\ new.due = due
           /\ new.groups = IF Candidate(kind) /\ kind.safe THEN Registered(kind)
                                                          ELSE {}
           /\ new.rules = Attempted(kind)
           /\ new.ts + Window > evaluated
<1> DEFINE groups == IF Candidate(kind) /\ kind.safe THEN Registered(kind) ELSE {}
           new == [id |-> id, ts |-> ts, kind |-> kind, due |-> due,
                   groups |-> groups, rules |-> Attempted(kind)]
<1>1. TypeOK /\ Timeline /\ Bounded
  BY DEF Inductive
<1>2. observed' = observed \cup {new}
  BY DEF Observe
<1>3. new \notin observed
  <2>1. id \notin {record.id : record \in observed} /\ new.id = id
    BY DEF Observe
  <2> QED
    BY <2>1
<1>4. groups \subseteq Group /\ Attempted(kind) \subseteq Group
  BY KindAssumption, GroupAssumption DEF Registered, Attempted
<1>5. new \in Record
  BY <1>1, <1>4 DEF Record, Timeline
<1>6. IsFiniteSet(observed')
  BY <1>1, <1>2, FS_AddElement DEF Bounded
<1>7. ts + Window > evaluated
  BY <1>1, WindowAssumption DEF Observe, Stale, Timeline, TypeOK, Time, Bucket
<1> QED
  BY <1>2, <1>3, <1>5, <1>6, <1>7

(* The records at a bucket after one was read. *)
LEMMA AtAfterObserve ==
  ASSUME NEW new \in Record, observed' = observed \cup {new}, new.due = due,
         UNCHANGED due, NEW bucket \in Bucket
  PROVE  At(bucket)' = IF BucketEnd(new.ts) = bucket THEN At(bucket) \cup {new}
                                                     ELSE At(bucket)
<1>1. \A record : Held(record)' <=> Held(record)
  BY DEF Held
<1>2. Held(new)
  BY DEF Held
<1>3. At(bucket)' = {r \in observed' : Held(r) /\ BucketEnd(r.ts) = bucket}
  BY <1>1 DEF At
<1> QED
  BY <1>2, <1>3 DEF At

(* Counting one more of a finite set. *)
LEMMA OneMore ==
  ASSUME NEW S, IsFiniteSet(S), NEW x, x \notin S, NEW T, T = S \cup {x}
  PROVE  Cardinality(T) = Cardinality(S) + 1
  BY FS_AddElement

(* A record that is read is counted where it belongs, and nowhere else. *)
LEMMA ObserveCounts ==
  ASSUME Inductive, NEW id \in RecordId, NEW kind \in Kind, NEW ts \in Time,
         Observe(id, kind, ts)
  PROVE  BucketsCount'
<1>1. TypeOK /\ BucketsCount /\ Bounded
  BY DEF Inductive
<1> DEFINE end == BucketEnd(ts)
           candidate == Candidate(kind) /\ kind.safe
           groups == IF candidate THEN Registered(kind) ELSE {}
<1>2. PICK new \in Record :
        /\ new \notin observed
        /\ observed' = observed \cup {new}
        /\ new.ts = ts /\ new.kind = kind /\ new.due = due
        /\ new.groups = groups
        /\ new.rules = Attempted(kind)
  BY ObserveAdds
<1>3. due' = due
  BY DEF Observe
<1>4. /\ siteBuckets' = IF Denominator(kind) THEN Counted(siteBuckets, end)
                                             ELSE siteBuckets
      /\ attemptBuckets' = [group \in Group |->
                              IF group \in Attempted(kind)
                              THEN Counted(attemptBuckets[group], end)
                              ELSE attemptBuckets[group]]
  BY DEF Observe
<1>5. groupBuckets' = [group \in Group |->
                         IF group \in groups
                         THEN Counted(groupBuckets[group], end)
                         ELSE groupBuckets[group]]
  <2>1. CASE candidate
    BY <2>1 DEF Observe, ObserveCandidate
  <2>2. CASE ~candidate
    BY <1>1, <2>2 DEF Observe, TypeOK
  <2> QED
    BY <2>1, <2>2
<1> HIDE DEF end, candidate, groups
<1> SUFFICES ASSUME NEW bucket \in Bucket
             PROVE  /\ siteBuckets'[bucket] = Cardinality(SiteAt(bucket)')
                    /\ \A group \in Group :
                         /\ groupBuckets'[group][bucket] =
                              Cardinality(GroupAt(group, bucket)')
                         /\ attemptBuckets'[group][bucket] =
                              Cardinality(AttemptsAt(group, bucket)')
  BY DEF BucketsCount
<1>6. At(bucket)' = IF end = bucket THEN At(bucket) \cup {new} ELSE At(bucket)
  BY <1>2, <1>3, AtAfterObserve DEF end
<1>7. IsFiniteSet(At(bucket)) /\ new \notin At(bucket)
  BY <1>1, <1>2, FS_Subset DEF Bounded, At
<1>8. siteBuckets'[bucket] = Cardinality(SiteAt(bucket)')
  <2>1. siteBuckets[bucket] = Cardinality(SiteAt(bucket))
    BY <1>1 DEF BucketsCount
  <2>2. CASE Denominator(kind) /\ end = bucket
    <3>1. siteBuckets'[bucket] = siteBuckets[bucket] + 1
      BY <1>1, <1>4, <2>2 DEF Counted, TypeOK
    <3>2. SiteAt(bucket)' = SiteAt(bucket) \cup {new}
      BY <1>2, <1>6, <2>2 DEF SiteAt, Denominator
    <3>3. IsFiniteSet(SiteAt(bucket)) /\ new \notin SiteAt(bucket)
      BY <1>7, FS_Subset DEF SiteAt
    <3> QED
      BY <2>1, <3>1, <3>2, <3>3, OneMore
  <2>3. CASE ~(Denominator(kind) /\ end = bucket)
    <3>1. siteBuckets'[bucket] = siteBuckets[bucket]
      BY <1>1, <1>4, <2>3 DEF Counted, TypeOK
    <3>2. SiteAt(bucket)' = SiteAt(bucket)
      BY <1>2, <1>6, <2>3 DEF SiteAt, Denominator
    <3> QED
      BY <2>1, <3>1, <3>2
  <2> QED
    BY <2>2, <2>3
<1>9. ASSUME NEW group \in Group
      PROVE  groupBuckets'[group][bucket] = Cardinality(GroupAt(group, bucket)')
  <2>1. groupBuckets[group][bucket] = Cardinality(GroupAt(group, bucket))
    BY <1>1 DEF BucketsCount
  <2>2. CASE group \in groups /\ end = bucket
    <3>1. groupBuckets'[group][bucket] = groupBuckets[group][bucket] + 1
      BY <1>1, <1>5, <2>2 DEF Counted, TypeOK
    <3>2. GroupAt(group, bucket)' = GroupAt(group, bucket) \cup {new}
      BY <1>2, <1>6, <2>2 DEF GroupAt
    <3>3. IsFiniteSet(GroupAt(group, bucket)) /\ new \notin GroupAt(group, bucket)
      BY <1>7, FS_Subset DEF GroupAt
    <3> QED
      BY <2>1, <3>1, <3>2, <3>3, OneMore
  <2>3. CASE ~(group \in groups /\ end = bucket)
    <3>1. groupBuckets'[group][bucket] = groupBuckets[group][bucket]
      BY <1>1, <1>5, <2>3 DEF Counted, TypeOK
    <3>2. GroupAt(group, bucket)' = GroupAt(group, bucket)
      BY <1>2, <1>6, <2>3 DEF GroupAt
    <3> QED
      BY <2>1, <3>1, <3>2
  <2> QED
    BY <2>2, <2>3
<1>10. ASSUME NEW group \in Group
       PROVE  attemptBuckets'[group][bucket] =
                Cardinality(AttemptsAt(group, bucket)')
  <2>1. attemptBuckets[group][bucket] = Cardinality(AttemptsAt(group, bucket))
    BY <1>1 DEF BucketsCount
  <2>2. CASE group \in Attempted(kind) /\ end = bucket
    <3>1. attemptBuckets'[group][bucket] = attemptBuckets[group][bucket] + 1
      BY <1>1, <1>4, <2>2 DEF Counted, TypeOK
    <3>2. AttemptsAt(group, bucket)' = AttemptsAt(group, bucket) \cup {new}
      BY <1>2, <1>6, <2>2 DEF AttemptsAt
    <3>3. /\ IsFiniteSet(AttemptsAt(group, bucket))
          /\ new \notin AttemptsAt(group, bucket)
      BY <1>7, FS_Subset DEF AttemptsAt
    <3> QED
      BY <2>1, <3>1, <3>2, <3>3, OneMore
  <2>3. CASE ~(group \in Attempted(kind) /\ end = bucket)
    <3>1. attemptBuckets'[group][bucket] = attemptBuckets[group][bucket]
      BY <1>1, <1>4, <2>3 DEF Counted, TypeOK
    <3>2. AttemptsAt(group, bucket)' = AttemptsAt(group, bucket)
      BY <1>2, <1>6, <2>3 DEF AttemptsAt
    <3> QED
      BY <2>1, <3>1, <3>2
  <2> QED
    BY <2>2, <2>3
<1> QED
  BY <1>8, <1>9, <1>10

(* Registering a record's groups keeps the limit. *)
LEMMA RegisteredFits ==
  ASSUME NEW kind \in Kind, Cardinality(tracked) <= MaxTracked
  PROVE  /\ Registered(kind) \subseteq {kind.volume, kind.shape}
         /\ {kind.volume, kind.shape} \subseteq Group
         /\ Cardinality(tracked \cup Registered(kind)) <= MaxTracked
<1> DEFINE volume == {group \in {kind.volume} :
                        group \in tracked \/ Cardinality(tracked) < MaxTracked}
           shape == {group \in {kind.shape} :
                       \/ group \in tracked
                       \/ Cardinality(tracked \cup volume) < MaxTracked}
<1>1. Registered(kind) = volume \cup shape
  BY DEF Registered
<1>2. IsFiniteSet(tracked) /\ Cardinality(tracked) \in Nat
  BY GroupAssumption, FS_Subset, FS_CardinalityType DEF tracked
<1>3. /\ IsFiniteSet(tracked \cup volume)
      /\ Cardinality(tracked \cup volume) <= MaxTracked
  <2>1. CASE volume = {}
    BY <1>2, <2>1
  <2>2. CASE volume = {kind.volume}
    <3>1. kind.volume \in tracked \/ Cardinality(tracked) < MaxTracked
      BY <2>2
    <3> QED
      BY <1>2, <2>2, <3>1, FS_AddElement, WindowAssumption
  <2> QED
    BY <2>1, <2>2
<1>4. Cardinality(tracked \cup volume) \in Nat
  BY <1>3, FS_CardinalityType
<1>5. Cardinality((tracked \cup volume) \cup shape) <= MaxTracked
  <2>1. CASE shape = {}
    BY <1>3, <2>1
  <2>2. CASE shape = {kind.shape}
    <3>1. \/ kind.shape \in tracked
          \/ Cardinality(tracked \cup volume) < MaxTracked
      BY <2>2
    <3> DEFINE both == tracked \cup volume
    <3>2. both \cup shape = both \cup {kind.shape}
      BY <2>2
    <3>3. kind.shape \in both \/ Cardinality(both) < MaxTracked
      BY <3>1
    <3>4. IsFiniteSet(both) /\ Cardinality(both) \in Nat
            /\ Cardinality(both) <= MaxTracked
      BY <1>3, <1>4
    <3>5. MaxTracked \in Nat
      BY WindowAssumption
    <3> HIDE DEF both
    <3>6. Cardinality(both \cup {kind.shape}) <= MaxTracked
      <4>1. CASE kind.shape \in both
        <5>1. both \cup {kind.shape} = both
          BY <4>1
        <5> QED
          BY <3>4, <5>1
      <4>2. CASE kind.shape \notin both
        <5>1. Cardinality(both \cup {kind.shape}) = Cardinality(both) + 1
          BY <3>4, <4>2, FS_AddElement
        <5> QED
          BY <3>3, <3>4, <3>5, <4>2, <5>1
      <4> QED
        BY <4>1, <4>2
    <3> QED
      BY <3>2, <3>6 DEF both
  <2> QED
    BY <2>1, <2>2
<1>6. (tracked \cup volume) \cup shape = tracked \cup Registered(kind)
  BY <1>1
<1>7. {kind.volume, kind.shape} \subseteq Group
  BY KindAssumption, GroupAssumption
<1> QED
  BY <1>1, <1>5, <1>6, <1>7

(* Reading a record keeps the window in order. *)
LEMMA ObserveKeeps ==
  ASSUME Inductive, NEW id \in RecordId, NEW kind \in Kind, NEW ts \in Time,
         Observe(id, kind, ts)
  PROVE  Inductive'
<1>1. /\ TypeOK /\ Timeline /\ Bounded /\ BucketsCount
      /\ OnlyTracked /\ OnePrefix /\ OwnVolume /\ LimitReported
  BY DEF Inductive
<1> DEFINE end == BucketEnd(ts)
           candidate == Candidate(kind) /\ kind.safe
           groups == IF candidate THEN Registered(kind) ELSE {}
<1>2. PICK new \in Record :
        /\ observed' = observed \cup {new}
        /\ new.ts = ts /\ new.kind = kind /\ new.due = due
        /\ new.groups = groups
        /\ new.rules = Attempted(kind)
        /\ new.ts + Window > evaluated
        /\ IsFiniteSet(observed')
  BY ObserveAdds
<1>3. UNCHANGED <<clock, due, evaluated, appliedRules>> /\ fresh' = TRUE
  BY DEF Observe
<1>4. /\ groupBuckets' = [group \in Group |->
                            IF group \in groups
                            THEN Counted(groupBuckets[group], end)
                            ELSE groupBuckets[group]]
      /\ volumeOf' = [group \in Group |->
                        IF group \in groups \ tracked THEN kind.volume
                                                      ELSE volumeOf[group]]
      /\ unsafe' = unsafe \cup Mixed(kind, groups)
      /\ candidate => overflowed' = (overflowed \/ groups # {kind.volume, kind.shape})
      /\ ~candidate => UNCHANGED overflowed
  <2>1. CASE candidate
    BY <2>1 DEF Observe, ObserveCandidate
  <2>2. CASE ~candidate
    BY <1>1, <2>2 DEF Observe, TypeOK, Mixed
  <2> QED
    BY <2>1, <2>2
<1>5. /\ groups \subseteq {kind.volume, kind.shape}
      /\ {kind.volume, kind.shape} \subseteq Group
      /\ Cardinality(tracked \cup groups) <= MaxTracked
  BY <1>1, RegisteredFits DEF LimitReported
<1>6. end \in Bucket
  BY BucketEndIs
<1>7. candidate \in BOOLEAN
  BY KindAssumption DEF Candidate
<1>8. new.groups = groups /\ new.kind = kind
  BY <1>2
<1> HIDE DEF end, candidate, groups
<1>9. tracked' = tracked \cup groups
  <2>1. kind.volume # NoGroup
    BY <1>5, BoundAssumption
  <2> QED
    BY <1>4, <1>5, <2>1 DEF tracked
<1>10. TypeOK'
  <2>1. siteBuckets' \in [Bucket -> Nat]
    BY <1>1, <1>6 DEF TypeOK, Observe, Counted, end
  <2>2. groupBuckets' \in [Group -> [Bucket -> Nat]]
    BY <1>1, <1>4, <1>6 DEF TypeOK, Counted
  <2>3. attemptBuckets' \in [Group -> [Bucket -> Nat]]
    BY <1>1, <1>6 DEF TypeOK, Observe, Counted, end
  <2>4. volumeOf' \in [Group -> Group \cup {NoGroup}]
    BY <1>1, <1>4, <1>5 DEF TypeOK
  <2>5. unsafe' \subseteq tracked'
    BY <1>1, <1>4, <1>9 DEF TypeOK, Mixed
  <2>6. overflowed' \in BOOLEAN /\ fresh' \in BOOLEAN
    BY <1>1, <1>3, <1>4, <1>7 DEF TypeOK
  <2>7. observed' \subseteq Record
    BY <1>1, <1>2 DEF TypeOK, Record
  <2> QED
    BY <1>1, <1>3, <2>1, <2>2, <2>3, <2>4, <2>5, <2>6, <2>7
    DEF TypeOK, Record
<1>11. Timeline'
  <2>1. due \in Nat
    BY <1>1, BucketsAligned DEF Timeline
  <2>2. /\ due' \in Bucket
        /\ evaluated' < due'
        /\ evaluated' <= clock'
    BY <1>1, <1>3 DEF Timeline
  <2>3. ASSUME NEW record \in observed'
        PROVE  /\ record.due <= due'
               /\ record.due < due' => record.due <= evaluated'
               /\ record.ts + Window > evaluated'
    <3>1. CASE record = new
      BY <1>2, <1>3, <2>1, <3>1
    <3>2. CASE record \in observed
      BY <1>1, <1>3, <3>2 DEF Timeline
    <3> QED
      BY <1>2, <3>1, <3>2
  <2> QED
    BY <2>2, <2>3 DEF Timeline
<1>12. OnlyTracked'
  BY <1>1, <1>4, <1>9 DEF OnlyTracked
<1>13. OwnVolume'
  <2> SUFFICES ASSUME NEW other \in Kind, other.volume \in tracked'
               PROVE  volumeOf'[other.volume] = other.volume
    BY DEF OwnVolume
  <2>1. other.volume \in Group /\ other.volume # kind.shape
    BY KindAssumption, GroupAssumption
  <2>2. CASE other.volume \in groups \ tracked
    BY <1>4, <1>5, <2>1, <2>2
  <2>3. CASE other.volume \in tracked
    BY <1>1, <1>4, <2>1, <2>3 DEF OwnVolume
  <2> QED
    BY <1>9, <2>2, <2>3
<1>14. OnePrefix'
  <2> SUFFICES ASSUME NEW group \in tracked' \ unsafe', NEW bucket \in Bucket,
                      NEW record \in GroupAt(group, bucket)'
               PROVE  record.kind.volume = volumeOf'[group]
    BY DEF OnePrefix
  <2>1. group \in Group /\ group \notin unsafe /\ group \notin Mixed(kind, groups)
    BY <1>4 DEF tracked
  <2>2. record \in observed' /\ group \in record.groups
    BY DEF GroupAt, At
  <2>3. CASE record = new
    <3>1. group \in groups /\ record.kind = kind
      BY <1>8, <2>2, <2>3
    <3>2. CASE group \notin tracked
      BY <1>4, <2>1, <3>1, <3>2
    <3>3. CASE group \in tracked /\ group = kind.shape
      BY <1>4, <2>1, <3>1, <3>3 DEF Mixed
    <3>4. CASE group \in tracked /\ group = kind.volume
      BY <1>1, <1>4, <2>1, <3>1, <3>4 DEF OwnVolume
    <3> QED
      BY <1>5, <3>1, <3>2, <3>3, <3>4
  <2>4. CASE record # new
    <3>1. record \in GroupAt(group, bucket)
      BY <1>2, <1>3, <2>2, <2>4 DEF GroupAt, At, Held
    <3>2. group \in tracked
      <4>1. ASSUME group \notin tracked PROVE FALSE
        <5>1. groupBuckets[group][bucket] = 0
          BY <1>1, <2>1, <4>1 DEF OnlyTracked, NoCount
        <5>2. Cardinality(GroupAt(group, bucket)) = 0
          BY <1>1, <2>1, <5>1 DEF BucketsCount
        <5>3. IsFiniteSet(GroupAt(group, bucket))
          BY <1>1, FS_Subset DEF Bounded, GroupAt, At
        <5> QED
          BY <3>1, <5>2, <5>3, FS_EmptySet
      <4> QED
        BY <4>1
    <3> QED
      BY <1>1, <1>4, <2>1, <3>1, <3>2 DEF OnePrefix
  <2> QED
    BY <2>3, <2>4
<1>15. LimitReported'
  <2>1. Cardinality(tracked') <= MaxTracked
    BY <1>5, <1>9
  <2> DEFINE recent == {record \in observed : record.due = due}
  <2>2. recent' = recent \cup {new}
    BY <1>2, <1>3
  <2>3. ASSUME NEW record \in recent', Candidate(record.kind), record.kind.safe
        PROVE  \/ overflowed'
               \/ record.groups = {record.kind.volume, record.kind.shape}
    <3>1. CASE record = new
      <4>1. candidate
        BY <1>8, <2>3, <3>1 DEF candidate
      <4> QED
        BY <1>4, <1>8, <3>1, <4>1
    <3>2. CASE record \in recent
      <4>1. overflowed \/ record.groups = {record.kind.volume, record.kind.shape}
        BY <1>1, <2>3, <3>2 DEF LimitReported
      <4> QED
        BY <1>4, <1>7, <4>1
    <3> QED
      BY <2>2, <3>1, <3>2
  <2>4. fresh' /\ recent' # {}
    BY <1>3, <2>2
  <2> QED
    BY <2>1, <2>3, <2>4 DEF LimitReported
<1>16. BucketsCount'
  BY ObserveCounts
<1> QED
  BY <1>2, <1>10, <1>11, <1>12, <1>13, <1>14, <1>15, <1>16 DEF Inductive, Bounded

-----------------------------------------------------------------------------
(* Evaluating *)

(* An evaluation forgets a bucket and its records together: the edges of    *)
(* the window do not cut a bucket in two.                                   *)
LEMMA AtAfterEvaluate ==
  ASSUME TypeOK, Timeline, due' \in Bucket, due < due',
         observed' = {record \in observed : record.ts + Window > due},
         NEW bucket \in Bucket
  PROVE  At(bucket)' = IF InWindow(bucket, due) THEN At(bucket) ELSE {}
<1>1. /\ Interval \in Nat \ {0} /\ Window \in Nat
      /\ due \in Nat /\ bucket \in Nat /\ due' \in Nat
      /\ Aligned(due) /\ Aligned(bucket) /\ Aligned(bucket + Window)
  BY WindowAssumption, BucketsAligned DEF Timeline
<1>2. ASSUME NEW record \in observed, BucketEnd(record.ts) = bucket
      PROVE  /\ record.ts \in Nat /\ record.due \in Nat /\ record.due <= due
             /\ record.ts <= bucket /\ bucket < record.ts + Interval
  <2>1. record.ts \in Time /\ record.due \in Bucket
    BY DEF TypeOK
  <2>2. record.ts \in Nat
    BY <2>1 DEF Time
  <2> QED
    BY <1>2, <2>1, <2>2, BucketEndIs, BucketsAligned DEF Timeline
<1>3. CASE InWindow(bucket, due)
  <2>1. bucket + Window > due /\ bucket <= due
    BY <1>3 DEF InWindow
  <2>2. due + Interval <= bucket + Window
    BY <1>1, <2>1, Apart
  <2>3. ASSUME NEW record \in observed, BucketEnd(record.ts) = bucket
        PROVE  record.ts + Window > due /\ (Held(record)' <=> Held(record))
    BY <1>1, <1>2, <2>1, <2>2, <2>3 DEF Held
  <2>4. At(bucket)' = {r \in observed' : Held(r)' /\ BucketEnd(r.ts) = bucket}
    BY DEF At
  <2> QED
    BY <1>3, <2>3, <2>4 DEF At
<1>4. CASE ~InWindow(bucket, due)
  <2>1. ASSUME NEW record \in observed', BucketEnd(record.ts) = bucket,
               Held(record)'
        PROVE  FALSE
    <3>1. record \in observed /\ record.ts + Window > due
      OBVIOUS
    <3>2. record.ts <= due
      BY <1>1, <1>2, <2>1, <3>1 DEF Held
    <3>3. bucket + Window > due
      BY <1>1, <1>2, <2>1, <3>1
    <3>4. bucket > due
      BY <1>1, <1>4, <3>3 DEF InWindow
    <3>5. due + Interval <= bucket
      BY <1>1, <3>4, Apart
    <3> QED
      BY <1>1, <1>2, <2>1, <3>1, <3>2, <3>5
  <2>2. At(bucket)' = {r \in observed' : Held(r)' /\ BucketEnd(r.ts) = bucket}
    BY DEF At
  <2> QED
    BY <1>4, <2>1, <2>2
<1> QED
  BY <1>3, <1>4

(* An evaluation keeps the window in order. *)
LEMMA EvaluateKeeps ==
  ASSUME Inductive, NEW finished \in Time, NEW applied \in SUBSET Key,
         Evaluate(finished, applied)
  PROVE  Inductive'
<1>1. /\ TypeOK /\ Timeline /\ Bounded /\ BucketsCount
      /\ OnlyTracked /\ OnePrefix /\ OwnVolume /\ LimitReported
  BY DEF Inductive
<1>2. /\ clock >= due /\ finished >= clock
      /\ evaluated' = due /\ clock' = finished /\ due' = NextDue(finished)
      /\ appliedRules' = applied /\ fresh' = FALSE /\ overflowed' = FALSE
      /\ observed' = {record \in observed : record.ts + Window > due}
  BY DEF Evaluate
<1>3. /\ siteBuckets' = Pruned(siteBuckets, due)
      /\ groupBuckets' = [group \in Group |-> Pruned(groupBuckets[group], due)]
      /\ volumeOf' = [group \in Group |->
                        IF group \in Remaining(due) THEN volumeOf[group] ELSE NoGroup]
      /\ unsafe' = unsafe \cap Remaining(due)
      /\ attemptBuckets' = [group \in Group |-> Pruned(attemptBuckets[group], due)]
  BY DEF Evaluate, Prune
<1>4. /\ clock \in Nat /\ finished \in Nat /\ due \in Nat /\ due' \in Nat
      /\ due' \in Bucket /\ due < due'
  <2>1. due' \in Bucket /\ finished < due' /\ finished \in Nat /\ clock \in Nat
    BY <1>1, <1>2, NextDueIs DEF Time, TypeOK
  <2>2. due \in Nat /\ due' \in Nat
    BY <1>1, <2>1, BucketsAligned DEF Timeline
  <2> QED
    BY <1>2, <2>1, <2>2
<1>5. tracked' = Remaining(due) /\ Remaining(due) \subseteq tracked
  BY <1>3, BoundAssumption DEF tracked, Remaining
<1>6. TypeOK'
  <2>1. \A count \in [Bucket -> Nat] : Pruned(count, due) \in [Bucket -> Nat]
    BY DEF Pruned
  <2>2. /\ siteBuckets' \in [Bucket -> Nat]
        /\ groupBuckets' \in [Group -> [Bucket -> Nat]]
        /\ attemptBuckets' \in [Group -> [Bucket -> Nat]]
    BY <1>1, <1>3, <2>1 DEF TypeOK
  <2>3. volumeOf' \in [Group -> Group \cup {NoGroup}] /\ unsafe' \subseteq tracked'
    BY <1>1, <1>3, <1>5 DEF TypeOK
  <2>4. observed' \subseteq observed
    BY <1>2
  <2> QED
    BY <1>1, <1>2, <1>4, <2>2, <2>3, <2>4 DEF TypeOK, Timeline
<1>7. \A record \in observed' :
        /\ record \in observed /\ record.due \in Nat /\ record.due <= due
        /\ record.ts + Window > due
  <2>1. \A record \in observed : record.due \in Nat
    BY <1>1, BucketsAligned DEF TypeOK
  <2> QED
    BY <1>1, <1>2, <2>1 DEF Timeline
<1>8. Timeline'
  BY <1>2, <1>4, <1>7 DEF Timeline
<1>9. Bounded'
  BY <1>1, <1>2, FS_Subset DEF Bounded
<1>10. \A bucket \in Bucket :
         At(bucket)' = IF InWindow(bucket, due) THEN At(bucket) ELSE {}
  BY <1>1, <1>2, <1>4, AtAfterEvaluate
<1>11. BucketsCount'
  <2> SUFFICES ASSUME NEW bucket \in Bucket
               PROVE  /\ siteBuckets'[bucket] = Cardinality(SiteAt(bucket)')
                      /\ \A group \in Group :
                           /\ groupBuckets'[group][bucket] =
                                Cardinality(GroupAt(group, bucket)')
                           /\ attemptBuckets'[group][bucket] =
                                Cardinality(AttemptsAt(group, bucket)')
    BY DEF BucketsCount
  <2>1. CASE InWindow(bucket, due)
    <3>1. At(bucket)' = At(bucket)
      BY <1>10, <2>1
    <3>2. /\ SiteAt(bucket)' = SiteAt(bucket)
          /\ \A group \in Group : /\ GroupAt(group, bucket)' = GroupAt(group, bucket)
                                   /\ AttemptsAt(group, bucket)' = AttemptsAt(group, bucket)
      BY <3>1 DEF SiteAt, GroupAt, AttemptsAt, Denominator
    <3>3. /\ siteBuckets'[bucket] = siteBuckets[bucket]
          /\ \A group \in Group :
               /\ groupBuckets'[group][bucket] = groupBuckets[group][bucket]
               /\ attemptBuckets'[group][bucket] = attemptBuckets[group][bucket]
      BY <1>3, <2>1 DEF Pruned
    <3> QED
      BY <1>1, <3>2, <3>3 DEF BucketsCount
  <2>2. CASE ~InWindow(bucket, due)
    <3>1. At(bucket)' = {}
      BY <1>10, <2>2
    <3>2. /\ SiteAt(bucket)' = {}
          /\ \A group \in Group : GroupAt(group, bucket)' = {}
                                /\ AttemptsAt(group, bucket)' = {}
      BY <3>1 DEF SiteAt, GroupAt, AttemptsAt
    <3>3. /\ siteBuckets'[bucket] = 0
          /\ \A group \in Group : /\ groupBuckets'[group][bucket] = 0
                                /\ attemptBuckets'[group][bucket] = 0
      BY <1>3, <2>2 DEF Pruned
    <3> QED
      BY <3>2, <3>3, FS_EmptySet
  <2> QED
    BY <2>1, <2>2
<1>12. OnlyTracked'
  <2> SUFFICES ASSUME NEW group \in Group \ tracked'
               PROVE  groupBuckets'[group] = NoCount
    BY DEF OnlyTracked
  <2>1. groupBuckets'[group] = Pruned(groupBuckets[group], due)
    BY <1>3
  <2>2. CASE group \in tracked
    BY <1>5, <2>1, <2>2 DEF Remaining
  <2>3. CASE group \notin tracked
    BY <1>1, <2>1, <2>3 DEF OnlyTracked, Pruned, NoCount
  <2> QED
    BY <2>2, <2>3
<1>13. OnePrefix'
  <2> SUFFICES ASSUME NEW group \in tracked' \ unsafe', NEW bucket \in Bucket,
                      NEW record \in GroupAt(group, bucket)'
               PROVE  record.kind.volume = volumeOf'[group]
    BY DEF OnePrefix
  <2>1. group \in tracked \ unsafe /\ volumeOf'[group] = volumeOf[group]
    BY <1>3, <1>5 DEF tracked
  <2>2. record \in GroupAt(group, bucket)
    BY <1>10 DEF GroupAt
  <2> QED
    BY <1>1, <2>1, <2>2 DEF OnePrefix
<1>14. OwnVolume'
  <2> SUFFICES ASSUME NEW kind \in Kind, kind.volume \in tracked'
               PROVE  volumeOf'[kind.volume] = kind.volume
    BY DEF OwnVolume
  <2> QED
    BY <1>1, <1>3, <1>5 DEF OwnVolume, tracked
<1>15. LimitReported'
  <2>1. IsFiniteSet(tracked) /\ Cardinality(tracked) \in Nat
    BY GroupAssumption, FS_Subset, FS_CardinalityType DEF tracked
  <2>2. Cardinality(tracked') <= Cardinality(tracked) /\ Cardinality(tracked') \in Nat
    BY <1>5, <2>1, FS_Subset, FS_CardinalityType
  <2>3. Cardinality(tracked') <= MaxTracked
    BY <1>1, <2>1, <2>2, WindowAssumption DEF LimitReported
  <2>4. {record \in observed' : record.due = due'} = {}
    BY <1>4, <1>7
  <2> QED
    BY <1>2, <2>3, <2>4 DEF LimitReported
<1> QED
  BY <1>6, <1>8, <1>9, <1>11, <1>12, <1>13, <1>14, <1>15 DEF Inductive

-----------------------------------------------------------------------------
(* Time passing and the start *)

(* Nothing in the window depends on the time but the bounds of the clock. *)
LEMMA TickKeeps == ASSUME Inductive, Tick PROVE Inductive'
<1>1. /\ TypeOK /\ Timeline /\ Bounded /\ BucketsCount
      /\ OnlyTracked /\ OnePrefix /\ OwnVolume /\ LimitReported
  BY DEF Inductive
<1>2. /\ clock' = clock + 1 /\ clock < Horizon
      /\ UNCHANGED <<due, evaluated, siteBuckets, groupBuckets, volumeOf, unsafe,
                     attemptBuckets, appliedRules, fresh, overflowed, observed>>
  BY DEF Tick, buckets
<1>3. clock \in Nat /\ clock' \in Time
  BY <1>1, <1>2, WindowAssumption DEF TypeOK, Time
<1>4. tracked' = tracked
  BY <1>2 DEF tracked
<1>5. TypeOK'
  BY <1>1, <1>2, <1>3, <1>4 DEF TypeOK
<1>6. Timeline'
  <2>1. evaluated \in Nat
    <3>1. \A bucket \in Bucket : bucket \in Nat
      BY BucketsAligned
    <3> QED
      BY <1>1, <3>1 DEF TypeOK
  <2> QED
    BY <1>1, <1>2, <1>3, <2>1 DEF Timeline
<1>7. Bounded' /\ OnlyTracked' /\ OwnVolume' /\ LimitReported'
  BY <1>1, <1>2, <1>4 DEF Bounded, OnlyTracked, OwnVolume, LimitReported
<1>8. \A bucket : At(bucket)' = At(bucket)
  BY <1>2 DEF At, Held
<1>9. BucketsCount' /\ OnePrefix'
  BY <1>1, <1>2, <1>4, <1>8
  DEF BucketsCount, OnePrefix, SiteAt, GroupAt, AttemptsAt
<1> QED
  BY <1>5, <1>6, <1>7, <1>9 DEF Inductive

(* An empty window with the next evaluation in the future. *)
Empty ==
  /\ clock \in Time
  /\ due = NextDue(clock)
  /\ evaluated = 0
  /\ siteBuckets = NoCount
  /\ groupBuckets = [group \in Group |-> NoCount]
  /\ volumeOf = [group \in Group |-> NoGroup]
  /\ unsafe = {}
  /\ attemptBuckets = [group \in Group |-> NoCount]
  /\ appliedRules \subseteq Key
  /\ fresh = FALSE
  /\ overflowed = FALSE
  /\ observed = {}

(* A detector starts with an empty window. *)
LEMMA EmptyInductive == ASSUME Empty PROVE Inductive
<1>1. due \in Bucket /\ clock < due /\ clock \in Nat
  BY NextDueIs DEF Empty, Time
<1>2. \A bucket \in Bucket : bucket \in Nat
  BY BucketsAligned
<1>3. tracked = {}
  BY DEF Empty, tracked
<1>4. TypeOK
  BY <1>1, <1>3 DEF Empty, TypeOK, NoCount
<1>5. Timeline
  BY <1>1, <1>2 DEF Empty, Timeline
<1>6. Bounded
  BY FS_EmptySet DEF Empty, Bounded
<1>7. \A bucket : At(bucket) = {}
  BY DEF Empty, At
<1>8. BucketsCount
  <2>1. \A bucket : SiteAt(bucket) = {}
    BY <1>7 DEF SiteAt
  <2>2. \A group, bucket : GroupAt(group, bucket) = {} /\ AttemptsAt(group, bucket) = {}
    BY <1>7 DEF GroupAt, AttemptsAt
  <2> QED
    BY <2>1, <2>2, FS_EmptySet DEF BucketsCount, Empty, NoCount
<1>9. OnlyTracked
  BY DEF Empty, OnlyTracked
<1>10. OnePrefix /\ OwnVolume
  BY <1>3 DEF OnePrefix, OwnVolume
<1>11. LimitReported
  BY <1>3, FS_EmptySet, WindowAssumption DEF Empty, LimitReported
<1> QED
  BY <1>4, <1>5, <1>6, <1>8, <1>9, <1>10, <1>11 DEF Inductive

(* Whatever another watcher finds, it starts with an empty window. *)
LEMMA StartAgainKeeps ==
  ASSUME NEW start \in Time, NEW applied \in SUBSET Key, StartAgain(start, applied)
  PROVE  Inductive'
<1>1. Empty'
  BY DEF StartAgain, Empty, NoCount, NextDue
<1> QED
  BY <1>1, EmptyInductive, PTL

(* The first watcher starts like any other. *)
LEMMA InductiveInit == ASSUME Init PROVE Inductive
<1>1. 1 \in Time
  BY WindowAssumption DEF Time
<1>2. Empty
  BY <1>1 DEF Init, Empty
<1> QED
  BY <1>2, EmptyInductive

(* Every step keeps the window in order. *)
LEMMA InductiveStep == ASSUME Inductive, [Next]_vars PROVE Inductive'
<1>1. CASE Next
  BY <1>1, ObserveKeeps, EvaluateKeeps, StartAgainKeeps, TickKeeps DEF Next
<1>2. CASE UNCHANGED vars
  <2>1. \A bucket : At(bucket)' = At(bucket)
    BY <1>2 DEF At, Held, vars
  <2>2. BucketsCount' /\ OnePrefix'
    BY <1>2, <2>1 DEF Inductive, vars, BucketsCount, OnePrefix, SiteAt, GroupAt,
                      AttemptsAt, tracked
  <2> QED
    BY <1>2, <2>2 DEF vars, Inductive, TypeOK, Timeline, Bounded, OnlyTracked,
                      OwnVolume, LimitReported, tracked
<1> QED
  BY <1>1, <1>2

(* So the window is always in order. *)
LEMMA InductiveAlways == Spec => []Inductive
  BY InductiveInit, InductiveStep, PTL DEF Spec

-----------------------------------------------------------------------------
(* Sums over the window *)

(* The buckets the next evaluation adds up are finitely many. *)
LEMMA BucketsFinite == IsFiniteSet({bucket \in Bucket : InWindow(bucket, due)})
<1> DEFINE top == Interval * (Horizon \div Interval + 1)
<1>1. Interval \in Nat \ {0} /\ Horizon \div Interval \in Nat
  BY WindowAssumption, Quotient
<1>2. top \in Nat
  BY <1>1
<1>3. ASSUME NEW bucket \in Bucket PROVE bucket \in 0 .. top
  <2>1. PICK n \in 1 .. Horizon \div Interval + 1 : bucket = Interval * n
    BY DEF Bucket
  <2>2. n \in Nat /\ Horizon \div Interval + 1 \in Nat /\ n <= Horizon \div Interval + 1
    BY <1>1
  <2>3. n < Horizon \div Interval + 1 => Interval * n + Interval <= top
    BY <1>1, <2>2, Multiples
  <2>4. Interval * n \in Nat
    BY <1>1, <2>2
  <2> QED
    BY <1>1, <1>2, <2>1, <2>2, <2>3, <2>4
<1>4. {bucket \in Bucket : InWindow(bucket, due)} \in SUBSET (0 .. top)
  BY <1>3
<1>5. IsFiniteSet(0 .. top)
  BY <1>2, FS_Interval
<1> HIDE DEF top
<1> QED
  BY <1>4, <1>5, FS_Subset

(* A record is in scope if it is held in a bucket of the window. *)
LEMMA InScopeIs ==
  ASSUME Inductive, NEW record \in observed
  PROVE  InScope(record) <=> Held(record) /\ InWindow(BucketEnd(record.ts), due)
<1> DEFINE end == BucketEnd(record.ts)
<1>1. /\ record.ts \in Time /\ record.due \in Bucket /\ due \in Bucket
      /\ Interval \in Nat \ {0} /\ Window \in Nat
  BY WindowAssumption DEF Inductive, TypeOK, Timeline
<1>2. end \in Bucket /\ record.ts <= end /\ end < record.ts + Interval
  BY <1>1, BucketEndIs
<1>3. /\ end \in Nat /\ due \in Nat /\ record.due \in Nat /\ record.ts \in Nat
      /\ Aligned(end) /\ Aligned(end + Window) /\ Aligned(due)
  BY <1>1, <1>2, BucketsAligned DEF Time
<1> HIDE DEF end
<1>4. end + Window > due => end + Window >= due + Interval
  BY <1>1, <1>3, Apart
<1>5. end > due => end >= due + Interval
  BY <1>1, <1>3, Apart
<1>6. InWindow(end, due) <=> record.ts + Window > due /\ record.ts <= due
  BY <1>1, <1>2, <1>3, <1>4, <1>5 DEF InWindow
<1> QED
  BY <1>3, <1>6 DEF InScope, Held, end

(* If every bucket counts its records of a kind, the window counts those in *)
(* scope.                                                                   *)
LEMMA WindowCounts ==
  ASSUME Inductive, NEW count, NEW R \in SUBSET observed,
         \A bucket \in Bucket : count[bucket] = Cardinality(At(bucket) \cap R)
  PROVE  WindowSum(count) = Cardinality({record \in R : InScope(record)})
<1> DEFINE S == {bucket \in Bucket : InWindow(bucket, due)}
           Members == [bucket \in S |-> At(bucket) \cap R]
<1>1. IsFiniteSet(S)
  BY BucketsFinite
<1>2. IsFiniteSet(observed)
  BY DEF Inductive, Bounded
<1>3. \A bucket \in S : /\ Members[bucket] = At(bucket) \cap R
                        /\ IsFiniteSet(Members[bucket])
                        /\ count[bucket] = Cardinality(Members[bucket])
  BY <1>2, FS_Subset
<1>4. \A x, y \in S : x # y => Members[x] \cap Members[y] = {}
  BY <1>3 DEF At
<1>5. UNION {Members[bucket] : bucket \in S} = {record \in R : InScope(record)}
  <2>1. ASSUME NEW record \in R, InScope(record)
        PROVE  \E bucket \in S : record \in Members[bucket]
    <3>1. Held(record) /\ InWindow(BucketEnd(record.ts), due)
      BY <2>1, InScopeIs
    <3>2. BucketEnd(record.ts) \in Bucket
      BY BucketEndIs DEF Inductive, TypeOK
    <3> QED
      BY <3>1, <3>2 DEF At
  <2>2. ASSUME NEW bucket \in S, NEW record \in Members[bucket]
        PROVE  record \in R /\ InScope(record)
    BY InScopeIs DEF At
  <2> HIDE DEF Members, S
  <2> QED
    BY <2>1, <2>2
<1>6. WindowSum(count) = Sum(count, S)
  BY DEF WindowSum, Sum
<1> HIDE DEF Members, S
<1>7. Sum(count, S) = Cardinality(UNION {Members[bucket] : bucket \in S})
  BY <1>1, <1>3, <1>4, SumOfSizes
<1> QED
  BY <1>5, <1>6, <1>7

(* What the next evaluation adds up is what was read, tick by tick. *)
LEMMA WindowIsExact == ASSUME Inductive PROVE WindowExact
<1>1. BucketsCount
  BY DEF Inductive
<1>2. WindowSum(siteBuckets) =
        Cardinality({r \in observed : InScope(r) /\ Denominator(r.kind)})
  <2> DEFINE R == {r \in observed : Denominator(r.kind)}
  <2>1. \A bucket \in Bucket : SiteAt(bucket) = At(bucket) \cap R
    BY DEF SiteAt, At
  <2>2. \A bucket \in Bucket : siteBuckets[bucket] = Cardinality(At(bucket) \cap R)
    BY <1>1, <2>1 DEF BucketsCount
  <2>3. {r \in observed : InScope(r) /\ Denominator(r.kind)} = {r \in R : InScope(r)}
    OBVIOUS
  <2> HIDE DEF R
  <2>4. R \in SUBSET observed
    BY DEF R
  <2> QED
    BY <2>2, <2>3, <2>4, WindowCounts
<1>3. ASSUME NEW group \in Group
      PROVE  WindowSum(groupBuckets[group]) =
               Cardinality({r \in observed : InScope(r) /\ group \in r.groups})
  <2> DEFINE R == {r \in observed : group \in r.groups}
             count == groupBuckets[group]
  <2>1. \A bucket \in Bucket : GroupAt(group, bucket) = At(bucket) \cap R
    BY DEF GroupAt, At
  <2>2. \A bucket \in Bucket : count[bucket] = Cardinality(At(bucket) \cap R)
    BY <1>1, <2>1 DEF BucketsCount
  <2>3. {r \in observed : InScope(r) /\ group \in r.groups} = {r \in R : InScope(r)}
    OBVIOUS
  <2>4. R \in SUBSET observed
    OBVIOUS
  <2> HIDE DEF R, count
  <2>5. WindowSum(count) = Cardinality({r \in R : InScope(r)})
    BY <2>2, <2>4, WindowCounts
  <2> QED
    BY <2>3, <2>5 DEF count
<1>4. ASSUME NEW group \in Group
      PROVE  WindowSum(attemptBuckets[group]) =
               Cardinality({r \in observed : InScope(r) /\ group \in r.rules})
  <2> DEFINE R == {r \in observed : group \in r.rules}
             count == attemptBuckets[group]
  <2>1. \A bucket \in Bucket : AttemptsAt(group, bucket) = At(bucket) \cap R
    BY DEF AttemptsAt, At
  <2>2. \A bucket \in Bucket : count[bucket] = Cardinality(At(bucket) \cap R)
    BY <1>1, <2>1 DEF BucketsCount
  <2>3. {r \in observed : InScope(r) /\ group \in r.rules} = {r \in R : InScope(r)}
    OBVIOUS
  <2>4. R \in SUBSET observed
    OBVIOUS
  <2> HIDE DEF R, count
  <2>5. WindowSum(count) = Cardinality({r \in R : InScope(r)})
    BY <2>2, <2>4, WindowCounts
  <2> QED
    BY <2>3, <2>5 DEF count
<1> QED
  BY <1>2, <1>3, <1>4 DEF WindowExact

-----------------------------------------------------------------------------
(* The theorems *)

(* The variables of the window keep their types. *)
THEOREM WindowTypeCorrect == Spec => []TypeOK
<1>1. Inductive => TypeOK
  BY DEF Inductive
<1> QED
  BY InductiveAlways, <1>1, PTL

(* Every bucket of the site, of a group and of a rule counts exactly the    *)
(* records that fall into it and are not pruned, through any number of      *)
(* skipped and late evaluations.                                            *)
THEOREM BucketsCountAlways == Spec => []BucketsCount
<1>1. Inductive => BucketsCount
  BY DEF Inductive
<1> QED
  BY InductiveAlways, <1>1, PTL

(* What the next evaluation adds up, of the site, of a group since it is    *)
(* tracked and of a rule while it is applied, is exactly the records of the *)
(* window: although counts are kept in whole intervals, evaluations come    *)
(* late or never, and groups are forgotten to make room for others.         *)
THEOREM WindowExactAlways == Spec => []WindowExact
<1>1. Inductive => WindowExact
  BY WindowIsExact
<1> QED
  BY InductiveAlways, <1>1, PTL

(* An action on the prefix of a group hits that group, although the prefix  *)
(* of a shape is the first it was seen under and groups are forgotten.      *)
THEOREM ActionFitsGroupAlways == Spec => []ActionFitsGroup
<1>1. Inductive => ActionFitsGroup
  <2> SUFFICES ASSUME Inductive, NEW group \in tracked \ unsafe,
                      NEW record \in observed, InScope(record),
                      group \in record.groups
               PROVE  record.kind.volume = volumeOf[group]
    BY DEF ActionFitsGroup
  <2>1. record.ts \in Time
    BY DEF Inductive, TypeOK
  <2>2. BucketEnd(record.ts) \in Bucket
    BY <2>1, BucketEndIs
  <2>3. record \in GroupAt(group, BucketEnd(record.ts))
    BY DEF GroupAt, At, Held, InScope
  <2> QED
    BY <2>2, <2>3 DEF Inductive, OnePrefix
<1> QED
  BY InductiveAlways, <1>1, PTL

(* The limit on groups holds and what it leaves out is reported. *)
THEOREM LimitReportedAlways == Spec => []LimitReported
<1>1. Inductive => LimitReported
  BY DEF Inductive
<1> QED
  BY InductiveAlways, <1>1, PTL

-----------------------------------------------------------------------------
(* The detector *)

(* The prefix of a tracked group is one of its records'. *)
ClaimsKnown == \A group \in tracked : <<group, volumeOf[group]>> \in Claim

(* What is applied is a set of actions. *)
LEMMA AppliedAreActions ==
  ASSUME appliedRules \subseteq Key,
         \/ \E time, qualified, attempted, allowed :
              Book!EvaluateWith(time, qualified, attempted, allowed)
         \/ \E time : Book!Restart(time)
  PROVE  appliedRules' \in SUBSET Key
<1>1. ASSUME NEW time, NEW qualified, NEW attempted, NEW allowed,
             Book!EvaluateWith(time, qualified, attempted, allowed)
      PROVE  appliedRules' \in SUBSET Key
  BY <1>1 DEF Book!EvaluateWith, Book!MarkApplied, Book!ApplyFailed
<1>2. ASSUME NEW time, Book!Restart(time) PROVE appliedRules' \in SUBSET Key
  BY <1>2 DEF Book!Restart, Book!Active
<1> QED
  BY <1>1, <1>2

-----------------------------------------------------------------------------
(* The rolling window *)

(* A step of the detector is a step of its window, or none. *)
LEMMA WindowStep ==
  ASSUME TypeOK, [DetectorNext]_detectorVars
  PROVE  [Next]_vars
<1>1. appliedRules \subseteq Key
  BY DEF TypeOK
<1>2. CASE DetectorEvaluate
  <2>1. PICK finished \in Time : Evaluate(finished, appliedRules')
    BY <1>2 DEF DetectorEvaluate
  <2>2. appliedRules' \in SUBSET Key
    BY <1>1, <1>2, AppliedAreActions DEF DetectorEvaluate
  <2> QED
    BY <2>1, <2>2 DEF Next
<1>3. ASSUME NEW start \in Time, DetectorRestart(start) PROVE Next
  <2>1. StartAgain(start, appliedRules') /\ Book!Restart(start)
    BY <1>3 DEF DetectorRestart
  <2>2. appliedRules' \in SUBSET Key
    BY <1>1, <2>1, AppliedAreActions
  <2> QED
    BY <2>1, <2>2 DEF Next
<1>4. CASE DetectorObserve
  BY <1>4 DEF DetectorObserve, Next
<1>5. CASE Tick /\ UNCHANGED bookVars
  BY <1>5 DEF Next
<1>6. CASE UNCHANGED detectorVars
  BY <1>6 DEF detectorVars
<1> QED
  BY <1>2, <1>3, <1>4, <1>5, <1>6 DEF DetectorNext

(* The detector implements the rolling window: whatever the rule book       *)
(* decides, its sums are the ones proved of the window alone.               *)
THEOREM DetectorImplementsWindow == DetectorSpec => Spec
<1>1. DetectorInit => Init
  BY DEF DetectorInit
<1>2. Init => Inductive
  BY InductiveInit
<1>3. Inductive /\ [DetectorNext]_detectorVars => [Next]_vars
  BY WindowStep DEF Inductive
<1>4. Inductive /\ [Next]_vars => Inductive'
  BY InductiveStep
<1> QED
  BY <1>1, <1>2, <1>3, <1>4, PTL DEF DetectorSpec, Spec

-----------------------------------------------------------------------------
(* The rule book *)

(* Both groups of a record may propose its prefix. *)
LEMMA ObserveKnown ==
  ASSUME TypeOK, ClaimsKnown, NEW kind \in Kind, NEW id \in RecordId, NEW ts \in Time,
         Observe(id, kind, ts)
  PROVE  ClaimsKnown'
<1> DEFINE groups == IF Candidate(kind) /\ kind.safe THEN Registered(kind) ELSE {}
<1>1. volumeOf' = [group \in Group |->
                     IF group \in groups \ tracked THEN kind.volume
                                                   ELSE volumeOf[group]]
  BY DEF Observe, ObserveCandidate, TypeOK
<1>2. groups \subseteq {kind.volume, kind.shape}
  BY DEF Registered
<1> HIDE DEF groups
<1> SUFFICES ASSUME NEW group \in tracked' PROVE <<group, volumeOf'[group]>> \in Claim
  BY DEF ClaimsKnown
<1>3. group \in Group /\ volumeOf'[group] # NoGroup
  BY DEF tracked
<1>4. CASE group \in groups \ tracked
  BY <1>1, <1>2, <1>3, <1>4, ClaimAssumption
<1>5. CASE group \notin groups \ tracked
  <2>1. volumeOf'[group] = volumeOf[group] /\ group \in tracked
    BY <1>1, <1>3, <1>5 DEF tracked
  <2> QED
    BY <2>1 DEF ClaimsKnown
<1> QED
  BY <1>4, <1>5

(* What a tracked group proposes stays known. *)
LEMMA ClaimsKnownStep ==
  ASSUME TypeOK, ClaimsKnown, [Next]_vars
  PROVE  ClaimsKnown'
<1>1. ASSUME NEW finished, NEW applied, Evaluate(finished, applied)
      PROVE  ClaimsKnown'
  <2>1. volumeOf' = [group \in Group |->
                       IF group \in Remaining(due) THEN volumeOf[group] ELSE NoGroup]
    BY <1>1 DEF Evaluate, Prune
  <2>2. \A group \in tracked' : group \in tracked /\ volumeOf'[group] = volumeOf[group]
    BY <2>1 DEF tracked, Remaining
  <2> QED
    BY <2>2 DEF ClaimsKnown
<1>2. ASSUME NEW start, NEW applied, StartAgain(start, applied)
      PROVE  ClaimsKnown'
  BY <1>2 DEF StartAgain, ClaimsKnown, tracked
<1>3. CASE UNCHANGED volumeOf
  BY <1>3 DEF ClaimsKnown, tracked
<1>4. CASE Tick
  BY <1>3, <1>4 DEF Tick, buckets
<1>5. CASE UNCHANGED vars
  BY <1>3, <1>5 DEF vars
<1> QED
  BY <1>1, <1>2, <1>4, <1>5, ObserveKnown DEF Next

(* Sizes of sets are the same in both instances of the rule book. *)
LEMMA SameCardinality == \A S : Book!Cardinality(S) = Rules!Cardinality(S)
  BY DEF Book!Cardinality, Rules!Cardinality

(* The rule book that is proved about is the detector's. *)
LEMMA SameBook ==
  ASSUME NEW time, NEW qualified, NEW attempted, NEW allowed,
         Book!EvaluateWith(time, qualified, attempted, allowed)
  PROVE  Rules!EvaluateWith(time, qualified, attempted, allowed)
<1>1. Book!StreakAfter(qualified, allowed) = Rules!StreakAfter(qualified, allowed)
  BY DEF Book!StreakAfter, Rules!StreakAfter
<1>2. Book!Active = Rules!Active
  BY DEF Book!Active, Rules!Active
<1>3. Book!Proposed(consecutive') = Rules!Proposed(consecutive')
  BY DEF Book!Proposed, Rules!Proposed, Book!KeyOf, Rules!KeyOf
<1>4. \A proposed : Book!Admitted(proposed) = Rules!Admitted(proposed)
  BY <1>2, SameCardinality DEF Book!Admitted, Rules!Admitted
<1>5. \A proposed : Book!Refreshed(proposed, attempted, allowed) =
                      Rules!Refreshed(proposed, attempted, allowed)
  BY <1>2 DEF Book!Refreshed, Rules!Refreshed
<1>6. \A new, refreshed : Book!UpdatedRules(time, new, refreshed) =
                            Rules!UpdatedRules(time, new, refreshed)
  BY DEF Book!UpdatedRules, Rules!UpdatedRules, Book!NewRule, Rules!NewRule,
         Book!RefreshedRule, Rules!RefreshedRule, Book!KeptUntilExpiry,
         Rules!KeptUntilExpiry
<1>7. \A desired : /\ Book!ApplyNow(time, desired) <=> Rules!ApplyNow(time, desired)
                   /\ Book!MarkApplied(time, desired) <=> Rules!MarkApplied(time, desired)
                   /\ Book!ApplyFailed <=> Rules!ApplyFailed
  BY DEF Book!ApplyNow, Rules!ApplyNow, Book!RulesEqual, Rules!RulesEqual,
         Book!RuleRemoved, Rules!RuleRemoved, Book!MarkApplied, Rules!MarkApplied,
         Book!ApplyFailed, Rules!ApplyFailed
<1> QED
  BY <1>1, <1>3, <1>4, <1>5, <1>6, <1>7 DEF Book!EvaluateWith, Rules!EvaluateWith

(* A step of the detector is a step of its rule book, or none. *)
LEMMA RuleBookStep ==
  ASSUME TypeOK, Timeline, ClaimsKnown, [DetectorNext]_detectorVars
  PROVE  [Rules!Next]_(Rules!vars)
<1>1. CASE DetectorEvaluate
  <2>1. PICK costly \in SUBSET (Above \cap Shape), allowed \in {fresh, FALSE} :
          Book!EvaluateWith(due, Qualified(costly), StillAttempted, allowed)
    BY <1>1 DEF DetectorEvaluate
  <2>2. Qualified(costly) \in SUBSET Claim
    BY DEF Qualified, Above, ClaimsKnown
  <2>3. StillAttempted \in SUBSET Key /\ allowed \in BOOLEAN
    BY DEF StillAttempted, TypeOK
  <2>4. due \in Rules!Time
    <3>1. clock \in Nat /\ clock <= Horizon /\ clock >= due /\ due \in Nat
      BY <1>1, BucketsAligned, WindowAssumption
      DEF DetectorEvaluate, TypeOK, Time, Timeline
    <3> QED
      BY <3>1, WindowAssumption DEF Rules!Time
  <2>5. Rules!EvaluateWith(due, Qualified(costly), StillAttempted, allowed)
    BY <2>1, SameBook
  <2> QED
    BY <2>2, <2>3, <2>4, <2>5 DEF Rules!Next, Rules!Evaluate
<1>2. ASSUME NEW start \in Time, DetectorRestart(start) PROVE Rules!Next
  <2>1. Book!Restart(start)
    BY <1>2 DEF DetectorRestart
  <2>2. Rules!Restart(start)
    BY <2>1 DEF Book!Restart, Rules!Restart, Book!Active, Rules!Active
  <2>3. start \in Rules!Time
    BY WindowAssumption DEF Time, Rules!Time
  <2> QED
    BY <2>2, <2>3 DEF Rules!Next
<1>3. CASE DetectorObserve
  BY <1>3 DEF DetectorObserve, Observe, bookVars, Rules!vars
<1>4. CASE Tick /\ UNCHANGED bookVars
  BY <1>4 DEF Tick, bookVars, Rules!vars
<1>5. CASE UNCHANGED detectorVars
  BY <1>5 DEF detectorVars, vars, bookVars, Rules!vars
<1> QED
  BY <1>1, <1>2, <1>3, <1>4, <1>5 DEF DetectorNext

(* What is known of the window is enough for the rule book. *)
LEMMA Refinement == DetectorSpec => Spec /\ []ClaimsKnown /\ Rules!Spec
<1>1. DetectorInit => Init /\ Inductive /\ ClaimsKnown
  BY InductiveInit DEF DetectorInit, Init, ClaimsKnown, tracked
<1>2. DetectorInit => Rules!Init
  BY SameCardinality
  DEF DetectorInit, Book!Init, Rules!Init, Book!Inheritable, Rules!Inheritable,
         Book!Active, Rules!Active
<1>3. Inductive /\ ClaimsKnown /\ [DetectorNext]_detectorVars =>
        /\ [Next]_vars
        /\ [Rules!Next]_(Rules!vars)
        /\ Inductive'
        /\ ClaimsKnown'
  BY WindowStep, RuleBookStep, InductiveStep, ClaimsKnownStep DEF Inductive
<1> QED
  BY <1>1, <1>2, <1>3, PTL DEF DetectorSpec, Spec, Rules!Spec

(* The detector implements the rule book, for any window: what it is told   *)
(* to qualify is a claim it knows, and evaluations are in order.            *)
THEOREM DetectorImplementsRuleBook == DetectorSpec => Rules!Spec
  BY Refinement, PTL

(* The assumptions of the rule book are the detector's. *)
LEMMA RulesAssumed == Rules!IsFiniteSet(Group) /\ NoRule \notin Rules!Rule
  BY GroupAssumption DEF Rules!IsFiniteSet, IsFiniteSet, Rules!Rule, Rule

-----------------------------------------------------------------------------
(* Evidence *)

(* Only a candidate is counted in a group. *)
OnlyCandidates ==
  \A record \in observed : record.groups # {} => Candidate(record.kind)

(* Whatever happens, only candidates are. *)
LEMMA OnlyCandidatesAlways == Spec => []OnlyCandidates
<1>1. Init => OnlyCandidates
  BY DEF Init, OnlyCandidates
<1>2. ASSUME Inductive, OnlyCandidates, [Next]_vars PROVE OnlyCandidates'
  <2>1. ASSUME NEW id \in RecordId, NEW kind \in Kind, NEW ts \in Time,
               Observe(id, kind, ts)
        PROVE  OnlyCandidates'
    <3>1. PICK new \in Record :
            /\ observed' = observed \cup {new}
            /\ new.kind = kind
            /\ new.groups = IF Candidate(kind) /\ kind.safe THEN Registered(kind)
                                                           ELSE {}
      BY <1>2, <2>1, ObserveAdds
    <3> QED
      BY <1>2, <3>1 DEF OnlyCandidates, Candidate
  <2>2. CASE observed' \subseteq observed
    BY <1>2, <2>2 DEF OnlyCandidates, Candidate
  <2>3. ASSUME NEW finished, NEW applied,
               Evaluate(finished, applied) \/ StartAgain(finished, applied)
        PROVE  OnlyCandidates'
    BY <2>2, <2>3 DEF Evaluate, StartAgain
  <2>4. CASE Tick
    BY <2>2, <2>4 DEF Tick
  <2>5. CASE UNCHANGED vars
    BY <2>2, <2>5 DEF vars
  <2> QED
    BY <1>2, <2>1, <2>3, <2>4, <2>5 DEF Next
<1> QED
  BY <1>1, <1>2, InductiveAlways, PTL DEF Spec

(* Of a finite set of records, those of a smaller kind are fewer. *)
LEMMA FewerRecords ==
  ASSUME IsFiniteSet(observed), NEW T \in SUBSET observed, NEW R \in SUBSET T
  PROVE  Cardinality(R) <= Cardinality(T) /\ Cardinality(R) \in Nat /\ Cardinality(T) \in Nat
<1>1. IsFiniteSet(T)
  BY FS_Subset
<1> QED
  BY <1>1, FS_Subset, FS_CardinalityType

(* A group that qualifies has the requests for it, on the prefix it proposes. *)
LEMMA QualifiedHasRequests ==
  ASSUME Inductive, WindowExact, ActionFitsGroup, OnlyCandidates,
         NEW costly \in SUBSET (Above \cap Shape), NEW claim \in Qualified(costly)
  PROVE  Cardinality({record \in Seen : /\ Candidate(record.kind)
                                        /\ record.kind.volume = claim[2]}) >= Threshold
<1>1. PICK group \in Above : claim = <<group, volumeOf[group]>>
  BY DEF Qualified
<1>2. /\ group \in tracked \ unsafe /\ group \in Group
      /\ WindowSum(groupBuckets[group]) >= Threshold
  BY DEF Above, RequestsOf, tracked
<1> DEFINE R == {record \in observed : InScope(record) /\ group \in record.groups}
           T == {record \in Seen : /\ Candidate(record.kind)
                                   /\ record.kind.volume = claim[2]}
<1>3. WindowSum(groupBuckets[group]) = Cardinality(R)
  BY <1>2 DEF WindowExact
<1>4. claim[2] = volumeOf[group]
  BY <1>1
<1>5. R \in SUBSET T
  <2> SUFFICES ASSUME NEW record \in R PROVE record \in T
    OBVIOUS
  <2>1. record \in Seen /\ Candidate(record.kind)
    BY DEF OnlyCandidates, Seen
  <2>2. record.kind.volume = volumeOf[group]
    BY <1>2 DEF ActionFitsGroup
  <2> QED
    BY <1>4, <2>1, <2>2
<1>6. T \in SUBSET observed /\ IsFiniteSet(observed)
  BY DEF Seen, Inductive, Bounded
<1> HIDE DEF R, T
<1>7. Cardinality(R) <= Cardinality(T) /\ Cardinality(R) \in Nat /\ Cardinality(T) \in Nat
  BY <1>5, <1>6, FewerRecords
<1>8. Cardinality(T) >= Threshold
  BY <1>2, <1>3, <1>7, ThresholdAssumption
<1> QED
  BY <1>8 DEF T

(* What is proposed qualified at this very evaluation. *)
LEMMA ProposedQualifies ==
  ASSUME NEW qualified, NEW allowed, consecutive' = Book!StreakAfter(qualified, allowed),
         NEW key \in Book!Proposed(consecutive')
  PROVE  \E claim \in qualified : claim[2] = key
<1>1. PICK claim \in Claim : consecutive'[claim] = Required /\ key = claim[2]
  BY DEF Book!Proposed, Book!KeyOf
<1>2. Required # 0
  BY WindowAssumption
<1>3. claim \in qualified
  BY <1>1, <1>2 DEF Book!StreakAfter
<1> QED
  BY <1>1, <1>3

(* An evaluation activates or extends a rule on evidence only. *)
LEMMA EvaluateOnEvidence ==
  ASSUME Inductive, WindowExact, ActionFitsGroup, OnlyCandidates,
         DetectorEvaluate, NEW key \in Key, rules'[key] \notin {NoRule, rules[key]}
  PROVE  \/ Cardinality({record \in Seen : /\ Candidate(record.kind)
                                          /\ record.kind.volume = key}) >= Threshold
         \/ /\ rules[key] # NoRule
            /\ Cardinality({record \in Seen : key \in record.rules}) >= Threshold
<1>1. PICK costly \in SUBSET (Above \cap Shape), allowed \in {fresh, FALSE} :
        Book!EvaluateWith(due, Qualified(costly), StillAttempted, allowed)
  BY DEF DetectorEvaluate
<1>2. consecutive' = Book!StreakAfter(Qualified(costly), allowed)
  BY <1>1 DEF Book!EvaluateWith
<1>3. PICK new \in Book!Admitted(Book!Proposed(consecutive')) :
        rules' = Book!UpdatedRules(due, new,
                   Book!Refreshed(Book!Proposed(consecutive'), StillAttempted, allowed))
  BY <1>1 DEF Book!EvaluateWith
<1> DEFINE refreshed ==
      Book!Refreshed(Book!Proposed(consecutive'), StillAttempted, allowed)
<1>4. key \in new \/ key \in refreshed
  BY <1>3 DEF Book!UpdatedRules, Book!KeptUntilExpiry
<1>5. new \subseteq Book!Proposed(consecutive')
  BY DEF Book!Admitted
<1>6. CASE key \in Book!Proposed(consecutive')
  <2>1. PICK claim \in Qualified(costly) : claim[2] = key
    BY <1>2, <1>6, ProposedQualifies
  <2> QED
    BY <2>1, QualifiedHasRequests
<1>7. CASE key \in StillAttempted /\ key \in Book!Active
  <2>1. WindowSum(attemptBuckets[key]) >= Threshold /\ rules[key] # NoRule
    BY <1>7 DEF StillAttempted, Book!Active
  <2>2. WindowSum(attemptBuckets[key]) =
          Cardinality({record \in observed : InScope(record) /\ key \in record.rules})
    BY GroupAssumption DEF WindowExact
  <2>3. {record \in observed : InScope(record) /\ key \in record.rules} =
          {record \in Seen : key \in record.rules}
    BY DEF Seen
  <2> QED
    BY <2>1, <2>2, <2>3
<1> QED
  BY <1>4, <1>5, <1>6, <1>7 DEF Book!Refreshed

-----------------------------------------------------------------------------
(* The theorems *)

(* The variables of window and rule book together keep their types. *)
THEOREM DetectorTypeCorrect == DetectorSpec => []DetectorTypeOK
<1>1. Rules!Spec => []Rules!TypeOK
  BY RulesAssumed, Rules!RuleBookTypeCorrect, WindowAssumption, DetectorAssumption,
     GroupAssumption
<1>2. Rules!TypeOK => Book!TypeOK
  BY DEF Rules!TypeOK, Book!TypeOK, Rules!Rule, Book!Rule
<1> QED
  BY <1>1, <1>2, Refinement, WindowTypeCorrect, PTL DEF DetectorTypeOK

(* Every rule ends one TTL after its last qualification, whichever records  *)
(* are read and whichever evaluations are late or skipped.                  *)
THEOREM DetectorSlidingLifetime == DetectorSpec => []SlidingLifetime
<1>1. Rules!Spec => []Rules!SlidingLifetime
  BY RulesAssumed, Rules!SlidingLifetimeAlways, WindowAssumption,
     DetectorAssumption, GroupAssumption
<1>2. Rules!SlidingLifetime => SlidingLifetime
  BY DEF SlidingLifetime, Book!SlidingLifetime, Rules!SlidingLifetime,
         Book!Active, Rules!Active
<1> QED
  BY <1>1, <1>2, Refinement, PTL

(* The configured number of rules is never exceeded, however many groups    *)
(* are tracked and qualify.                                                 *)
THEOREM DetectorWithinCapacity == DetectorSpec => []WithinCapacity
<1>1. Rules!Spec => []Rules!WithinCapacity
  BY RulesAssumed, Rules!WithinCapacityAlways, WindowAssumption,
     DetectorAssumption, GroupAssumption
<1>2. Rules!WithinCapacity => WithinCapacity
  BY SameCardinality
  DEF WithinCapacity, Book!WithinCapacity, Rules!WithinCapacity, Book!Active,
      Rules!Active
<1> QED
  BY <1>1, <1>2, Refinement, PTL

(* Unless its apply has just failed, Nginx has no rule the detector has     *)
(* dropped, and waits less than the reload interval for a new one.          *)
THEOREM DetectorApplyIsPrompt == DetectorSpec => []ApplyIsPrompt
<1>1. Rules!Spec => []Rules!ApplyIsPrompt
  BY RulesAssumed, Rules!ApplyIsPromptAlways, WindowAssumption,
     DetectorAssumption, GroupAssumption
<1>2. Rules!ApplyIsPrompt => ApplyIsPrompt
  BY DEF ApplyIsPrompt, Book!ApplyIsPrompt, Rules!ApplyIsPrompt, Book!Active,
         Rules!Active
<1> QED
  BY <1>1, <1>2, Refinement, PTL

(* What qualifies can be acted on: the action proposed for a group is on    *)
(* the prefix of all its requests in the window.                            *)
THEOREM DetectorActionFitsGroup == DetectorSpec => []ActionFitsGroup
  BY Refinement, ActionFitsGroupAlways, PTL

(* The detector as a whole drops a rule at its expiry only. *)
THEOREM DetectorOnlyExpiryDrops == DetectorSpec => OnlyExpiryDrops
<1>1. Rules!Spec => Rules!OnlyExpiryDrops
  BY RulesAssumed, Rules!OnlyExpiryDropsAlways,
     WindowAssumption, DetectorAssumption, GroupAssumption
<1>2. Rules!OnlyExpiryDrops => OnlyExpiryDrops
  BY DEF Rules!OnlyExpiryDrops, OnlyExpiryDrops, Book!OnlyExpiryDrops, Rules!Active,
         Book!Active, Rules!vars, Book!vars
<1> QED
  BY <1>1, <1>2, Refinement, PTL

(* The detector as a whole activates a rule after a streak of evaluations   *)
(* only.                                                                    *)
THEOREM DetectorActivationTakesAStreak == DetectorSpec => ActivationTakesAStreak
<1>1. Rules!Spec => Rules!ActivationTakesAStreak
  BY RulesAssumed, Rules!ActivationTakesAStreakAlways,
     WindowAssumption, DetectorAssumption, GroupAssumption
<1>2. Rules!ActivationTakesAStreak => ActivationTakesAStreak
  BY DEF Rules!ActivationTakesAStreak, ActivationTakesAStreak,
         Book!ActivationTakesAStreak, Rules!KeyOf, Book!KeyOf, Rules!vars, Book!vars
<1> QED
  BY <1>1, <1>2, Refinement, PTL

(* The window as a whole detector keeps it is exact, too. *)
THEOREM DetectorWindowExact == DetectorSpec => []WindowExact
  BY Refinement, WindowExactAlways, PTL

(* A rule is activated or extended only on evidence of the last window,     *)
(* record by record: enough requests under its own prefix, or enough        *)
(* attempts against it while it was applied.                                *)
THEOREM DetectorRulesHaveEvidence == DetectorSpec => RulesHaveEvidence
<1> DEFINE A ==
      \A key \in Key :
        rules'[key] \notin {NoRule, rules[key]} =>
          \/ Cardinality({record \in Seen : /\ Candidate(record.kind)
                                           /\ record.kind.volume = key}) >= Threshold
          \/ /\ rules[key] # NoRule
             /\ Cardinality({record \in Seen : key \in record.rules}) >= Threshold
<1>1. ASSUME Inductive, WindowExact, ActionFitsGroup, OnlyCandidates,
             [DetectorNext]_detectorVars
      PROVE  A \/ UNCHANGED detectorVars
  <2>1. CASE DetectorEvaluate
    BY <1>1, <2>1, EvaluateOnEvidence
  <2>2. ASSUME NEW start \in Time, DetectorRestart(start) PROVE A
    BY <2>2 DEF DetectorRestart, Book!Restart
  <2>3. CASE DetectorObserve
    BY <2>3 DEF DetectorObserve, bookVars
  <2>4. CASE Tick /\ UNCHANGED bookVars
    BY <2>4 DEF bookVars
  <2> QED
    BY <1>1, <2>1, <2>2, <2>3, <2>4 DEF DetectorNext
<1>2. Spec => []Inductive /\ []WindowExact /\ []ActionFitsGroup /\ []OnlyCandidates
  BY InductiveAlways, WindowExactAlways, ActionFitsGroupAlways, OnlyCandidatesAlways, PTL
<1>3. DetectorSpec => [][A]_detectorVars
  BY <1>1, <1>2, Refinement, PTL DEF DetectorSpec
<1> QED
  BY <1>3, PTL DEF RulesHaveEvidence
=============================================================================
