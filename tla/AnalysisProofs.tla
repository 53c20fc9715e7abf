--------------------------- MODULE AnalysisProofs ---------------------------
(***************************************************************************)
(* What holds of every analysis and every reader, for any limits, profile, *)
(* number of sources and input.                                            *)
(*                                                                         *)
(* The first part is about the operators and the actions of Aggregation:   *)
(* merging sketches is exact, and every event that is added keeps the      *)
(* invariant of the aggregation.  The second part is about the analysis:   *)
(* what each step leaves for the next, that the counters of the sources    *)
(* add up, and that a workspace is complete when it is opened and opens    *)
(* when it is complete.                                                    *)
(***************************************************************************)
EXTENDS Analysis, NumberFacts, TLAPS

(***************************************************************************)
(* Sketches.  The rank of a hash in a set is the number of smaller ones.   *)
(***************************************************************************)
Below(S, h) == {g \in S : g < h}

(* Of two hashes the greater one has the higher rank.                       *)
LEMMA RankGrows ==
  ASSUME NEW S \in SUBSET Nat, IsFiniteSet(S), NEW g \in S, NEW h \in S, g < h
  PROVE  /\ Cardinality(Below(S, g)) \in Nat
         /\ Cardinality(Below(S, h)) \in Nat
         /\ Cardinality(Below(S, g)) < Cardinality(Below(S, h))
<1>1. IsFiniteSet(Below(S, h)) /\ IsFiniteSet(Below(S, g))
  BY FS_Subset DEF Below
<1>2. Below(S, g) \in SUBSET Below(S, h)
  <2>1. ASSUME NEW f \in S, f < g PROVE f < h
    <3>1. f \in Nat /\ g \in Nat /\ h \in Nat
      OBVIOUS
    <3> QED BY <2>1, <3>1
  <2> QED BY <2>1 DEF Below
<1>3. g \in Below(S, h) /\ g \notin Below(S, g)
  <2>1. g \in Nat
    OBVIOUS
  <2> QED BY <2>1 DEF Below
<1> QED
  BY <1>1, <1>2, <1>3, FS_Subset, FS_CardinalityType

(* A hash has a rank below the size of its set, and only one has that rank. *)
LEMMA RankOnce ==
  ASSUME NEW S \in SUBSET Nat, IsFiniteSet(S)
  PROVE  [h \in S |-> Cardinality(Below(S, h))] \in Injection(S, 0 .. Cardinality(S) - 1)
<1> DEFINE rank == [h \in S |-> Cardinality(Below(S, h))]
<1>1. ASSUME NEW h \in S PROVE rank[h] \in 0 .. Cardinality(S) - 1
  <2>1. Below(S, h) \in SUBSET S /\ Below(S, h) # S
    BY DEF Below
  <2>2. /\ Cardinality(Below(S, h)) \in Nat /\ Cardinality(S) \in Nat
        /\ Cardinality(Below(S, h)) < Cardinality(S)
    BY <2>1, FS_Subset, FS_CardinalityType
  <2> QED BY <2>2
<1>2. ASSUME NEW g \in S, NEW h \in S, g # h PROVE rank[g] # rank[h]
  <2>1. CASE g < h BY <2>1, RankGrows
  <2>2. CASE h < g BY <2>2, RankGrows
  <2> QED BY <1>2, <2>1, <2>2
<1>3. rank \in [S -> 0 .. Cardinality(S) - 1]
  BY <1>1
<1> QED
  BY <1>2, <1>3 DEF Injection, IsInjective

(* Every rank below the size of the set is that of a hash.                  *)
LEMMA RankReached ==
  ASSUME NEW S \in SUBSET Nat, IsFiniteSet(S), NEW r \in 0 .. Cardinality(S) - 1
  PROVE  \E h \in S : Cardinality(Below(S, h)) = r
<1> DEFINE rank == [h \in S |-> Cardinality(Below(S, h))]
           Ranks == 0 .. Cardinality(S) - 1
<1>1. Cardinality(S) \in Nat
  BY FS_CardinalityType
<1>2. IsFiniteSet(Ranks) /\ Cardinality(Ranks) = Cardinality(S)
  BY <1>1, FS_Interval
<1>3. rank \in Injection(S, Ranks)
  BY RankOnce
<1>4. rank \in Surjection(S, Ranks)
  <2> HIDE DEF Ranks, rank
  <2> QED BY <1>2, <1>3, FS_Injection
<1> QED
  BY <1>4 DEF Surjection

(* A sketch has at most K hashes, and K if there are as many to choose from.*)
LEMMA SmallestSize ==
  ASSUME NEW S \in SUBSET Nat, IsFiniteSet(S)
  PROVE  /\ Smallest(S) \in SUBSET S
         /\ IsFiniteSet(Smallest(S))
         /\ Cardinality(Smallest(S)) \in Nat
         /\ Cardinality(Smallest(S)) <= K
         /\ Cardinality(S) >= K => Cardinality(Smallest(S)) = K
<1> DEFINE rank == [h \in Smallest(S) |-> Cardinality(Below(S, h))]
<1>1. K \in Nat \ {0} /\ IsFiniteSet(0 .. K - 1) /\ Cardinality(0 .. K - 1) = K
  <2>1. K \in Nat \ {0}
    BY AggregationAssumption
  <2>2. K - 1 \in Int /\ ~(0 > K - 1) /\ (K - 1) - 0 + 1 = K
    BY <2>1
  <2> QED BY <2>1, <2>2, FS_Interval
<1>2. Smallest(S) \in SUBSET S
  BY DEF Smallest
<1>3. IsFiniteSet(Smallest(S)) /\ Cardinality(Smallest(S)) \in Nat
  BY <1>2, FS_Subset, FS_CardinalityType
<1>4. ASSUME NEW h \in S
      PROVE  /\ Cardinality(Below(S, h)) \in Nat
             /\ h \in Smallest(S) <=> Cardinality(Below(S, h)) < K
  <2>1. Below(S, h) \in SUBSET S
    BY DEF Below
  <2>2. Cardinality(Below(S, h)) \in Nat
    BY <2>1, FS_Subset, FS_CardinalityType
  <2> QED BY <2>2 DEF Smallest, Below
<1>5. rank \in [Smallest(S) -> 0 .. K - 1]
  <2>1. ASSUME NEW h \in Smallest(S) PROVE Cardinality(Below(S, h)) \in 0 .. K - 1
    <3>1. Cardinality(Below(S, h)) \in Nat /\ Cardinality(Below(S, h)) < K
      BY <1>2, <1>4
    <3> QED BY <1>1, <3>1
  <2> QED BY <2>1
<1>6. rank \in Injection(Smallest(S), 0 .. K - 1)
  <2>1. ASSUME NEW g \in Smallest(S), NEW h \in Smallest(S), g # h
        PROVE  rank[g] # rank[h]
    <3>1. g \in S /\ h \in S
      BY <1>2
    <3>2. CASE g < h BY <3>1, <3>2, RankGrows
    <3>3. CASE h < g BY <3>1, <3>3, RankGrows
    <3> QED BY <2>1, <3>1, <3>2, <3>3
  <2> QED BY <1>5, <2>1 DEF Injection, IsInjective
<1>7. Cardinality(Smallest(S)) <= K
  <2> HIDE DEF rank
  <2> QED BY <1>1, <1>6, FS_Injection
<1>8. ASSUME Cardinality(S) >= K PROVE Cardinality(Smallest(S)) = K
  <2>1. rank \in Surjection(Smallest(S), 0 .. K - 1)
    <3>1. ASSUME NEW r \in 0 .. K - 1 PROVE \E h \in Smallest(S) : rank[h] = r
      <4>1. r \in 0 .. Cardinality(S) - 1
        BY <1>1, <1>8, FS_CardinalityType
      <4>2. PICK h \in S : Cardinality(Below(S, h)) = r
        BY <4>1, RankReached
      <4> QED BY <1>4, <4>2, <1>1
    <3> QED BY <1>5, <3>1 DEF Surjection
  <2>2. Cardinality(0 .. K - 1) <= Cardinality(Smallest(S))
    <3> HIDE DEF rank
    <3> QED BY <1>3, <2>1, FS_Surjection
  <2> QED BY <1>1, <1>3, <1>7, <2>2
<1> QED
  BY <1>2, <1>3, <1>7, <1>8

(* Whether a hash is among the smallest is a matter of its rank.            *)
LEMMA SmallestByRank ==
  ASSUME NEW S \in SUBSET Nat, IsFiniteSet(S), NEW h
  PROVE  /\ h \in Smallest(S) <=> h \in S /\ Cardinality(Below(S, h)) < K
         /\ IsFiniteSet(Below(S, h)) /\ Cardinality(Below(S, h)) \in Nat
<1>1. Below(S, h) \in SUBSET S
  BY DEF Below
<1> QED
  BY <1>1, FS_Subset, FS_CardinalityType DEF Smallest, Below

(* Cutting a set down to its smallest hashes before another one is added    *)
(* does not change the smallest hashes of both: batches may be merged.      *)
LEMMA SmallestMerges ==
  ASSUME NEW A \in SUBSET Nat, NEW B \in SUBSET Nat, IsFiniteSet(A), IsFiniteSet(B)
  PROVE  Smallest(Smallest(A) \cup B) = Smallest(A \cup B)
<1> DEFINE Cut == Smallest(A) \cup B
           All == A \cup B
<1>1. /\ Cut \in SUBSET Nat /\ IsFiniteSet(Cut)
      /\ All \in SUBSET Nat /\ IsFiniteSet(All)
      /\ Cut \in SUBSET All
  BY SmallestSize, FS_Union
<1>2. ASSUME NEW h PROVE Cardinality(Below(Cut, h)) <= Cardinality(Below(All, h))
  <2>1. Below(Cut, h) \in SUBSET Below(All, h)
    BY <1>1 DEF Below
  <2> QED BY <1>1, <2>1, SmallestByRank, FS_Subset
<1>3. K \in Nat
  BY AggregationAssumption
<1>4. ASSUME NEW h \in Smallest(All) PROVE h \in Smallest(Cut)
  <2>1. h \in All /\ Cardinality(Below(All, h)) < K
    BY <1>1, SmallestByRank
  <2>2. Cardinality(Below(Cut, h)) < K
    <3> HIDE DEF Cut, All
    <3> QED BY <1>1, <1>2, <1>3, <2>1, SmallestByRank
  <2>3. ASSUME h \in A PROVE h \in Smallest(A)
    <3>1. Below(A, h) \in SUBSET Below(All, h)
      BY DEF Below
    <3>2. Cardinality(Below(A, h)) <= Cardinality(Below(All, h))
      BY <1>1, <3>1, SmallestByRank, FS_Subset
    <3>3. Cardinality(Below(A, h)) < K
      <4> HIDE DEF All
      <4> QED BY <1>1, <1>3, <2>1, <3>2, SmallestByRank
    <3> QED BY <2>3, <3>3, SmallestByRank
  <2> QED BY <1>1, <2>1, <2>2, <2>3, SmallestByRank
<1>5. ASSUME NEW h \in Smallest(Cut) PROVE h \in Smallest(All)
  <2>1. h \in Cut /\ Cardinality(Below(Cut, h)) < K /\ h \in Nat
    BY <1>1, SmallestByRank
  <2>2. Below(All, h) \in SUBSET Below(Cut, h)
    <3> SUFFICES ASSUME NEW g \in A, g < h PROVE g \in Smallest(A)
      BY DEF Below
    <3>1. SUFFICES ASSUME g \notin Smallest(A) PROVE FALSE
      OBVIOUS
    <3>2. Below(A, g) \in SUBSET Nat /\ IsFiniteSet(Below(A, g)) /\ Cardinality(Below(A, g)) >= K
      <4>1. Below(A, g) \in SUBSET Nat
        BY DEF Below
      <4> QED BY <1>3, <3>1, <4>1, SmallestByRank
    <3>3. /\ Smallest(Below(A, g)) \in SUBSET Below(A, g)
          /\ Cardinality(Smallest(Below(A, g))) = K
      BY <3>2, SmallestSize
    <3>4. ASSUME NEW f \in Smallest(Below(A, g)) PROVE f \in Below(Cut, h)
      <4>1. f \in A /\ f \in Nat /\ g \in Nat /\ f < g
        BY <3>3 DEF Below
      <4>2. Below(Below(A, g), f) = Below(A, f)
        <5>1. ASSUME NEW e \in A, e < f PROVE e < g
          <6>1. e \in Nat
            OBVIOUS
          <6> QED BY <4>1, <5>1, <6>1
        <5> QED BY <5>1 DEF Below
      <4>3. f \in Smallest(A)
        BY <3>2, <4>1, <4>2, SmallestByRank
      <4> QED BY <2>1, <4>1, <4>3 DEF Below
    <3>5. K <= Cardinality(Below(Cut, h))
      BY <1>1, <3>3, <3>4, SmallestByRank, FS_Subset
    <3> HIDE DEF Cut
    <3> QED BY <1>1, <1>3, <2>1, <3>5, SmallestByRank
  <2>3. Cardinality(Below(All, h)) <= Cardinality(Below(Cut, h))
    BY <1>1, <2>2, SmallestByRank, FS_Subset
  <2>4. Cardinality(Below(All, h)) < K
    <3> HIDE DEF Cut, All
    <3> QED BY <1>1, <1>3, <2>1, <2>3, SmallestByRank
  <2> QED BY <1>1, <2>1, <2>4, SmallestByRank
<1> QED
  BY <1>4, <1>5

-----------------------------------------------------------------------------
(***************************************************************************)
(* The invariant.  Settled says why an event has the row and the verdict   *)
(* it has, and that the reason still stands; Budget, that a token bucket   *)
(* has paid for all its client was let through.                            *)
(***************************************************************************)
Finite ==
  /\ IsFiniteSet(routes) /\ IsFiniteSet(Tracked)
  /\ \A row \in Row : IsFiniteSet(sketches[row]) /\ IsFiniteSet(storedSketches[row])

Settled ==
  \A i \in DOMAIN taken :
    LET t == taken[i] IN
      /\ t.row \in routes
      /\ t.row # t.event.route => t.row = OverflowRoute /\ ~HasRow(t.event.route)
      /\ t.verdict = "overflow" => ~Counted(t.event.client)
      /\ t.verdict # "overflow" => t.event.client \in Tracked

PassedIn(events, client, i) ==
  {k \in i .. Len(events) : events[k].verdict = "allowed" /\ events[k].event.client = client}

Passed(client, i) == PassedIn(taken, client, i)
PassedAfter(client, i) == PassedIn(taken', client, i)

Budget ==
  \A i \in DOMAIN taken :
    taken[i].verdict = "allowed" =>
      LET event == taken[i].event
          bucket == buckets[event.client]
      IN  /\ event.time <= bucket.last
          /\ Cardinality(Passed(event.client, i)) * Scale + bucket.tokens
               <= Capacity + (bucket.last - event.time) * Rate

RoutesTaken == \A row \in routes : \E i \in DOMAIN taken : taken[i].row = row

AggregationInv ==
  /\ TypeOK /\ Finite
  /\ Settled
  /\ Budget /\ RateConforms
  /\ RoutesTaken /\ TablesExact

Bucket == [last : Nat, tokens : 0 .. Capacity, unordered : BOOLEAN]

(* What Add computes before it changes anything.                            *)
NewRow(event) == RowOf(event.route)
NewBucket(event) == Filled(event.client, event.time)
NewVerdict(event) ==
  IF Counted(event.client) THEN VerdictOn(NewBucket(event)) ELSE "overflow"
NewRows(event) ==
  [key \in Key |-> IF key \in RowsOf(event, NewRow(event), NewVerdict(event))
                   THEN memory[key] + 1 ELSE memory[key]]
NewClients(event) ==
  [sketches EXCEPT ![NewRow(event)] = Smallest(@ \cup {event.client})]

LEMMA Constants ==
  /\ K \in Nat \ {0} /\ Scale \in Nat \ {0} /\ MaxRoutes \in Nat \ {0}
  /\ MaxRateSubjects \in Nat \ {0} /\ Rate \in Nat /\ Burst \in Nat
  /\ Capacity \in Nat /\ Scale <= Capacity
<1>1. /\ K \in Nat \ {0} /\ Scale \in Nat \ {0} /\ MaxRoutes \in Nat \ {0}
      /\ MaxRateSubjects \in Nat \ {0} /\ Rate \in Nat /\ Burst \in Nat
  BY AggregationAssumption
<1>2. (Burst + 1) * Scale = Burst * Scale + Scale /\ Burst * Scale \in Nat
  BY <1>1
<1> QED
  BY <1>1, <1>2 DEF Capacity

LEMMA EventType ==
  ASSUME NEW event \in Event
  PROVE  /\ event.route \in Route /\ event.route # OverflowRoute
         /\ event.client \in Client /\ event.client \in Nat
         /\ event.time \in Nat /\ event.time \in Time
<1>1. event \in [route : Route, client : Client, time : Nat]
  BY AggregationAssumption
<1>2. Client \subseteq Nat /\ OverflowRoute \notin Route
  BY AggregationAssumption
<1> QED
  BY <1>1, <1>2 DEF Time

LEMMA AddParts ==
  ASSUME NEW event, Add(event)
  PROVE  /\ routes' = routes \cup {NewRow(event)}
         /\ buckets' = IF NewVerdict(event) = "overflow" THEN buckets
                       ELSE [client \in Tracked \cup {event.client} |->
                               IF client = event.client THEN Taken(NewBucket(event))
                               ELSE buckets[client]]
         /\ overflow' =
              [routes |-> overflow.routes + (IF NewRow(event) = OverflowRoute THEN 1 ELSE 0),
               subjects |-> overflow.subjects + (IF NewVerdict(event) = "overflow" THEN 1 ELSE 0)]
         /\ taken' = Append(taken, [event |-> event, row |-> NewRow(event),
                                    verdict |-> NewVerdict(event)])
         /\ \/ Flush(NewRows(event), NewClients(event))
            \/ Keep(NewRows(event), NewClients(event))
  BY DEF Add, NewRow, NewBucket, NewVerdict, NewRows, NewClients

(* Types of what Add computes.                                              *)
LEMMA NewRowFacts ==
  ASSUME TypeOK, NEW event \in Event
  PROVE  /\ NewRow(event) \in Row
         /\ HasRow(event.route) => NewRow(event) = event.route
         /\ ~HasRow(event.route) => NewRow(event) = OverflowRoute
  BY EventType DEF NewRow, RowOf, Row

LEMMA BucketsType ==
  ASSUME TypeOK
  PROVE  /\ buckets \in [Tracked -> Bucket]
         /\ Tracked \subseteq Client /\ Cardinality(Tracked) <= MaxRateSubjects
<1>1. PICK tracked \in SUBSET Client :
        buckets \in [tracked -> Bucket] /\ Cardinality(tracked) <= MaxRateSubjects
  BY DEF TypeOK, Bucket
<1>2. Tracked = tracked
  BY <1>1 DEF Tracked
<1> QED
  BY <1>1, <1>2

(* A bucket is filled up to its capacity, and a request takes a token of it.*)
LEMMA NewBucketFacts ==
  ASSUME TypeOK, NEW event \in Event
  PROVE  /\ NewBucket(event) \in Bucket
         /\ NewVerdict(event) \in Verdict
         /\ NewVerdict(event) = "overflow" <=> ~Counted(event.client)
         /\ Taken(NewBucket(event)) \in Bucket
         /\ Taken(NewBucket(event)).last = NewBucket(event).last
         /\ NewVerdict(event) = "allowed" =>
              /\ Taken(NewBucket(event)).tokens = NewBucket(event).tokens - Scale
              /\ NewBucket(event).last = event.time
         /\ Taken(NewBucket(event)).tokens <= NewBucket(event).tokens
         /\ event.client \in Tracked =>
              /\ buckets[event.client].last <= NewBucket(event).last
              /\ NewBucket(event).tokens
                   <= buckets[event.client].tokens
                        + (NewBucket(event).last - buckets[event.client].last) * Rate
<1> DEFINE client == event.client
           time == event.time
           old == buckets[client]
           new == NewBucket(event)
<1>1. time \in Nat /\ Capacity \in Nat /\ Rate \in Nat /\ Scale \in Nat \ {0} /\ Scale <= Capacity
  BY EventType, Constants
<1>2. /\ new \in Bucket
      /\ ~new.unordered => new.last = time
      /\ client \in Tracked => /\ old.last <= new.last
                               /\ new.tokens <= old.tokens + (new.last - old.last) * Rate
  <2>1. CASE client \notin Tracked
    <3>1. new = [last |-> time, tokens |-> Capacity, unordered |-> FALSE]
      BY <2>1 DEF NewBucket, Filled
    <3>2. Capacity \in 0 .. Capacity
      BY <1>1
    <3> QED BY <1>1, <2>1, <3>1, <3>2 DEF Bucket
  <2>2. CASE client \in Tracked /\ time < old.last
    <3>1. old \in Bucket
      BY <2>2, BucketsType
    <3>2. new = [old EXCEPT !.unordered = TRUE]
      BY <2>2 DEF NewBucket, Filled
    <3>3. new \in Bucket /\ new.unordered /\ new.last = old.last /\ new.tokens = old.tokens
      BY <3>1, <3>2 DEF Bucket
    <3>4. old.last \in Nat /\ old.tokens \in Nat
      BY <3>1 DEF Bucket
    <3>5. (new.last - old.last) * Rate = 0
      BY <1>1, <3>3, <3>4
    <3> QED BY <3>3, <3>4, <3>5
  <2>3. CASE client \in Tracked /\ ~(time < old.last)
    <3>1. old \in Bucket
      BY <2>3, BucketsType
    <3>2. old.last \in Nat /\ old.tokens \in Nat /\ time - old.last \in Nat
      BY <1>1, <2>3, <3>1 DEF Bucket
    <3>3. (time - old.last) * Rate \in Nat
      BY <1>1, <3>2
    <3>4. new = [old EXCEPT !.last = time, !.tokens = Bounded(@ + (time - old.last) * Rate)]
      BY <2>3 DEF NewBucket, Filled
    <3> DEFINE filled == Bounded(old.tokens + (time - old.last) * Rate)
    <3>5. filled \in 0 .. Capacity /\ filled <= old.tokens + (time - old.last) * Rate
      BY <1>1, <3>2, <3>3 DEF Bounded
    <3>6. new \in Bucket /\ new.last = time /\ new.tokens = filled
      <4> HIDE DEF filled
      <4> QED BY <1>1, <3>1, <3>4, <3>5 DEF Bucket, filled
    <3> QED BY <1>1, <3>2, <3>5, <3>6
  <2> QED BY <2>1, <2>2, <2>3
<1> HIDE DEF new
<1>3. /\ VerdictOn(new) \in {"allowed", "limited", "unordered"}
      /\ VerdictOn(new) = "allowed" => ~new.unordered /\ new.tokens >= Scale
  BY DEF VerdictOn
<1>4. NewVerdict(event) = IF Counted(client) THEN VerdictOn(new) ELSE "overflow"
  BY DEF NewVerdict, new
<1>5. /\ Taken(new) \in Bucket /\ Taken(new).last = new.last
      /\ VerdictOn(new) = "allowed" => Taken(new).tokens = new.tokens - Scale
      /\ Taken(new).tokens <= new.tokens
  <2>1. new.last \in Nat /\ new.tokens \in 0 .. Capacity /\ new.tokens \in Nat
    BY <1>1, <1>2 DEF Bucket
  <2>2. CASE VerdictOn(new) = "allowed"
    <3>1. new.tokens - Scale \in 0 .. Capacity /\ new.tokens - Scale <= new.tokens
      BY <1>1, <1>3, <2>1, <2>2
    <3>2. Taken(new) = [new EXCEPT !.tokens = new.tokens - Scale]
      BY <2>2 DEF Taken
    <3> QED BY <1>2, <3>1, <3>2 DEF Bucket
  <2>3. CASE VerdictOn(new) # "allowed"
    BY <1>2, <2>1, <2>3 DEF Taken
  <2> QED BY <2>2, <2>3
<1> QED
  BY <1>2, <1>3, <1>4, <1>5 DEF new, Verdict

(* The history of an event that is added.                                   *)
LEMMA TakenFacts ==
  ASSUME TypeOK, NEW event \in Event, Add(event)
  PROVE  LET n == Len(taken)
             new == [event |-> event, row |-> NewRow(event), verdict |-> NewVerdict(event)]
         IN  /\ n \in Nat /\ DOMAIN taken = 1 .. n
             /\ Len(taken') = n + 1 /\ DOMAIN taken' = 1 .. (n + 1)
             /\ taken'[n + 1] = new
             /\ \A i \in 1 .. n :
                  /\ taken'[i] = taken[i]
                  /\ taken[i] \in [event : Event, row : Row, verdict : Verdict]
             /\ taken' \in Seq([event : Event, row : Row, verdict : Verdict])
<1> DEFINE new == [event |-> event, row |-> NewRow(event), verdict |-> NewVerdict(event)]
           T == [event : Event, row : Row, verdict : Verdict]
<1>1. taken \in Seq(T)
  BY DEF TypeOK
<1>2. new \in T
  BY NewRowFacts, NewBucketFacts
<1>3. taken' = Append(taken, new)
  BY AddParts
<1> HIDE DEF new, T
<1>4. /\ Len(taken) \in Nat /\ DOMAIN taken = 1 .. Len(taken)
      /\ Len(taken') = Len(taken) + 1 /\ DOMAIN taken' = 1 .. (Len(taken) + 1)
      /\ taken'[Len(taken) + 1] = new
      /\ \A i \in 1 .. Len(taken) : taken'[i] = taken[i] /\ taken[i] \in T
      /\ taken' \in Seq(T)
  BY <1>1, <1>2, <1>3
<1> QED
  BY <1>4 DEF new, T

(* What changes of the routes: one more at most, and only below the limit.  *)
LEMMA RoutesFacts ==
  ASSUME TypeOK, Finite, NEW event \in Event, Add(event)
  PROVE  /\ IsFiniteSet(routes') /\ routes' \subseteq Row
         /\ Cardinality(routes' \ {OverflowRoute}) \in Nat
         /\ Cardinality(routes' \ {OverflowRoute}) <= MaxRoutes
         /\ \A route \in Route : ~HasRow(route) =>
              route \notin routes' /\ ~(Cardinality(routes' \ {OverflowRoute}) < MaxRoutes)
<1> DEFINE row == NewRow(event)
           old == routes \ {OverflowRoute}
<1>1. routes' = routes \cup {row} /\ row \in Row
  BY AddParts, NewRowFacts
<1>2. IsFiniteSet(routes') /\ routes' \subseteq Row
  BY <1>1, FS_AddElement DEF Finite, TypeOK
<1>3. IsFiniteSet(old) /\ Cardinality(old) \in Nat /\ Cardinality(old) <= MaxRoutes
      /\ MaxRoutes \in Nat
  BY Constants, FS_Subset, FS_CardinalityType DEF Finite, TypeOK
<1>4. CASE row \in routes \/ row = OverflowRoute
  <2>1. routes' \ {OverflowRoute} = old
    BY <1>1, <1>4
  <2>2. \A route \in Route : route \notin routes => route \notin routes'
    BY <1>1, <1>4, AggregationAssumption
  <2> QED BY <1>2, <1>3, <2>1, <2>2 DEF HasRow
<1>5. CASE row \notin routes /\ row # OverflowRoute
  <2>1. HasRow(event.route) /\ row = event.route
    BY <1>5, NewRowFacts
  <2>2. Cardinality(old) < MaxRoutes
    BY <1>5, <2>1 DEF HasRow
  <2>3. routes' \ {OverflowRoute} = old \cup {row} /\ row \notin old
    BY <1>1, <1>5
  <2>4. Cardinality(old \cup {row}) = Cardinality(old) + 1
    BY <1>3, <2>3, FS_AddElement
  <2>5. \A route : HasRow(route)
    BY <2>2 DEF HasRow
  <2> HIDE DEF old
  <2> QED BY <1>2, <1>3, <2>2, <2>3, <2>4, <2>5
<1> QED BY <1>4, <1>5

(* What changes of the tracked clients.                                     *)
LEMMA TrackedFacts ==
  ASSUME TypeOK, Finite, NEW event \in Event, Add(event)
  PROVE  /\ Tracked' = IF Counted(event.client) THEN Tracked \cup {event.client} ELSE Tracked
         /\ buckets' \in [Tracked' -> Bucket]
         /\ Tracked' \subseteq Client /\ IsFiniteSet(Tracked')
         /\ Cardinality(Tracked') <= MaxRateSubjects
         /\ \A client : ~Counted(client) =>
              client \notin Tracked' /\ ~(Cardinality(Tracked') < MaxRateSubjects)
<1> DEFINE client == event.client
           more == Tracked \cup {client}
<1>1. client \in Client
  BY EventType
<1>2. /\ buckets \in [Tracked -> Bucket] /\ Tracked \subseteq Client
      /\ Cardinality(Tracked) <= MaxRateSubjects
      /\ IsFiniteSet(Tracked) /\ Cardinality(Tracked) \in Nat /\ MaxRateSubjects \in Nat
  BY BucketsType, Constants, FS_CardinalityType DEF Finite
<1>3. CASE ~Counted(client)
  <2>1. buckets' = buckets
    BY <1>3, AddParts, NewBucketFacts
  <2>2. Tracked' = Tracked
    BY <2>1 DEF Tracked
  <2> QED BY <1>2, <1>3, <2>1, <2>2 DEF Counted
<1>4. CASE Counted(client)
  <2>1. buckets' = [c \in more |-> IF c = client THEN Taken(NewBucket(event)) ELSE buckets[c]]
    BY <1>4, AddParts, NewBucketFacts
  <2>2. Tracked' = more
    BY <2>1 DEF Tracked
  <2>3. buckets' \in [more -> Bucket]
    BY <1>2, <2>1, NewBucketFacts
  <2>4. /\ IsFiniteSet(more) /\ more \subseteq Client
        /\ Cardinality(more) = IF client \in Tracked THEN Cardinality(Tracked)
                               ELSE Cardinality(Tracked) + 1
    BY <1>1, <1>2, FS_AddElement
  <2>5. CASE client \in Tracked
    <3>1. more = Tracked
      BY <2>5
    <3> QED BY <1>2, <1>4, <2>2, <2>3, <3>1 DEF Counted
  <2>6. CASE client \notin Tracked
    <3>1. Cardinality(Tracked) < MaxRateSubjects
      BY <1>4, <2>6 DEF Counted
    <3>2. \A c : Counted(c)
      BY <3>1 DEF Counted
    <3>3. Cardinality(more) <= MaxRateSubjects
      <4> HIDE DEF more
      <4> QED BY <1>2, <2>4, <2>6, <3>1
    <3> QED BY <1>4, <2>2, <2>3, <2>4, <3>2, <3>3
  <2> QED BY <2>5, <2>6
<1> QED BY <1>3, <1>4

(* The tables and sketches a batch ends in.                                 *)
LEMMA NewTables ==
  ASSUME TypeOK, Finite, NEW event \in Event
  PROVE  /\ NewRows(event) \in [Key -> Nat]
         /\ NewClients(event) \in [Row -> SUBSET Client]
         /\ \A row \in Row : /\ IsFiniteSet(NewClients(event)[row])
                             /\ Cardinality(NewClients(event)[row]) <= K
<1> DEFINE row == NewRow(event)
           seen == sketches[row] \cup {event.client}
<1>1. memory \in [Key -> Nat] /\ sketches \in [Row -> SUBSET Client]
  BY DEF TypeOK
<1>2. NewRows(event) \in [Key -> Nat]
  BY <1>1 DEF NewRows
<1>3. row \in Row /\ event.client \in Client /\ Client \subseteq Nat
  BY NewRowFacts, EventType, AggregationAssumption
<1>4. seen \in SUBSET Nat /\ IsFiniteSet(seen) /\ seen \subseteq Client
  BY <1>1, <1>3, FS_AddElement DEF Finite
<1>5. /\ Smallest(seen) \in SUBSET Client /\ IsFiniteSet(Smallest(seen))
      /\ Cardinality(Smallest(seen)) <= K
  BY <1>4, SmallestSize
<1>6. /\ NewClients(event) \in [Row -> SUBSET Client]
      /\ NewClients(event)[row] = Smallest(seen)
      /\ \A r \in Row \ {row} : NewClients(event)[r] = sketches[r]
  BY <1>1, <1>3, <1>5 DEF NewClients
<1>7. \A r \in Row : IsFiniteSet(sketches[r]) /\ Cardinality(sketches[r]) <= K
  BY DEF TypeOK, Finite
<1> QED
  BY <1>2, <1>5, <1>6, <1>7

LEMMA NothingInMemory ==
  /\ NoRows \in [Key -> Nat]
  /\ NoClients \in [Row -> SUBSET Client]
  /\ \A row \in Row : IsFiniteSet(NoClients[row]) /\ Cardinality(NoClients[row]) <= K
  BY Constants, FS_EmptySet DEF NoRows, NoClients

(* Flushing a batch keeps the types of the tables.                          *)
LEMMA FlushTypes ==
  ASSUME TypeOK, Finite,
         NEW rows \in [Key -> Nat], NEW clients \in [Row -> SUBSET Client],
         \A row \in Row : IsFiniteSet(clients[row]) /\ Cardinality(clients[row]) <= K,
         Flush(rows, clients) \/ Keep(rows, clients)
  PROVE  /\ {memory', stored'} \subseteq [Key -> Nat]
         /\ {sketches', storedSketches'} \subseteq [Row -> SUBSET Client]
         /\ \A row \in Row : /\ Cardinality(sketches'[row]) <= K
                             /\ IsFiniteSet(sketches'[row]) /\ IsFiniteSet(storedSketches'[row])
<1>1. /\ stored \in [Key -> Nat]
      /\ storedSketches \in [Row -> SUBSET Client]
      /\ \A row \in Row : IsFiniteSet(storedSketches[row])
  BY DEF TypeOK, Finite
<1>2. CASE Flush(rows, clients)
  <2>1. stored' \in [Key -> Nat]
    BY <1>1, <1>2 DEF Flush, StoredAfter
  <2>2. ASSUME NEW row \in Row
        PROVE  LET both == storedSketches[row] \cup clients[row] IN
                 Smallest(both) \in SUBSET Client /\ IsFiniteSet(Smallest(both))
    <3> DEFINE both == storedSketches[row] \cup clients[row]
    <3>1. both \in SUBSET Nat /\ IsFiniteSet(both) /\ both \subseteq Client
      BY <1>1, FS_Union, AggregationAssumption
    <3>2. Smallest(both) \in SUBSET both /\ IsFiniteSet(Smallest(both))
      BY <3>1, SmallestSize
    <3> QED BY <3>1, <3>2
  <2>3. /\ storedSketches' \in [Row -> SUBSET Client]
        /\ \A row \in Row : IsFiniteSet(storedSketches'[row])
    BY <1>2, <2>2 DEF Flush, StoredAfter, SketchesMerged
  <2>4. memory' = NoRows /\ sketches' = NoClients
    BY <1>2 DEF Flush, StoredAfter
  <2> QED BY <2>1, <2>3, <2>4, NothingInMemory
<1>3. CASE Keep(rows, clients)
  BY <1>1, <1>3 DEF Keep
<1> QED BY <1>2, <1>3

LEMMA AddTypes ==
  ASSUME TypeOK, Finite, NEW event \in Event, Add(event)
  PROVE  TypeOK' /\ Finite'
<1>1. /\ routes' \subseteq Row /\ IsFiniteSet(routes')
      /\ Cardinality(routes' \ {OverflowRoute}) <= MaxRoutes
  BY RoutesFacts
<1>2. /\ buckets' \in [Tracked' -> Bucket] /\ Tracked' \in SUBSET Client
      /\ Cardinality(Tracked') <= MaxRateSubjects /\ IsFiniteSet(Tracked')
  BY TrackedFacts
<1>3. /\ {memory', stored'} \subseteq [Key -> Nat]
      /\ {sketches', storedSketches'} \subseteq [Row -> SUBSET Client]
      /\ \A row \in Row : /\ Cardinality(sketches'[row]) <= K
                          /\ IsFiniteSet(sketches'[row]) /\ IsFiniteSet(storedSketches'[row])
  BY AddParts, NewTables, FlushTypes
<1>4. overflow' \in [routes : Nat, subjects : Nat]
  <2>1. overflow.routes \in Nat /\ overflow.subjects \in Nat
    BY DEF TypeOK
  <2>2. PICK r \in {0, 1}, s \in {0, 1} :
          overflow' = [routes |-> overflow.routes + r, subjects |-> overflow.subjects + s]
    BY AddParts
  <2>3. overflow.routes + r \in Nat /\ overflow.subjects + s \in Nat
    BY <2>1
  <2> QED BY <2>2, <2>3
<1>5. taken' \in Seq([event : Event, row : Row, verdict : Verdict])
  BY TakenFacts
<1> QED
  BY <1>1, <1>2, <1>3, <1>4, <1>5 DEF TypeOK, Finite, Bucket

-----------------------------------------------------------------------------
(* The reasons for rows and verdicts still stand after an event.            *)
LEMMA AddSettled ==
  ASSUME TypeOK, Finite, Settled, NEW event \in Event, Add(event)
  PROVE  Settled'
<1> DEFINE n == Len(taken)
           row == NewRow(event)
<1>1. routes' = routes \cup {row}
  BY AddParts
<1> DEFINE NoRow(route) ==
             route \notin routes' /\ ~(Cardinality(routes' \ {OverflowRoute}) < MaxRoutes)
           NotCounted(client) ==
             client \notin Tracked' /\ ~(Cardinality(Tracked') < MaxRateSubjects)
<1>2. SUFFICES ASSUME NEW i \in 1 .. (n + 1)
      PROVE  LET t == taken'[i] IN
               /\ t.row \in routes'
               /\ t.row # t.event.route => t.row = OverflowRoute /\ NoRow(t.event.route)
               /\ t.verdict = "overflow" => NotCounted(t.event.client)
               /\ t.verdict # "overflow" => t.event.client \in Tracked'
  BY TakenFacts DEF Settled, HasRow, Counted
<1>3. CASE i = n + 1
  <2>1. taken'[i] = [event |-> event, row |-> row, verdict |-> NewVerdict(event)]
    BY <1>3, TakenFacts
  <2>2. row # event.route => row = OverflowRoute /\ NoRow(event.route)
    BY NewRowFacts, RoutesFacts, EventType
  <2>3. /\ NewVerdict(event) = "overflow" => NotCounted(event.client)
        /\ NewVerdict(event) # "overflow" => event.client \in Tracked'
    BY NewBucketFacts, TrackedFacts
  <2> HIDE DEF NoRow, NotCounted
  <2> QED BY <1>1, <2>1, <2>2, <2>3
<1>4. CASE i \in 1 .. n
  <2>1. taken'[i] = taken[i] /\ i \in DOMAIN taken /\ taken[i].event \in Event
    BY <1>4, TakenFacts
  <2>2. taken[i].event.route \in Route
    BY <2>1, EventType
  <2>3. Tracked \subseteq Tracked'
    BY TrackedFacts
  <2>4. /\ ~HasRow(taken[i].event.route) => NoRow(taken[i].event.route)
        /\ ~Counted(taken[i].event.client) => NotCounted(taken[i].event.client)
    BY <2>2, RoutesFacts, TrackedFacts
  <2> HIDE DEF NoRow, NotCounted
  <2> QED BY <1>1, <2>1, <2>3, <2>4 DEF Settled
<1>5. n \in Nat
  BY TakenFacts
<1> QED BY <1>3, <1>4, <1>5

(* That is why a route and a client are counted in one way throughout.      *)
LEMMA SettledDecides ==
  ASSUME TypeOK, Settled
  PROVE  AllOrNothing
<1> SUFFICES ASSUME NEW i \in DOMAIN taken, NEW j \in DOMAIN taken
    PROVE  /\ taken[i].event.route = taken[j].event.route => taken[i].row = taken[j].row
           /\ taken[i].event.client = taken[j].event.client =>
                (taken[i].verdict = "overflow" <=> taken[j].verdict = "overflow")
  BY DEF AllOrNothing
<1>1. ASSUME taken[i].event.route = taken[j].event.route
      PROVE  taken[i].row = taken[j].row
  <2> DEFINE route == taken[i].event.route
  <2>1. CASE taken[i].row # route
    BY <1>1, <2>1 DEF Settled, HasRow
  <2>2. CASE taken[i].row = route
    BY <1>1, <2>2 DEF Settled, HasRow
  <2> QED BY <2>1, <2>2
<1> QED
  BY <1>1 DEF Settled, Counted

-----------------------------------------------------------------------------
(* The arithmetic of the token bucket: what fills up within the capacity    *)
(* pays for one request more.                                               *)
LEMMA Refill ==
  ASSUME NEW paid \in Nat, NEW tokens \in Nat, NEW filled \in Nat,
         NEW first \in Nat, NEW last \in Nat, NEW now \in Nat, NEW rate \in Nat,
         NEW capacity \in Nat, first <= last, last <= now,
         paid + tokens <= capacity + (last - first) * rate,
         filled <= tokens + (now - last) * rate
  PROVE  paid + filled <= capacity + (now - first) * rate
<1>1. last - first \in Nat /\ now - last \in Nat /\ now - first = (now - last) + (last - first)
  OBVIOUS
<1>2. ((now - last) + (last - first)) * rate = (now - last) * rate + (last - first) * rate
  BY <1>1
<1>3. (now - last) * rate \in Nat /\ (last - first) * rate \in Nat
  BY <1>1
<1> QED
  BY <1>1, <1>2, <1>3

LEMMA PassedType ==
  ASSUME TypeOK, NEW i \in DOMAIN taken, NEW client
  PROVE  IsFiniteSet(Passed(client, i)) /\ Cardinality(Passed(client, i)) \in Nat
<1>1. i \in Nat /\ Len(taken) \in Nat
  BY DEF TypeOK
<1>2. IsFiniteSet(i .. Len(taken)) /\ Passed(client, i) \in SUBSET (i .. Len(taken))
  BY <1>1, FS_Interval DEF Passed, PassedIn
<1> QED
  BY <1>2, FS_Subset, FS_CardinalityType

(* The requests let through since an earlier one, after an event.           *)
LEMMA PassedFacts ==
  ASSUME TypeOK, NEW event \in Event, Add(event), NEW i \in 1 .. (Len(taken) + 1),
         NEW client
  PROVE  LET mine == NewVerdict(event) = "allowed" /\ client = event.client
             count == Cardinality(Passed(client, i))
         IN  /\ i <= Len(taken) =>
                  Cardinality(PassedAfter(client, i)) = IF mine THEN count + 1 ELSE count
             /\ i = Len(taken) + 1 /\ mine => Cardinality(PassedAfter(client, i)) = 1
<1> DEFINE n == Len(taken)
           mine == NewVerdict(event) = "allowed" /\ client = event.client
<1>1. /\ n \in Nat /\ i \in Nat /\ Len(taken') = n + 1
      /\ taken'[n + 1] = [event |-> event, row |-> NewRow(event), verdict |-> NewVerdict(event)]
      /\ \A k \in 1 .. n : taken'[k] = taken[k]
  BY TakenFacts
<1>2. PassedAfter(client, i) =
        {k \in i .. (n + 1) : taken'[k].verdict = "allowed" /\ taken'[k].event.client = client}
  BY <1>1 DEF PassedAfter, PassedIn
<1>3. i .. (n + 1) = (i .. n) \cup {n + 1} /\ n + 1 \notin i .. n /\ i .. n \subseteq 1 .. n
  BY <1>1
<1>4. PassedAfter(client, i) = IF mine THEN Passed(client, i) \cup {n + 1} ELSE Passed(client, i)
  <2>1. taken'[n + 1].verdict = NewVerdict(event) /\ taken'[n + 1].event.client = event.client
    BY <1>1
  <2>2. Passed(client, i) =
          {k \in i .. n : taken'[k].verdict = "allowed" /\ taken'[k].event.client = client}
    BY <1>1, <1>3 DEF Passed, PassedIn
  <2> QED BY <1>2, <1>3, <2>1, <2>2
<1>5. n + 1 \notin Passed(client, i)
  BY <1>3 DEF Passed, PassedIn
<1>6. ASSUME i <= n
      PROVE  Cardinality(PassedAfter(client, i)) =
               IF mine THEN Cardinality(Passed(client, i)) + 1 ELSE Cardinality(Passed(client, i))
  <2>1. IsFiniteSet(Passed(client, i))
    BY <1>1, <1>6, PassedType, TakenFacts
  <2> HIDE DEF mine, n
  <2> QED BY <1>4, <1>5, <2>1, FS_AddElement
<1>7. ASSUME i = n + 1, mine PROVE Cardinality(PassedAfter(client, i)) = 1
  <2>1. PassedAfter(client, i) = {n + 1}
    BY <1>1, <1>3, <1>4, <1>7 DEF Passed, PassedIn
  <2> QED BY <2>1, FS_Singleton
<1> QED
  BY <1>6, <1>7

(* The bucket of the client of an event, and those of the others.           *)
LEMMA BucketsAfter ==
  ASSUME TypeOK, Finite, NEW event \in Event, Add(event), NEW client \in Tracked
  PROVE  /\ client # event.client => buckets'[client] = buckets[client]
         /\ client = event.client => buckets'[client] = Taken(NewBucket(event))
<1>1. CASE NewVerdict(event) = "overflow"
  <2>1. client # event.client
    BY <1>1, NewBucketFacts DEF Counted
  <2> QED BY <1>1, <2>1, AddParts
<1>2. CASE NewVerdict(event) # "overflow"
  <2>1. buckets' = [c \in Tracked \cup {event.client} |->
                      IF c = event.client THEN Taken(NewBucket(event)) ELSE buckets[c]]
    BY <1>2, AddParts
  <2> QED BY <2>1
<1> QED BY <1>1, <1>2

LEMMA AddBudget ==
  ASSUME TypeOK, Finite, Settled, Budget, NEW event \in Event, Add(event)
  PROVE  Budget'
<1> DEFINE n == Len(taken)
           filled == NewBucket(event)
           left == Taken(filled)
           allowed == NewVerdict(event) = "allowed"
<1>1. /\ n \in Nat /\ Scale \in Nat /\ Capacity \in Nat /\ Rate \in Nat
      /\ event.time \in Nat
  BY TakenFacts, Constants, EventType
<1>2. /\ filled.last \in Nat /\ filled.tokens \in Nat /\ filled.tokens <= Capacity
      /\ left.tokens \in Nat /\ left.last = filled.last /\ left.tokens <= filled.tokens
      /\ allowed => left.tokens = filled.tokens - Scale /\ filled.last = event.time
  BY <1>1, NewBucketFacts DEF Bucket
<1>3. SUFFICES ASSUME NEW i \in 1 .. (n + 1), taken'[i].verdict = "allowed"
      PROVE  LET client == taken'[i].event.client
                 time == taken'[i].event.time
             IN  /\ time <= buckets'[client].last
                 /\ Cardinality(PassedAfter(client, i)) * Scale + buckets'[client].tokens
                      <= Capacity + (buckets'[client].last - time) * Rate
  <2>1. DOMAIN taken' = 1 .. (n + 1)
    BY TakenFacts
  <2> QED BY <2>1 DEF Budget, Passed, PassedAfter
<1>4. CASE i = n + 1
  <2>1. taken'[i] = [event |-> event, row |-> NewRow(event), verdict |-> NewVerdict(event)]
    BY <1>4, TakenFacts
  <2>2. allowed
    BY <1>3, <2>1
  <2>3. buckets'[event.client] = left
    BY <2>2, AddParts
  <2>4. Cardinality(PassedAfter(event.client, i)) = 1
    BY <1>4, <2>2, PassedFacts
  <2>5. 1 * Scale + left.tokens <= Capacity + (left.last - event.time) * Rate
    <3> HIDE DEF left, filled, allowed
    <3>1. left.last - event.time = 0 /\ left.tokens = filled.tokens - Scale
      BY <1>1, <1>2, <2>2
    <3>2. (left.last - event.time) * Rate = 0
      BY <1>1, <3>1
    <3> QED BY <1>1, <1>2, <3>1, <3>2
  <2> HIDE DEF left
  <2> QED BY <1>1, <1>2, <2>1, <2>2, <2>3, <2>4, <2>5, SMTT(30)
<1>5. CASE i \in 1 .. n
  <2> DEFINE client == taken[i].event.client
             time == taken[i].event.time
             old == buckets[client]
             count == Cardinality(Passed(client, i))
  <2>1. taken'[i] = taken[i] /\ i \in DOMAIN taken /\ i <= n /\ taken[i].verdict = "allowed"
    <3>1. taken'[i] = taken[i] /\ i \in DOMAIN taken
      BY <1>5, TakenFacts
    <3>2. i <= n
      BY <1>1, <1>5
    <3> QED BY <1>3, <3>1, <3>2
  <2>2. client \in Tracked /\ time \in Nat
    BY <1>5, <2>1, TakenFacts, EventType DEF Settled
  <2>3. old.last \in Nat /\ old.tokens \in Nat
    BY <2>2, BucketsType DEF Bucket
  <2>4. time <= old.last /\ count * Scale + old.tokens <= Capacity + (old.last - time) * Rate
    BY <2>1 DEF Budget
  <2>5. count \in Nat /\ count * Scale \in Nat /\ (count + 1) * Scale = count * Scale + Scale
    <3>1. count \in Nat
      BY <2>1, PassedType
    <3> HIDE DEF count
    <3> QED BY <1>1, <3>1
  <2>6. CASE client # event.client
    <3>1. buckets'[client] = old
      BY <2>2, <2>6, BucketsAfter
    <3>2. Cardinality(PassedAfter(client, i)) = count
      BY <2>1, <2>6, PassedFacts
    <3> HIDE DEF count, old
    <3> QED BY <2>1, <2>4, <3>1, <3>2
  <2>7. CASE client = event.client
    <3>1. buckets'[client] = left
      BY <2>2, <2>7, BucketsAfter
    <3>2. old.last <= filled.last /\ filled.tokens <= old.tokens + (filled.last - old.last) * Rate
      BY <2>2, <2>7, NewBucketFacts
    <3>3. count * Scale + filled.tokens <= Capacity + (filled.last - time) * Rate
      <4> HIDE DEF count, old, filled
      <4> QED BY <1>1, <1>2, <2>2, <2>3, <2>4, <2>5, <3>2, Refill
    <3>4. Cardinality(PassedAfter(client, i)) = IF allowed THEN count + 1 ELSE count
      BY <2>1, <2>7, PassedFacts
    <3>5. time <= filled.last
      BY <1>2, <2>2, <2>3, <2>4, <3>2
    <3>6. (filled.last - time) * Rate \in Nat
      <4>1. filled.last - time \in Nat
        BY <1>2, <2>2, <3>5
      <4> QED BY <1>1, <4>1
    <3>7. Cardinality(PassedAfter(client, i)) * Scale + left.tokens
            <= Capacity + (filled.last - time) * Rate
      <4> DEFINE spent == Cardinality(PassedAfter(client, i)) * Scale
                 paid == count * Scale
                 gained == (filled.last - time) * Rate
      <4>1. spent = IF allowed THEN paid + Scale ELSE paid
        <5> HIDE DEF allowed, count, client
        <5>1. CASE allowed
          BY <2>5, <3>4, <5>1
        <5>2. CASE ~allowed
          BY <3>4, <5>2
        <5> QED BY <5>1, <5>2
      <4>2. paid \in Nat /\ gained \in Nat /\ paid + filled.tokens <= Capacity + gained
        BY <2>5, <3>3, <3>6
      <4>3. Scale \in Nat /\ Capacity \in Nat
        BY Constants
      <4> DEFINE before == filled.tokens
                 after == left.tokens
      <4>4. /\ before \in Nat /\ after \in Nat /\ after <= before
            /\ allowed => after = before - Scale
        BY <1>2
      <4>5. paid + before <= Capacity + gained
        BY <4>2
      <4> HIDE DEF spent, paid, gained, count, old, filled, left, allowed, before, after
      <4>6. spent + after <= Capacity + gained
        BY <4>1, <4>2, <4>3, <4>4, <4>5
      <4> QED BY <4>6 DEF spent, gained, after
    <3> HIDE DEF left, filled
    <3> QED BY <1>2, <2>1, <3>1, <3>5, <3>7
  <2> QED BY <2>6, <2>7
<1> QED BY <1>1, <1>4, <1>5

(* A profile conforms at the moment it lets a request through, and stays so.*)
LEMMA AddConforms ==
  ASSUME TypeOK, Finite, Settled, Budget, RateConforms, NEW event \in Event, Add(event)
  PROVE  RateConforms'
<1> DEFINE n == Len(taken)
           PassedBetween(i, j) ==
             {k \in i .. j : /\ taken'[k].verdict = "allowed"
                             /\ taken'[k].event.client = taken'[i].event.client}
           Spent(S) == Cardinality(S) * Scale
           Room(first, last) == Capacity + (last - first) * Rate
<1>1. /\ n \in Nat /\ DOMAIN taken = 1 .. n /\ DOMAIN taken' = 1 .. (n + 1)
      /\ Len(taken') = n + 1
      /\ taken'[n + 1] = [event |-> event, row |-> NewRow(event), verdict |-> NewVerdict(event)]
      /\ \A k \in 1 .. n : taken'[k] = taken[k] /\ taken[k].event \in Event
  BY TakenFacts
<1>2. SUFFICES ASSUME NEW i \in 1 .. (n + 1), NEW j \in 1 .. (n + 1),
                      i \in PassedBetween(i, j), j \in PassedBetween(i, j)
      PROVE  Cardinality(PassedBetween(i, j)) * Scale
               <= Capacity + (taken'[j].event.time - taken'[i].event.time) * Rate
  BY <1>1 DEF RateConforms
<1>3. CASE j \in 1 .. n
  <2>1. i \in 1 .. n /\ i .. j \subseteq 1 .. n
    BY <1>1, <1>2, <1>3
  <2>2. PassedBetween(i, j) =
          {k \in i .. j : taken[k].verdict = "allowed" /\ taken[k].event.client = taken[i].event.client}
    BY <1>1, <2>1
  <2> HIDE DEF PassedBetween
  <2> QED BY <1>1, <1>2, <1>3, <2>1, <2>2 DEF RateConforms
<1>4. CASE j = n + 1
  <2> DEFINE client == taken'[i].event.client
             time == taken'[i].event.time
  <2>1. /\ NewVerdict(event) = "allowed" /\ event.client = client
        /\ taken'[j].event.time = event.time /\ taken'[i].verdict = "allowed"
    BY <1>1, <1>2, <1>4
  <2>2. PassedBetween(i, j) = PassedAfter(client, i)
    BY <1>1, <1>4 DEF PassedAfter, PassedIn
  <2>3. Budget' /\ TypeOK'
    BY AddBudget, AddTypes
  <2>4. Cardinality(PassedAfter(client, i)) * Scale + buckets'[client].tokens
          <= Capacity + (buckets'[client].last - time) * Rate
    <3>1. i \in DOMAIN taken' /\ taken'[i].verdict = "allowed"
      BY <1>1, <2>1
    <3>2. \A k \in DOMAIN taken' :
            taken'[k].verdict = "allowed" =>
              LET earlier == taken'[k].event
                  bucket == buckets'[earlier.client]
              IN  /\ earlier.time <= bucket.last
                  /\ Cardinality(PassedAfter(earlier.client, k)) * Scale + bucket.tokens
                       <= Capacity + (bucket.last - earlier.time) * Rate
      BY <2>3 DEF Budget, Passed, PassedAfter
    <3> QED BY <3>1, <3>2
  <2>5. buckets'[client] = Taken(NewBucket(event))
    <3>1. buckets' = [c \in Tracked \cup {event.client} |->
                        IF c = event.client THEN Taken(NewBucket(event)) ELSE buckets[c]]
      <4>1. NewVerdict(event) # "overflow"
        BY <2>1
      <4> QED BY <4>1, AddParts
    <3>2. buckets'[event.client] = Taken(NewBucket(event))
      BY <3>1
    <3> QED BY <2>1, <3>2
  <2>6. buckets'[client].last = event.time /\ buckets'[client].tokens \in Nat
    <3>1. /\ Taken(NewBucket(event)) \in Bucket
          /\ Taken(NewBucket(event)).last = event.time
      BY <2>1, NewBucketFacts
    <3>2. Taken(NewBucket(event)).tokens \in Nat
      BY <3>1, Constants DEF Bucket
    <3> QED BY <2>5, <3>1, <3>2
  <2>7. Cardinality(PassedAfter(client, i)) * Scale \in Nat
    <3>1. Cardinality(PassedAfter(client, i)) \in Nat
      <4>1. IsFiniteSet(i .. (n + 1)) /\ PassedAfter(client, i) \in SUBSET (i .. (n + 1))
        BY <1>1, FS_Interval DEF PassedAfter, PassedIn
      <4> QED BY <4>1, FS_Subset, FS_CardinalityType
    <3> QED BY <3>1, Constants
  <2>8. event.time - time \in Int /\ (event.time - time) * Rate \in Int /\ Capacity \in Nat
    <3> DEFINE gap == event.time - time
    <3>1. taken'[i].event \in Event
      BY <1>1
    <3>2. event.time \in Nat /\ time \in Nat
      BY <3>1, EventType
    <3>3. gap \in Int
      BY <3>2
    <3> HIDE DEF gap
    <3>4. gap * Rate \in Int /\ Capacity \in Nat
      BY <3>3, Constants
    <3> QED BY <3>3, <3>4 DEF gap
  <2>9. Cardinality(PassedAfter(client, i)) * Scale <= Capacity + (event.time - time) * Rate
    <3> DEFINE spent == Cardinality(PassedAfter(client, i)) * Scale
               gained == (event.time - time) * Rate
               left == buckets'[client].tokens
    <3>1. spent + left <= Capacity + gained
      BY <2>4, <2>6
    <3>2. spent \in Nat /\ gained \in Int /\ left \in Nat /\ Capacity \in Nat
      BY <2>6, <2>7, <2>8
    <3> HIDE DEF spent, gained, left
    <3>3. spent <= Capacity + gained
      BY <3>1, <3>2
    <3> QED BY <3>3 DEF spent, gained
  <2>10. Spent(PassedAfter(client, i)) <= Room(time, event.time)
    BY <2>9
  <2> HIDE DEF PassedBetween, Spent, Room
  <2>11. Spent(PassedBetween(i, j)) <= Room(taken'[i].event.time, taken'[j].event.time)
    BY <2>1, <2>2, <2>10
  <2> QED BY <2>11 DEF Spent, Room
<1>5. i \in 1 .. (n + 1) /\ j \in 1 .. (n + 1) /\ n \in Nat
  BY <1>1
<1> HIDE DEF n
<1>6. j \in 1 .. n \/ j = n + 1
  BY ONLY <1>5
<1> HIDE DEF PassedBetween
<1> QED BY <1>3, <1>4, <1>6, Zenon

-----------------------------------------------------------------------------
(* Tables: the events a row is about, after one more.                       *)
Mine(key, event) ==
  CASE key[1] = "traffic_cells" -> <<NewRow(event), event.time>> = key[2]
    [] key[1] = "subject_stats" -> NewVerdict(event) # "overflow" /\ event.client = key[2]
    [] key[1] = "rate_profile_impacts" ->
         NewVerdict(event) = "allowed" \/ (NewVerdict(event) = "limited" /\ key[2] = "modeled")
    [] OTHER -> NewRow(event) = key[2]

LEMMA AboutType ==
  ASSUME TypeOK, NEW key
  PROVE  /\ About(key) \in SUBSET (1 .. Len(taken))
         /\ IsFiniteSet(About(key)) /\ Cardinality(About(key)) \in Nat
         /\ About(key) = {} <=> Cardinality(About(key)) = 0
<1>1. Len(taken) \in Nat /\ DOMAIN taken = 1 .. Len(taken)
  BY DEF TypeOK
<1>2. About(key) \in SUBSET (1 .. Len(taken)) /\ IsFiniteSet(1 .. Len(taken))
  BY <1>1, FS_Interval DEF About
<1> QED
  BY <1>2, FS_Subset, FS_CardinalityType, FS_EmptySet

LEMMA AboutAfter ==
  ASSUME TypeOK, NEW event \in Event, Add(event), NEW key
  PROVE  /\ About(key)' = IF Mine(key, event) THEN About(key) \cup {Len(taken) + 1}
                          ELSE About(key)
         /\ Cardinality(About(key)') =
              Cardinality(About(key)) + (IF Mine(key, event) THEN 1 ELSE 0)
<1> DEFINE n == Len(taken)
           Is(t) == CASE key[1] = "traffic_cells" -> <<t.row, t.event.time>> = key[2]
                      [] key[1] = "subject_stats" -> t.verdict # "overflow" /\ t.event.client = key[2]
                      [] key[1] = "rate_profile_impacts" ->
                           t.verdict = "allowed" \/ (t.verdict = "limited" /\ key[2] = "modeled")
                      [] OTHER -> t.row = key[2]
<1>1. /\ n \in Nat /\ DOMAIN taken = 1 .. n /\ DOMAIN taken' = 1 .. (n + 1)
      /\ taken'[n + 1] = [event |-> event, row |-> NewRow(event), verdict |-> NewVerdict(event)]
      /\ \A i \in 1 .. n : taken'[i] = taken[i]
  BY TakenFacts
<1>2. About(key)' = {i \in 1 .. (n + 1) : Is(taken'[i])}
  BY <1>1 DEF About
<1>3. About(key) = {i \in 1 .. n : Is(taken[i])}
  BY <1>1 DEF About
<1>4. Is(taken'[n + 1]) = Mine(key, event)
  BY <1>1 DEF Mine
<1>5. 1 .. (n + 1) = (1 .. n) \cup {n + 1} /\ n + 1 \notin 1 .. n
  BY <1>1
<1>6. About(key)' = IF Mine(key, event) THEN About(key) \cup {n + 1} ELSE About(key)
  <2> HIDE DEF Is
  <2> QED BY <1>1, <1>2, <1>3, <1>4, <1>5
<1>7. IsFiniteSet(About(key)) /\ Cardinality(About(key)) \in Nat /\ n + 1 \notin About(key)
  BY <1>5, AboutType
<1>8. Cardinality(About(key) \cup {n + 1}) = Cardinality(About(key)) + 1
  <2> HIDE DEF n
  <2> QED BY <1>7, FS_AddElement
<1> HIDE DEF n
<1> QED
  BY <1>6, <1>7, <1>8 DEF n

(* An event is counted in the rows it is about, a new route in its row.     *)
LEMMA RowsOfMine ==
  ASSUME TypeOK, NEW event \in Event, NEW key \in Key
  PROVE  key \in RowsOf(event, NewRow(event), NewVerdict(event)) <=>
           IF key[1] = "routes" THEN Mine(key, event) /\ NewRow(event) \notin routes
           ELSE Mine(key, event)
<1>1. NewRow(event) \in Row /\ NewVerdict(event) \in Verdict
  BY NewRowFacts, NewBucketFacts
<1>2. CASE key \in {"routes", "route_stats"} \X Row
  <2>1. PICK row \in Row : key = <<"routes", row>> \/ key = <<"route_stats", row>>
    BY <1>2
  <2> QED BY <1>1, <2>1 DEF RowsOf, SubjectRows, RateRows, ImpactColumns, Mine
<1>3. CASE key \in {"traffic_cells"} \X (Row \X Time)
  <2>1. PICK row \in Row, time \in Time : key = <<"traffic_cells", <<row, time>>>>
    BY <1>3
  <2> QED BY <1>1, <2>1 DEF RowsOf, SubjectRows, RateRows, ImpactColumns, Mine
<1>4. CASE key \in {"subject_stats"} \X Client
  <2>1. PICK client \in Client : key = <<"subject_stats", client>>
    BY <1>4
  <2> QED BY <1>1, <2>1 DEF RowsOf, SubjectRows, RateRows, ImpactColumns, Mine
<1>5. CASE key \in {"rate_profile_impacts"} \X {"modeled", "allowed"}
  <2>1. key = <<"rate_profile_impacts", "modeled">> \/ key = <<"rate_profile_impacts", "allowed">>
    BY <1>5
  <2> QED BY <1>1, <2>1 DEF RowsOf, SubjectRows, RateRows, ImpactColumns, Mine, Verdict
<1> QED BY <1>2, <1>3, <1>4, <1>5 DEF Key

(* What a row holds in memory and in the database.                          *)
LEMMA SumsAfter ==
  ASSUME TypeOK, NEW event \in Event, Add(event), NEW key \in Key
  PROVE  /\ memory[key] + stored[key] \in Nat
         /\ memory'[key] + stored'[key] =
              memory[key] + stored[key]
                + (IF key \in RowsOf(event, NewRow(event), NewVerdict(event)) THEN 1 ELSE 0)
<1>1. memory[key] \in Nat /\ stored[key] \in Nat
  BY DEF TypeOK
<1> DEFINE rows == NewRows(event)
           counted == key \in RowsOf(event, NewRow(event), NewVerdict(event))
<1>2. rows[key] = memory[key] + (IF counted THEN 1 ELSE 0)
  BY <1>1 DEF NewRows
<1>3. memory'[key] + stored'[key] = rows[key] + stored[key]
  <2>1. CASE Flush(rows, NewClients(event))
    <3>1. memory'[key] = 0 /\ stored'[key] = stored[key] + rows[key]
      BY <2>1 DEF Flush, StoredAfter, NoRows
    <3> HIDE DEF rows, counted
    <3> QED BY <1>1, <1>2, <3>1
  <2>2. CASE Keep(rows, NewClients(event))
    BY <2>2 DEF Keep
  <2> QED BY <2>1, <2>2, AddParts
<1> HIDE DEF rows, counted
<1> QED BY <1>1, <1>2, <1>3 DEF counted

RowsExact ==
  \A key \in Key :
    memory[key] + stored[key] =
      IF key[1] = "routes" /\ About(key) # {} THEN 1 ELSE Cardinality(About(key))

LEMMA AddRowsExact ==
  ASSUME TypeOK, Settled, RoutesTaken, RowsExact, NEW event \in Event, Add(event)
  PROVE  RowsExact' /\ RoutesTaken'
<1> DEFINE n == Len(taken)
<1>1. /\ n \in Nat /\ DOMAIN taken = 1 .. n /\ DOMAIN taken' = 1 .. (n + 1)
      /\ taken'[n + 1] = [event |-> event, row |-> NewRow(event), verdict |-> NewVerdict(event)]
      /\ \A i \in 1 .. n : taken'[i] = taken[i]
  BY TakenFacts
<1>2. RoutesTaken'
  <2>1. ASSUME NEW row \in routes' PROVE \E i \in DOMAIN taken' : taken'[i].row = row
    <3>1. CASE row = NewRow(event)
      <4>1. n + 1 \in 1 .. (n + 1) /\ taken'[n + 1].row = row
        BY <1>1, <3>1
      <4> QED BY <1>1, <4>1
    <3>2. CASE row \in routes
      <4>1. PICK i \in 1 .. n : taken[i].row = row
        BY <1>1, <3>2 DEF RoutesTaken
      <4>2. i \in 1 .. (n + 1) /\ taken'[i].row = row
        BY <1>1, <4>1
      <4> QED BY <1>1, <4>2
    <3>3. routes' = routes \cup {NewRow(event)}
      BY AddParts
    <3> QED BY <3>1, <3>2, <3>3
  <2> QED BY <2>1 DEF RoutesTaken
<1>3. ASSUME NEW key \in Key
      PROVE  memory'[key] + stored'[key] =
               IF key[1] = "routes" /\ About(key)' # {} THEN 1 ELSE Cardinality(About(key)')
  <2>1. /\ memory[key] + stored[key] =
             IF key[1] = "routes" /\ About(key) # {} THEN 1 ELSE Cardinality(About(key))
        /\ Cardinality(About(key)) \in Nat
        /\ About(key) = {} <=> Cardinality(About(key)) = 0
    BY AboutType DEF RowsExact
  <2>2. CASE key[1] # "routes"
    <3>1. memory'[key] + stored'[key] = memory[key] + stored[key] + (IF Mine(key, event) THEN 1 ELSE 0)
      BY <2>2, SumsAfter, RowsOfMine
    <3> QED BY <2>1, <2>2, <3>1, AboutAfter
  <2>3. CASE key[1] = "routes"
    <3>1. key[2] \in Row /\ key = <<"routes", key[2]>>
      BY <2>3 DEF Key
    <3>2. About(key) # {} <=> key[2] \in routes
      BY <1>1, <2>3 DEF About, Settled, RoutesTaken
    <3>3. Mine(key, event) <=> NewRow(event) = key[2]
      BY <2>3 DEF Mine
    <3>4. memory'[key] + stored'[key] =
            memory[key] + stored[key] + (IF NewRow(event) = key[2] /\ key[2] \notin routes THEN 1 ELSE 0)
      BY <2>3, <3>3, SumsAfter, RowsOfMine
    <3>5. About(key)' # {} <=> About(key) # {} \/ NewRow(event) = key[2]
      BY <3>3, AboutAfter
    <3>6. About(key)' = {} => Cardinality(About(key)') = 0
      BY FS_EmptySet
    <3> QED BY <2>1, <2>3, <3>2, <3>4, <3>5, <3>6
  <2> QED BY <2>2, <2>3
<1> QED BY <1>2, <1>3 DEF RowsExact

(* The clients of a row.                                                    *)
Seen(row) == {taken[i].event.client : i \in About(<<"route_stats", row>>)}

SketchesExact ==
  \A row \in Row : Smallest(sketches[row] \cup storedSketches[row]) = Smallest(Seen(row))

OverflowExact ==
  /\ overflow.routes = Cardinality(About(<<"route_stats", OverflowRoute>>))
  /\ overflow.subjects = Cardinality({i \in DOMAIN taken : taken[i].verdict = "overflow"})

LEMMA TablesParts == TablesExact <=> RowsExact /\ SketchesExact /\ OverflowExact
  BY DEF TablesExact, RowsExact, SketchesExact, OverflowExact, Seen

LEMMA SeenType ==
  ASSUME TypeOK, NEW row
  PROVE  Seen(row) \in SUBSET Nat /\ IsFiniteSet(Seen(row))
<1> DEFINE about == About(<<"route_stats", row>>)
           client == [i \in about |-> taken[i].event.client]
<1>1. IsFiniteSet(about) /\ about \subseteq DOMAIN taken
  BY AboutType DEF About
<1>2. \A i \in DOMAIN taken : taken[i].event.client \in Nat
  <2> DEFINE T == [event : Event, row : Row, verdict : Verdict]
  <2>1. taken \in Seq(T)
    BY DEF TypeOK
  <2>2. \A i \in DOMAIN taken : taken[i].event \in Event
    <3>1. \A i \in DOMAIN taken : taken[i] \in T
      <4> HIDE DEF T
      <4> QED BY <2>1
    <3> QED BY <3>1
  <2> QED BY <2>2, EventType
<1>3. client \in Surjection(about, Seen(row))
  BY DEF Surjection, Seen
<1> HIDE DEF client, about
<1>4. IsFiniteSet(Seen(row))
  BY <1>1, <1>3, FS_Surjection
<1> QED
  BY <1>1, <1>2, <1>4 DEF Seen, about

LEMMA SeenAfter ==
  ASSUME TypeOK, NEW event \in Event, Add(event), NEW row
  PROVE  Seen(row)' = IF row = NewRow(event) THEN Seen(row) \cup {event.client} ELSE Seen(row)
<1> DEFINE n == Len(taken)
           about == About(<<"route_stats", row>>)
<1>1. /\ n \in Nat /\ DOMAIN taken = 1 .. n
      /\ taken'[n + 1] = [event |-> event, row |-> NewRow(event), verdict |-> NewVerdict(event)]
      /\ \A i \in 1 .. n : taken'[i] = taken[i]
  BY TakenFacts
<1>2. about \subseteq 1 .. n
  BY AboutType
<1>3. Mine(<<"route_stats", row>>, event) <=> row = NewRow(event)
  BY DEF Mine
<1>4. about' = IF row = NewRow(event) THEN about \cup {n + 1} ELSE about
  BY <1>3, AboutAfter
<1>5. Seen(row) = {taken'[i].event.client : i \in about}
  BY <1>1, <1>2 DEF Seen
<1>6. Seen(row)' = {taken'[i].event.client : i \in about'}
  BY DEF Seen
<1>7. taken'[n + 1].event.client = event.client
  BY <1>1
<1> HIDE DEF about
<1> QED
  BY <1>4, <1>5, <1>6, <1>7

(* The sketch of a row, in memory and in the database together.             *)
LEMMA AddSketchesExact ==
  ASSUME TypeOK, Finite, SketchesExact, NEW event \in Event, Add(event)
  PROVE  SketchesExact'
<1> SUFFICES ASSUME NEW row \in Row
    PROVE  Smallest(sketches'[row] \cup storedSketches'[row]) = Smallest(Seen(row)')
  BY DEF SketchesExact, Smallest
<1> DEFINE old == sketches[row]
           kept == storedSketches[row]
           new == NewClients(event)[row]
           seen == Seen(row)
           mine == row = NewRow(event)
           more == IF mine THEN {event.client} ELSE {}
<1>1. /\ old \in SUBSET Nat /\ IsFiniteSet(old)
      /\ kept \in SUBSET Nat /\ IsFiniteSet(kept)
      /\ more \in SUBSET Nat /\ IsFiniteSet(more)
      /\ seen \in SUBSET Nat /\ IsFiniteSet(seen)
      /\ new \in SUBSET Nat /\ IsFiniteSet(new)
  <2>1. old \in SUBSET Nat /\ kept \in SUBSET Nat
    BY AggregationAssumption DEF TypeOK
  <2>2. IsFiniteSet(old) /\ IsFiniteSet(kept)
    BY DEF Finite
  <2>3. more \in SUBSET Nat /\ IsFiniteSet(more)
    BY EventType, FS_EmptySet, FS_Singleton
  <2>4. new \in SUBSET Nat /\ IsFiniteSet(new)
    BY NewTables, AggregationAssumption
  <2> QED BY <2>1, <2>2, <2>3, <2>4, SeenType
<1>2. Smallest(new \cup kept) = Smallest((old \cup kept) \cup more)
  <2>1. sketches \in [Row -> SUBSET Client]
    BY DEF TypeOK
  <2>2. CASE mine
    <3>1. new = Smallest(old \cup more)
      BY <2>1, <2>2 DEF NewClients
    <3>2. old \cup more \in SUBSET Nat /\ IsFiniteSet(old \cup more)
      BY <1>1, FS_Union
    <3>3. Smallest(Smallest(old \cup more) \cup kept) = Smallest((old \cup more) \cup kept)
      BY <1>1, <3>2, SmallestMerges
    <3>4. (old \cup more) \cup kept = (old \cup kept) \cup more
      OBVIOUS
    <3> QED BY <3>1, <3>3, <3>4
  <2>3. CASE ~mine
    <3>1. new = old /\ more = {}
      BY <2>1, <2>3 DEF NewClients
    <3>2. new \cup kept = (old \cup kept) \cup more
      BY <3>1
    <3> QED BY <3>2
  <2> QED BY <2>2, <2>3
<1>3. IsFiniteSet(old \cup kept) /\ old \cup kept \in SUBSET Nat
  BY <1>1, FS_Union
<1>4. Smallest((old \cup kept) \cup more) = Smallest(seen \cup more)
  <2>1. Smallest(old \cup kept) = Smallest(seen)
    BY DEF SketchesExact
  <2>2. /\ Smallest(Smallest(old \cup kept) \cup more) = Smallest((old \cup kept) \cup more)
        /\ Smallest(Smallest(seen) \cup more) = Smallest(seen \cup more)
    BY <1>1, <1>3, SmallestMerges
  <2> QED BY <2>1, <2>2
<1>5. Seen(row)' = seen \cup more
  BY SeenAfter
<1>6. Smallest(sketches'[row] \cup storedSketches'[row]) = Smallest(new \cup kept)
  <2>1. CASE Flush(NewRows(event), NewClients(event))
    <3>1. sketches'[row] = {} /\ storedSketches'[row] = Smallest(kept \cup new)
      BY <2>1 DEF Flush, StoredAfter, SketchesMerged, NoClients
    <3>2. IsFiniteSet(kept \cup new) /\ kept \cup new \in SUBSET Nat
      BY <1>1, FS_Union
    <3>3. Smallest(Smallest(kept \cup new) \cup {}) = Smallest((kept \cup new) \cup {})
      BY <3>2, FS_EmptySet, SmallestMerges
    <3>4. /\ sketches'[row] \cup storedSketches'[row] = Smallest(kept \cup new) \cup {}
          /\ (kept \cup new) \cup {} = new \cup kept
      BY <3>1
    <3> QED BY <3>3, <3>4
  <2>2. CASE Keep(NewRows(event), NewClients(event))
    BY <2>2 DEF Keep
  <2> QED BY <2>1, <2>2, AddParts
<1> QED
  BY <1>2, <1>4, <1>5, <1>6

LEMMA AddOverflowExact ==
  ASSUME TypeOK, OverflowExact, NEW event \in Event, Add(event)
  PROVE  OverflowExact'
<1> DEFINE n == Len(taken)
           left == {i \in DOMAIN taken : taken[i].verdict = "overflow"}
           over == NewVerdict(event) = "overflow"
<1>0. overflow' =
        [routes |-> overflow.routes + (IF NewRow(event) = OverflowRoute THEN 1 ELSE 0),
         subjects |-> overflow.subjects + (IF over THEN 1 ELSE 0)]
  BY AddParts
<1>1. /\ n \in Nat /\ DOMAIN taken = 1 .. n /\ DOMAIN taken' = 1 .. (n + 1)
      /\ taken'[n + 1] = [event |-> event, row |-> NewRow(event), verdict |-> NewVerdict(event)]
      /\ \A i \in 1 .. n : taken'[i] = taken[i]
  BY TakenFacts
<1>2. overflow'.routes = Cardinality(About(<<"route_stats", OverflowRoute>>)')
  <2>1. Mine(<<"route_stats", OverflowRoute>>, event) <=> NewRow(event) = OverflowRoute
    BY DEF Mine
  <2>2. overflow'.routes = overflow.routes + (IF NewRow(event) = OverflowRoute THEN 1 ELSE 0)
    BY <1>0
  <2> QED BY <2>1, <2>2, AboutAfter DEF OverflowExact
<1>3. overflow'.subjects = Cardinality(left')
  <2>1. IsFiniteSet(left) /\ n + 1 \notin left
    <3>1. IsFiniteSet(1 .. n) /\ left \in SUBSET (1 .. n) /\ n + 1 \notin 1 .. n
      BY <1>1, FS_Interval, SMTT(30)
    <3> QED BY <3>1, FS_Subset
  <2>2. left' = IF over THEN left \cup {n + 1} ELSE left
    <3>1. taken'[n + 1].verdict = NewVerdict(event)
      BY <1>1
    <3>2. 1 .. (n + 1) = (1 .. n) \cup {n + 1}
      BY <1>1
    <3> QED BY <1>1, <3>1, <3>2
  <2>3. Cardinality(left \cup {n + 1}) = Cardinality(left) + 1 /\ Cardinality(left) \in Nat
    <3> HIDE DEF left, n
    <3> QED BY <2>1, FS_AddElement, FS_CardinalityType
  <2>4. overflow'.subjects = overflow.subjects + (IF over THEN 1 ELSE 0)
    BY <1>0
  <2>5. overflow.subjects = Cardinality(left)
    BY DEF OverflowExact
  <2> HIDE DEF left, over, n
  <2> QED BY <2>2, <2>3, <2>4, <2>5
<1> QED
  BY <1>2, <1>3 DEF OverflowExact

-----------------------------------------------------------------------------
(* The steps of the analysis that touch the aggregates.                     *)
LEMMA AggregationStarts == AggregationInit => AggregationInv
<1> SUFFICES ASSUME AggregationInit PROVE AggregationInv
  OBVIOUS
<1>1. /\ routes = {} /\ buckets = << >> /\ taken = << >>
      /\ memory = NoRows /\ stored = NoRows
      /\ sketches = NoClients /\ storedSketches = NoClients
      /\ overflow = [routes |-> 0, subjects |-> 0]
  BY DEF AggregationInit
<1>2. Tracked = {} /\ DOMAIN taken = {} /\ IsFiniteSet({}) /\ Cardinality({}) = 0
  BY <1>1, FS_EmptySet DEF Tracked
<1>3. TypeOK
  <2>1. buckets \in [{} -> Bucket]
    BY <1>1
  <2>2. 0 <= MaxRateSubjects /\ 0 <= MaxRoutes
    BY Constants
  <2>3. routes \ {OverflowRoute} = {}
    BY <1>1
  <2>4. taken \in Seq([event : Event, row : Row, verdict : Verdict])
    BY <1>1
  <2> QED BY <1>1, <1>2, <2>1, <2>2, <2>3, <2>4, NothingInMemory DEF TypeOK, Bucket
<1>4. Finite
  BY <1>1, <1>2, NothingInMemory DEF Finite
<1>5. Settled /\ Budget /\ RateConforms /\ RoutesTaken
  BY <1>1, <1>2 DEF Settled, Budget, RateConforms, RoutesTaken
<1>6. \A key : About(key) = {}
  BY <1>2 DEF About
<1>7. RowsExact /\ SketchesExact /\ OverflowExact
  <2>1. RowsExact
    <3>1. \A key \in Key : memory[key] + stored[key] = 0
      BY <1>1 DEF NoRows
    <3>2. \A key : Cardinality(About(key)) = 0
      BY <1>2, <1>6
    <3> QED BY <1>6, <3>1, <3>2 DEF RowsExact
  <2>2. SketchesExact
    BY <1>1, <1>6 DEF SketchesExact, Seen, NoClients
  <2>3. OverflowExact
    BY <1>1, <1>2, <1>6 DEF OverflowExact
  <2> QED BY <2>1, <2>2, <2>3
<1> QED
  BY <1>3, <1>4, <1>5, <1>7, TablesParts DEF AggregationInv

LEMMA AddKeeps ==
  ASSUME AggregationInv, NEW event \in Event, Add(event)
  PROVE  AggregationInv'
<1>1. TypeOK /\ Finite /\ Settled /\ Budget /\ RateConforms /\ RoutesTaken
  BY DEF AggregationInv
<1>2. RowsExact /\ SketchesExact /\ OverflowExact
  BY TablesParts DEF AggregationInv
<1>3. TypeOK' /\ Finite' /\ Settled' /\ Budget' /\ RateConforms'
  BY <1>1, AddTypes, AddSettled, AddBudget, AddConforms
<1>4. RowsExact' /\ RoutesTaken' /\ SketchesExact' /\ OverflowExact'
  BY <1>1, <1>2, AddRowsExact, AddSketchesExact, AddOverflowExact
<1>5. TablesExact'
  BY <1>4 DEF TablesExact, RowsExact, SketchesExact, OverflowExact, Seen
<1> QED
  BY <1>3, <1>4, <1>5 DEF AggregationInv

(* Emptying the batch changes no table as a whole.                          *)
LEMMA FinishKeeps ==
  ASSUME AggregationInv, Finish
  PROVE  AggregationInv' /\ memory' = NoRows
<1>1. /\ TypeOK /\ Finite /\ Settled /\ Budget /\ RateConforms /\ RoutesTaken
      /\ RowsExact /\ SketchesExact /\ OverflowExact
  BY TablesParts DEF AggregationInv
<1>2. /\ Flush(memory, sketches)
      /\ routes' = routes /\ buckets' = buckets /\ overflow' = overflow /\ taken' = taken
  BY DEF Finish
<1>3. /\ memory \in [Key -> Nat] /\ stored \in [Key -> Nat]
      /\ sketches \in [Row -> SUBSET Client] /\ storedSketches \in [Row -> SUBSET Client]
      /\ \A row \in Row : /\ IsFiniteSet(sketches[row]) /\ IsFiniteSet(storedSketches[row])
                          /\ Cardinality(sketches[row]) <= K
  BY <1>1 DEF TypeOK, Finite
<1>4. /\ {memory', stored'} \subseteq [Key -> Nat]
      /\ {sketches', storedSketches'} \subseteq [Row -> SUBSET Client]
      /\ \A row \in Row : /\ Cardinality(sketches'[row]) <= K
                          /\ IsFiniteSet(sketches'[row]) /\ IsFiniteSet(storedSketches'[row])
  BY <1>1, <1>2, <1>3, FlushTypes
<1>5. Tracked' = Tracked /\ \A key : About(key)' = About(key)
  BY <1>2 DEF Tracked, About
<1>6. TypeOK' /\ Finite'
  BY <1>1, <1>2, <1>4, <1>5 DEF TypeOK, Finite
<1>7. Settled' /\ RoutesTaken' /\ RateConforms'
  <2>1. Settled'
    BY <1>1, <1>2, <1>5 DEF Settled, HasRow, Counted
  <2>2. RoutesTaken'
    BY <1>1, <1>2 DEF RoutesTaken
  <2>3. RateConforms'
    BY <1>1, <1>2 DEF RateConforms
  <2> QED BY <2>1, <2>2, <2>3
<1>8. Budget'
  BY <1>1, <1>2 DEF Budget, Passed
<1>9. RowsExact'
  <2>1. \A key \in Key : memory'[key] + stored'[key] = memory[key] + stored[key]
    BY <1>2, <1>3 DEF Flush, StoredAfter, NoRows
  <2> QED BY <1>1, <1>5, <2>1 DEF RowsExact
<1>10. SketchesExact'
  <2>1. ASSUME NEW row \in Row
        PROVE  Smallest(sketches'[row] \cup storedSketches'[row]) =
                 Smallest(sketches[row] \cup storedSketches[row])
    <3> DEFINE both == storedSketches[row] \cup sketches[row]
    <3>1. sketches'[row] \cup storedSketches'[row] = Smallest(both) \cup {}
      BY <1>2, <1>3 DEF Flush, StoredAfter, SketchesMerged, NoClients
    <3>2. both \in SUBSET Nat /\ IsFiniteSet(both)
      BY <1>3, FS_Union, AggregationAssumption
    <3>3. Smallest(Smallest(both) \cup {}) = Smallest(both \cup {})
      BY <3>2, FS_EmptySet, SmallestMerges
    <3>4. both \cup {} = sketches[row] \cup storedSketches[row]
      OBVIOUS
    <3> QED BY <3>1, <3>3, <3>4
  <2>2. \A row : Seen(row)' = Seen(row)
    BY <1>2, <1>5 DEF Seen
  <2>3. \A row \in Row :
          Smallest(sketches'[row] \cup storedSketches'[row]) = Smallest(Seen(row)')
    BY <1>1, <2>1, <2>2 DEF SketchesExact
  <2> QED BY <2>3 DEF SketchesExact, Smallest
<1>11. OverflowExact'
  BY <1>1, <1>2, <1>5 DEF OverflowExact
<1>12. TablesExact'
  BY <1>9, <1>10, <1>11 DEF TablesExact, RowsExact, SketchesExact, OverflowExact, Seen
<1> QED
  BY <1>2, <1>6, <1>7, <1>8, <1>12 DEF AggregationInv, Flush, StoredAfter

LEMMA UnchangedKeeps ==
  ASSUME AggregationInv, UNCHANGED aggregation
  PROVE  AggregationInv'
<1>1. /\ routes' = routes /\ buckets' = buckets /\ overflow' = overflow /\ taken' = taken
      /\ memory' = memory /\ stored' = stored
      /\ sketches' = sketches /\ storedSketches' = storedSketches
  BY DEF aggregation
<1>2. Tracked' = Tracked /\ \A key : About(key)' = About(key)
  BY <1>1 DEF Tracked, About
<1>3. TypeOK' /\ Finite'
  BY <1>1, <1>2 DEF AggregationInv, TypeOK, Finite
<1>4. Settled' /\ RoutesTaken' /\ RateConforms' /\ Budget'
  <2>1. Settled /\ RoutesTaken /\ RateConforms /\ Budget
    BY DEF AggregationInv
  <2>2. Settled'
    BY <1>1, <1>2, <2>1 DEF Settled, HasRow, Counted
  <2>3. RoutesTaken'
    BY <1>1, <2>1 DEF RoutesTaken
  <2>4. RateConforms'
    BY <1>1, <2>1 DEF RateConforms
  <2>5. Budget'
    BY <1>1, <2>1 DEF Budget, Passed
  <2> QED BY <2>2, <2>3, <2>4, <2>5
<1>5. TablesExact'
  <2>1. RowsExact /\ SketchesExact /\ OverflowExact
    BY TablesParts DEF AggregationInv
  <2>2. RowsExact'
    BY <1>1, <1>2, <2>1 DEF RowsExact
  <2>3. SketchesExact'
    <3>1. \A row : Seen(row)' = Seen(row)
      BY <1>1, <1>2 DEF Seen
    <3>2. \A row \in Row :
            Smallest(sketches'[row] \cup storedSketches'[row]) = Smallest(Seen(row)')
      BY <1>1, <2>1, <3>1 DEF SketchesExact
    <3> QED BY <3>2 DEF SketchesExact, Smallest
  <2>4. OverflowExact'
    BY <1>1, <1>2, <2>1 DEF OverflowExact
  <2> QED BY <2>2, <2>3, <2>4 DEF TablesExact, RowsExact, SketchesExact, OverflowExact, Seen
<1> QED
  BY <1>3, <1>4, <1>5 DEF AggregationInv

-----------------------------------------------------------------------------
(* The steps of the analysis *)

(* The order of the last steps.                                             *)
LEMMA OrderFacts ==
  /\ Len(Order) = 12
  /\ Steps = {"finish", "load", "findings", "report.json", "report.html", "complete",
              "optimize", "checkpoint", "close", "inspect", "manifest.json", "done"}
  /\ Order[1] = "finish"
<1>1. Len(Order) = 12
  BY DEF Order
<1>2. 1 .. 12 = {1, 2, 3, 4, 5, 6, 7, 8, 9, 10, 11, 12}
  OBVIOUS
<1>3. /\ Order[1] = "finish" /\ Order[2] = "load" /\ Order[3] = "findings"
      /\ Order[4] = "report.json" /\ Order[5] = "report.html" /\ Order[6] = "complete"
      /\ Order[7] = "optimize" /\ Order[8] = "checkpoint" /\ Order[9] = "close"
      /\ Order[10] = "inspect" /\ Order[11] = "manifest.json" /\ Order[12] = "done"
  BY DEF Order
<1> QED
  BY <1>1, <1>2, <1>3 DEF Steps

LEMMA AfterFacts ==
  /\ After("finish") = "load" /\ After("load") = "findings"
  /\ After("findings") = "report.json" /\ After("report.json") = "report.html"
  /\ After("report.html") = "complete" /\ After("complete") = "optimize"
  /\ After("optimize") = "checkpoint" /\ After("checkpoint") = "close"
  /\ After("close") = "inspect" /\ After("inspect") = "manifest.json"
  /\ After("manifest.json") = "done"
<1>1. Len(Order) = 12
  BY OrderFacts
<1>2. /\ Order[1] = "finish" /\ Order[2] = "load" /\ Order[3] = "findings"
      /\ Order[4] = "report.json" /\ Order[5] = "report.html" /\ Order[6] = "complete"
      /\ Order[7] = "optimize" /\ Order[8] = "checkpoint" /\ Order[9] = "close"
      /\ Order[10] = "inspect" /\ Order[11] = "manifest.json" /\ Order[12] = "done"
  BY DEF Order
<1>3. 1 .. 12 - 1 = {1, 2, 3, 4, 5, 6, 7, 8, 9, 10, 11}
  OBVIOUS
<1>4. \A a \in 1 .. 11 :
      /\ Order[a] = "finish" <=> a = 1
      /\ Order[a] = "load" <=> a = 2
      /\ Order[a] = "findings" <=> a = 3
      /\ Order[a] = "report.json" <=> a = 4
      /\ Order[a] = "report.html" <=> a = 5
      /\ Order[a] = "complete" <=> a = 6
      /\ Order[a] = "optimize" <=> a = 7
      /\ Order[a] = "checkpoint" <=> a = 8
      /\ Order[a] = "close" <=> a = 9
      /\ Order[a] = "inspect" <=> a = 10
      /\ Order[a] = "manifest.json" <=> a = 11
  BY <1>2, <1>3
<1>5. ASSUME NEW a \in 1 .. 11, NEW k \in 1 .. 11, Order[a] = Order[k] PROVE a = k
  BY <1>2, <1>3, <1>4, <1>5
<1>6. ASSUME NEW k \in 1 .. 11 PROVE After(Order[k]) = Order[1 + k]
  <2> DEFINE i == CHOOSE i \in 1 .. Len(Order) - 1 : Order[i] = Order[k]
  <2>1. i \in 1 .. 11 /\ Order[i] = Order[k]
    BY <1>1
  <2>2. i = k
    BY <1>5, <2>1
  <2> QED BY <2>2 DEF After
<1> QED
  BY <1>2, <1>3, <1>6

-----------------------------------------------------------------------------
(* The invariant *)

Loaded ==
  {"findings", "report.json", "report.html", "complete", "optimize", "checkpoint", "close",
   "inspect", "manifest.json", "done"}
Completed == {"optimize", "checkpoint", "close", "inspect", "manifest.json", "done"}
Closed == {"inspect", "manifest.json", "done"}
Inspected == {"manifest.json", "done"}

Counting ==
  /\ lines \in Counters /\ total \in Counters /\ total.rejected <= MaxRejected
  /\ sourceFiles \in Seq(Counters) /\ Len(sourceFiles) <= Sources

Flags == findings \in BOOLEAN /\ sideFiles \in BOOLEAN /\ late \in BOOLEAN

Places ==
  /\ pc \in Steps \cup {"open", "create", "lines", "failed", "crashed"}
  /\ status \in {"none", "running", "completed", "failed", "canceled"}
  /\ temporary \subseteq File /\ entries \subseteq File
  /\ reader \in {"idle", "residue", "hash", "verify", "side files", "opened", "refused"}
  /\ residue \subseteq File

PipelineType == Counting /\ Flags /\ Places

Hashed == ~sideFiles /\ hashes = Digests

(* What each step leaves behind for the next ones. *)
Progress ==
  /\ total.accepted = Len(taken)
  /\ pc \in {"open", "create", "lines"} => Len(sourceFiles) < Sources
  /\ pc \in Steps => Len(sourceFiles) = Sources
  /\ pc \in Loaded \cup {"load"} => memory = NoRows
  /\ pc \in Loaded => data = ReportData
  /\ pc \in Loaded \ {"findings"} => findings = TRUE
  /\ pc \in Completed => status = "completed"
  /\ pc \in Closed => sideFiles = FALSE
  /\ pc \in Inspected => Hashed

(* The manifest is the last file there is, and it says what is so. *)
Manifest ==
  /\ "manifest.json" \in entries => pc \in Inspected \cup {"crashed"} /\ Complete /\ Hashed
  /\ pc = "done" => "manifest.json" \in entries

(* A temporary name that is left is that of a published file. *)
Names == pc \notin {"failed", "crashed"} => temporary \subseteq entries \cup {pc}

Readers ==
  /\ reader # "idle" => "manifest.json" \in entries
  /\ late = TRUE => pc = "done" /\ residue \subseteq temporary
  /\ reader = "refused" => late = FALSE

Pipeline == PipelineType /\ Progress /\ Manifest /\ Names /\ Readers

Invariant == AggregationInv /\ Pipeline

LEMMA TypeParts == TypeOK /\ PipelineType => AnalysisTypeOK
<1> SUFFICES ASSUME TypeOK, PipelineType PROVE AnalysisTypeOK
  OBVIOUS
<1>1. {findings, sideFiles, late} \subseteq BOOLEAN
  BY DEF PipelineType, Flags
<1>2. {lines, total} \subseteq Counters
  BY DEF PipelineType, Counting
<1> QED
  BY <1>1, <1>2 DEF PipelineType, Counting, Places, AnalysisTypeOK

LEMMA StepNames ==
  Steps = Loaded \cup {"finish", "load"}
  BY OrderFacts DEF Loaded

LEMMA Starts == Init => Invariant
<1> SUFFICES ASSUME Init PROVE Invariant
  OBVIOUS
<1>1. AggregationInv
  BY AggregationStarts DEF Init
<1>2. Sources \in Nat \ {0} /\ MaxRejected \in Nat
  BY AnalysisAssumption
<1>3. Zero \in Counters /\ Zero.rejected = 0 /\ Zero.accepted = 0
  BY DEF Zero, Counters
<1>4. taken = << >> /\ sourceFiles = << >> /\ pc = "open"
  BY DEF Init, AggregationInit
<1>5. sourceFiles \in Seq(Counters) /\ Len(sourceFiles) = 0 /\ Len(taken) = 0
  BY <1>4
<1>6. PipelineType
  <2>1. Flags
    BY DEF Init, Flags
  <2>2. Counting
    BY <1>2, <1>3, <1>5 DEF Init, Counting
  <2>3. Places
    BY DEF Init, Places
  <2> QED BY <2>1, <2>2, <2>3 DEF PipelineType
<1>7. Progress
  BY <1>2, <1>3, <1>4, <1>5, StepNames
  DEF Init, Progress, Loaded, Completed, Closed, Inspected
<1>8. Manifest /\ Names /\ Readers
  BY DEF Init, Manifest, Names, Readers
<1> QED
  BY <1>1, <1>6, <1>7, <1>8 DEF Invariant, Pipeline

(* What every step is given: the invariant and the names of the steps.      *)
LEMMA Given ==
  ASSUME Invariant
  PROVE  /\ PipelineType /\ Progress /\ Manifest /\ Names /\ Readers
         /\ Sources \in Nat \ {0} /\ Len(sourceFiles) \in Nat /\ Len(taken) \in Nat
<1>1. TypeOK
  BY DEF Invariant, AggregationInv
<1>2. Len(taken) \in Nat
  <2> DEFINE T == [event : Event, row : Row, verdict : Verdict]
  <2>1. taken \in Seq(T)
    BY <1>1 DEF TypeOK
  <2> HIDE DEF T
  <2> QED BY <2>1
<1>3. Len(sourceFiles) \in Nat
  BY DEF Invariant, Pipeline, PipelineType, Counting
<1> QED
  BY <1>2, <1>3, AnalysisAssumption DEF Invariant, Pipeline

LEMMA LineCounts ==
  ASSUME Invariant, NEW kind \in {"accepted", "rejected", "skipped"}, Line(kind),
         kind = "rejected" => total.rejected < MaxRejected
  PROVE  Counting' /\ total'.accepted = total.accepted + (IF kind = "accepted" THEN 1 ELSE 0)
<1>1. /\ lines \in Counters /\ total \in Counters /\ total.rejected <= MaxRejected
      /\ MaxRejected \in Nat
  BY Given, AnalysisAssumption DEF PipelineType, Counting
<1>2. ASSUME NEW c \in Counters
      PROVE  /\ [c EXCEPT ![kind] = @ + 1] \in Counters
             /\ \A other \in {"accepted", "rejected", "skipped"} :
                  [c EXCEPT ![kind] = @ + 1][other] = c[other] + (IF other = kind THEN 1 ELSE 0)
  BY DEF Counters
<1>3. /\ lines' = [lines EXCEPT ![kind] = @ + 1] /\ total' = [total EXCEPT ![kind] = @ + 1]
      /\ sourceFiles' = sourceFiles
  BY DEF Line
<1>4. lines' \in Counters /\ total' \in Counters
  BY <1>1, <1>2, <1>3
<1>5. /\ total'.rejected = total.rejected + (IF kind = "rejected" THEN 1 ELSE 0)
      /\ total'.accepted = total.accepted + (IF kind = "accepted" THEN 1 ELSE 0)
  BY <1>1, <1>2, <1>3
<1>6. total.rejected \in Nat
  BY <1>1 DEF Counters
<1>7. total'.rejected <= MaxRejected
  BY <1>1, <1>5, <1>6
<1> QED
  BY <1>1, <1>3, <1>4, <1>5, <1>7, Given DEF PipelineType, Counting

LEMMA OpenKeeps == ASSUME Invariant, Open PROVE Pipeline'
<1>1. PipelineType'
  <2>1. Counting'
    BY Given DEF PipelineType, Progress, Counting, Open, Counters
  <2>2. Flags'
    BY Given DEF PipelineType, Flags, Open, reading
  <2>3. Places'
    BY Given, StepNames, AfterFacts, OrderFacts DEF PipelineType, Places, Open, reading, Loaded
  <2> QED BY <2>1, <2>2, <2>3 DEF PipelineType
<1>2. Progress'
  BY Given, StepNames, AfterFacts, OrderFacts
  DEF PipelineType, Counting, Progress, Open, aggregation, Loaded, Completed, Closed, Inspected, Hashed, Database, ReportData, Digests, Counters
<1>3. Manifest'
  BY Given, StepNames, AfterFacts, OrderFacts
  DEF PipelineType, Progress, Manifest, Complete, Places, Open, aggregation, Loaded, Completed, Closed, Inspected, Hashed, Database, ReportData, Digests
<1>4. Names'
  BY Given, StepNames, AfterFacts, OrderFacts DEF PipelineType, Places, Names, Open, File, Loaded
<1>5. Readers'
  BY Given DEF PipelineType, Progress, Manifest, Readers, Open, reading, Inspected
<1> QED
  BY <1>1, <1>2, <1>3, <1>4, <1>5 DEF Pipeline

LEMMA CreateAnalysisKeeps == ASSUME Invariant, CreateAnalysis PROVE Pipeline'
<1>1. PipelineType'
  <2>1. Counting'
    BY Given DEF PipelineType, Progress, Counting, CreateAnalysis, Counters
  <2>2. Flags'
    BY Given DEF PipelineType, Flags, CreateAnalysis, reading
  <2>3. Places'
    BY Given, StepNames, AfterFacts, OrderFacts DEF PipelineType, Places, CreateAnalysis, reading, Loaded
  <2> QED BY <2>1, <2>2, <2>3 DEF PipelineType
<1>2. Progress'
  BY Given, StepNames, AfterFacts, OrderFacts
  DEF PipelineType, Counting, Progress, CreateAnalysis, aggregation, Loaded, Completed, Closed, Inspected, Hashed, Database, ReportData, Digests, Counters
<1>3. Manifest'
  BY Given, StepNames, AfterFacts, OrderFacts
  DEF PipelineType, Progress, Manifest, Complete, Places, CreateAnalysis, aggregation, Loaded, Completed, Closed, Inspected, Hashed, Database, ReportData, Digests
<1>4. Names'
  BY Given, StepNames, AfterFacts, OrderFacts DEF PipelineType, Places, Names, CreateAnalysis, File, Loaded
<1>5. Readers'
  BY Given DEF PipelineType, Progress, Manifest, Readers, CreateAnalysis, reading, Inspected
<1> QED
  BY <1>1, <1>2, <1>3, <1>4, <1>5 DEF Pipeline

LEMMA AcceptKeeps == ASSUME Invariant, NEW event \in Event, Accept(event) PROVE Pipeline'
<1>0. Line("accepted") /\ Len(taken') = Len(taken) + 1
  <2>1. Line("accepted") /\ Add(event) /\ TypeOK
    BY DEF Accept, Invariant, AggregationInv
  <2> QED BY <2>1, TakenFacts
<1>1. PipelineType'
  <2>1. Counting'
    BY <1>0, LineCounts
  <2>2. Flags'
    BY <1>0, Given DEF PipelineType, Flags, Line, reading
  <2>3. Places'
    BY <1>0, Given, StepNames, OrderFacts DEF PipelineType, Places, Line, reading, Loaded
  <2> QED BY <2>1, <2>2, <2>3 DEF PipelineType
<1>2. Progress'
  <2>1. total'.accepted = Len(taken')
    BY <1>0, LineCounts, Given DEF Progress, PipelineType, Counting, Counters
  <2>2. pc = "lines" /\ pc' = pc /\ sourceFiles' = sourceFiles
    BY <1>0 DEF Line
  <2> QED
    BY <2>1, <2>2, Given, StepNames DEF Progress, Loaded, Completed, Closed, Inspected
<1>3. Manifest' /\ Names'
  BY <1>0, Given DEF Manifest, Names, Line, Inspected
<1>4. Readers'
  BY <1>0, Given DEF PipelineType, Progress, Manifest, Readers, Line, reading, Inspected
<1> QED
  BY <1>1, <1>2, <1>3, <1>4 DEF Pipeline

LEMMA RejectKeeps == ASSUME Invariant, Reject PROVE Pipeline'
<1>1. PipelineType'
  <2>1. Counting'
    BY LineCounts DEF Reject
  <2>2. Flags'
    BY Given DEF PipelineType, Flags, Reject, Line, reading
  <2>3. Places'
    BY Given, StepNames, AfterFacts, OrderFacts DEF PipelineType, Places, Reject, Line, reading, Loaded
  <2> QED BY <2>1, <2>2, <2>3 DEF PipelineType
<1>2. Progress'
  BY Given, StepNames, AfterFacts, OrderFacts
  DEF PipelineType, Counting, Progress, Reject, Line, aggregation, Loaded, Completed, Closed, Inspected, Hashed, Database, ReportData, Digests, Counters
<1>3. Manifest'
  BY Given, StepNames, AfterFacts, OrderFacts
  DEF PipelineType, Progress, Manifest, Complete, Places, Reject, Line, aggregation, Loaded, Completed, Closed, Inspected, Hashed, Database, ReportData, Digests
<1>4. Names'
  BY Given, StepNames, AfterFacts, OrderFacts DEF PipelineType, Places, Names, Reject, Line, File, Loaded
<1>5. Readers'
  BY Given DEF PipelineType, Progress, Manifest, Readers, Reject, Line, reading, Inspected
<1> QED
  BY <1>1, <1>2, <1>3, <1>4, <1>5 DEF Pipeline

LEMMA SkipKeeps == ASSUME Invariant, Skip PROVE Pipeline'
<1>1. PipelineType'
  <2>1. Counting'
    BY LineCounts DEF Skip
  <2>2. Flags'
    BY Given DEF PipelineType, Flags, Skip, Line, reading
  <2>3. Places'
    BY Given, StepNames, AfterFacts, OrderFacts DEF PipelineType, Places, Skip, Line, reading, Loaded
  <2> QED BY <2>1, <2>2, <2>3 DEF PipelineType
<1>2. Progress'
  BY Given, StepNames, AfterFacts, OrderFacts
  DEF PipelineType, Counting, Progress, Skip, Line, aggregation, Loaded, Completed, Closed, Inspected, Hashed, Database, ReportData, Digests, Counters
<1>3. Manifest'
  BY Given, StepNames, AfterFacts, OrderFacts
  DEF PipelineType, Progress, Manifest, Complete, Places, Skip, Line, aggregation, Loaded, Completed, Closed, Inspected, Hashed, Database, ReportData, Digests
<1>4. Names'
  BY Given, StepNames, AfterFacts, OrderFacts DEF PipelineType, Places, Names, Skip, Line, File, Loaded
<1>5. Readers'
  BY Given DEF PipelineType, Progress, Manifest, Readers, Skip, Line, reading, Inspected
<1> QED
  BY <1>1, <1>2, <1>3, <1>4, <1>5 DEF Pipeline

LEMMA CompleteSourceKeeps == ASSUME Invariant, CompleteSource PROVE Pipeline'
<1>1. PipelineType'
  <2>1. Counting'
    <3>1. /\ lines \in Counters /\ sourceFiles \in Seq(Counters) /\ Zero \in Counters
          /\ sourceFiles' = Append(sourceFiles, lines) /\ Len(sourceFiles) < Sources
          /\ lines' = Zero /\ total' = total
      BY Given DEF PipelineType, Progress, Counting, CompleteSource, SourcesAfter, Counters, Zero
    <3>2. sourceFiles' \in Seq(Counters) /\ Len(sourceFiles') = Len(sourceFiles) + 1
      BY <3>1
    <3> QED BY <3>1, <3>2, Given DEF PipelineType, Counting
  <2>2. Flags'
    BY Given DEF PipelineType, Flags, CompleteSource, reading
  <2>3. Places'
    BY Given, StepNames, AfterFacts, OrderFacts DEF PipelineType, Places, CompleteSource, SourcesAfter, reading, Loaded
  <2> QED BY <2>1, <2>2, <2>3 DEF PipelineType
<1>2. Progress'
  BY Given, StepNames, AfterFacts, OrderFacts
  DEF PipelineType, Counting, Progress, CompleteSource, SourcesAfter, aggregation, Loaded, Completed, Closed, Inspected, Hashed, Database, ReportData, Digests, Counters
<1>3. Manifest'
  BY Given, StepNames, AfterFacts, OrderFacts
  DEF PipelineType, Progress, Manifest, Complete, Places, CompleteSource, SourcesAfter, aggregation, Loaded, Completed, Closed, Inspected, Hashed, Database, ReportData, Digests
<1>4. Names'
  BY Given, StepNames, AfterFacts, OrderFacts DEF PipelineType, Places, Names, CompleteSource, File, Loaded
<1>5. Readers'
  BY Given DEF PipelineType, Progress, Manifest, Readers, CompleteSource, reading, Inspected
<1> QED
  BY <1>1, <1>2, <1>3, <1>4, <1>5 DEF Pipeline

LEMMA LoadReportDataKeeps == ASSUME Invariant, LoadReportData PROVE Pipeline'
<1>1. PipelineType'
  <2>1. Counting'
    BY Given DEF PipelineType, Progress, Counting, LoadReportData, Step, Counters
  <2>2. Flags'
    BY Given DEF PipelineType, Flags, LoadReportData, Step, reading
  <2>3. Places'
    BY Given, StepNames, AfterFacts, OrderFacts DEF PipelineType, Places, LoadReportData, Step, reading, Loaded
  <2> QED BY <2>1, <2>2, <2>3 DEF PipelineType
<1>2. Progress'
  BY Given, StepNames, AfterFacts, OrderFacts
  DEF PipelineType, Counting, Progress, LoadReportData, Step, aggregation, Loaded, Completed, Closed, Inspected, Hashed, Database, ReportData, Digests, Counters
<1>3. Manifest'
  BY Given, StepNames, AfterFacts, OrderFacts
  DEF PipelineType, Progress, Manifest, Complete, Places, LoadReportData, Step, aggregation, Loaded, Completed, Closed, Inspected, Hashed, Database, ReportData, Digests
<1>4. Names'
  BY Given, StepNames, AfterFacts, OrderFacts DEF PipelineType, Places, Names, LoadReportData, Step, File, Loaded
<1>5. Readers'
  BY Given DEF PipelineType, Progress, Manifest, Readers, LoadReportData, Step, reading, Inspected
<1> QED
  BY <1>1, <1>2, <1>3, <1>4, <1>5 DEF Pipeline

LEMMA SaveFindingsKeeps == ASSUME Invariant, SaveFindings PROVE Pipeline'
<1>1. PipelineType'
  <2>1. Counting'
    BY Given DEF PipelineType, Progress, Counting, SaveFindings, Step, Counters
  <2>2. Flags'
    BY Given DEF PipelineType, Flags, SaveFindings, Step, reading
  <2>3. Places'
    BY Given, StepNames, AfterFacts, OrderFacts DEF PipelineType, Places, SaveFindings, Step, reading, Loaded
  <2> QED BY <2>1, <2>2, <2>3 DEF PipelineType
<1>2. Progress'
  BY Given, StepNames, AfterFacts, OrderFacts
  DEF PipelineType, Counting, Progress, SaveFindings, Step, aggregation, Loaded, Completed, Closed, Inspected, Hashed, Database, ReportData, Digests, Counters
<1>3. Manifest'
  BY Given, StepNames, AfterFacts, OrderFacts
  DEF PipelineType, Progress, Manifest, Complete, Places, SaveFindings, Step, aggregation, Loaded, Completed, Closed, Inspected, Hashed, Database, ReportData, Digests
<1>4. Names'
  BY Given, StepNames, AfterFacts, OrderFacts DEF PipelineType, Places, Names, SaveFindings, Step, File, Loaded
<1>5. Readers'
  BY Given DEF PipelineType, Progress, Manifest, Readers, SaveFindings, Step, reading, Inspected
<1> QED
  BY <1>1, <1>2, <1>3, <1>4, <1>5 DEF Pipeline

LEMMA CompleteAnalysisKeeps == ASSUME Invariant, CompleteAnalysis PROVE Pipeline'
<1>1. PipelineType'
  <2>1. Counting'
    BY Given DEF PipelineType, Progress, Counting, CompleteAnalysis, Step, Counters
  <2>2. Flags'
    BY Given DEF PipelineType, Flags, CompleteAnalysis, Step, reading
  <2>3. Places'
    BY Given, StepNames, AfterFacts, OrderFacts DEF PipelineType, Places, CompleteAnalysis, Step, reading, Loaded
  <2> QED BY <2>1, <2>2, <2>3 DEF PipelineType
<1>2. Progress'
  BY Given, StepNames, AfterFacts, OrderFacts
  DEF PipelineType, Counting, Progress, CompleteAnalysis, Step, aggregation, Loaded, Completed, Closed, Inspected, Hashed, Database, ReportData, Digests, Counters
<1>3. Manifest'
  BY Given, StepNames, AfterFacts, OrderFacts
  DEF PipelineType, Progress, Manifest, Complete, Places, CompleteAnalysis, Step, aggregation, Loaded, Completed, Closed, Inspected, Hashed, Database, ReportData, Digests
<1>4. Names'
  BY Given, StepNames, AfterFacts, OrderFacts DEF PipelineType, Places, Names, CompleteAnalysis, Step, File, Loaded
<1>5. Readers'
  BY Given DEF PipelineType, Progress, Manifest, Readers, CompleteAnalysis, Step, reading, Inspected
<1> QED
  BY <1>1, <1>2, <1>3, <1>4, <1>5 DEF Pipeline

LEMMA MaintainKeeps == ASSUME Invariant, Maintain PROVE Pipeline'
<1>1. PipelineType'
  <2>1. Counting'
    BY Given DEF PipelineType, Progress, Counting, Maintain, Step, Counters
  <2>2. Flags'
    BY Given DEF PipelineType, Flags, Maintain, Step, reading
  <2>3. Places'
    BY Given, StepNames, AfterFacts, OrderFacts DEF PipelineType, Places, Maintain, Step, reading, Loaded
  <2> QED BY <2>1, <2>2, <2>3 DEF PipelineType
<1>2. Progress'
  BY Given, StepNames, AfterFacts, OrderFacts
  DEF PipelineType, Counting, Progress, Maintain, Step, aggregation, Loaded, Completed, Closed, Inspected, Hashed, Database, ReportData, Digests, Counters
<1>3. Manifest'
  BY Given, StepNames, AfterFacts, OrderFacts
  DEF PipelineType, Progress, Manifest, Complete, Places, Maintain, Step, aggregation, Loaded, Completed, Closed, Inspected, Hashed, Database, ReportData, Digests
<1>4. Names'
  BY Given, StepNames, AfterFacts, OrderFacts DEF PipelineType, Places, Names, Maintain, Step, File, Loaded
<1>5. Readers'
  BY Given DEF PipelineType, Progress, Manifest, Readers, Maintain, Step, reading, Inspected
<1> QED
  BY <1>1, <1>2, <1>3, <1>4, <1>5 DEF Pipeline

LEMMA CloseKeeps == ASSUME Invariant, Close PROVE Pipeline'
<1>1. PipelineType'
  <2>1. Counting'
    BY Given DEF PipelineType, Progress, Counting, Close, Step, Counters
  <2>2. Flags'
    BY Given DEF PipelineType, Flags, Close, Step, reading
  <2>3. Places'
    BY Given, StepNames, AfterFacts, OrderFacts DEF PipelineType, Places, Close, Step, reading, Loaded
  <2> QED BY <2>1, <2>2, <2>3 DEF PipelineType
<1>2. Progress'
  BY Given, StepNames, AfterFacts, OrderFacts
  DEF PipelineType, Counting, Progress, Close, Step, aggregation, Loaded, Completed, Closed, Inspected, Hashed, Database, ReportData, Digests, Counters
<1>3. Manifest'
  BY Given, StepNames, AfterFacts, OrderFacts
  DEF PipelineType, Progress, Manifest, Complete, Places, Close, Step, aggregation, Loaded, Completed, Closed, Inspected, Hashed, Database, ReportData, Digests
<1>4. Names'
  BY Given, StepNames, AfterFacts, OrderFacts DEF PipelineType, Places, Names, Close, Step, File, Loaded
<1>5. Readers'
  BY Given DEF PipelineType, Progress, Manifest, Readers, Close, Step, reading, Inspected
<1> QED
  BY <1>1, <1>2, <1>3, <1>4, <1>5 DEF Pipeline

LEMMA InspectArtifactsKeeps == ASSUME Invariant, InspectArtifacts PROVE Pipeline'
<1>1. PipelineType'
  <2>1. Counting'
    BY Given DEF PipelineType, Progress, Counting, InspectArtifacts, Step, Counters
  <2>2. Flags'
    BY Given DEF PipelineType, Flags, InspectArtifacts, Step, reading
  <2>3. Places'
    BY Given, StepNames, AfterFacts, OrderFacts DEF PipelineType, Places, InspectArtifacts, Step, reading, Loaded
  <2> QED BY <2>1, <2>2, <2>3 DEF PipelineType
<1>2. Progress'
  BY Given, StepNames, AfterFacts, OrderFacts
  DEF PipelineType, Counting, Progress, InspectArtifacts, Step, aggregation, Loaded, Completed, Closed, Inspected, Hashed, Database, ReportData, Digests, Counters
<1>3. Manifest'
  BY Given, StepNames, AfterFacts, OrderFacts
  DEF PipelineType, Progress, Manifest, Complete, Places, InspectArtifacts, Step, aggregation, Loaded, Completed, Closed, Inspected, Hashed, Database, ReportData, Digests
<1>4. Names'
  BY Given, StepNames, AfterFacts, OrderFacts DEF PipelineType, Places, Names, InspectArtifacts, Step, File, Loaded
<1>5. Readers'
  BY Given DEF PipelineType, Progress, Manifest, Readers, InspectArtifacts, Step, reading, Inspected
<1> QED
  BY <1>1, <1>2, <1>3, <1>4, <1>5 DEF Pipeline

LEMMA CrashKeeps == ASSUME Invariant, Crash PROVE Pipeline'
<1>1. PipelineType'
  <2>1. Counting'
    BY Given DEF PipelineType, Progress, Counting, Crash, Working, Counters
  <2>2. Flags'
    BY Given DEF PipelineType, Flags, Crash, Working, reading
  <2>3. Places'
    BY Given, StepNames, AfterFacts, OrderFacts DEF PipelineType, Places, Crash, Working, reading, Loaded
  <2> QED BY <2>1, <2>2, <2>3 DEF PipelineType
<1>2. Progress'
  BY Given, StepNames, AfterFacts, OrderFacts
  DEF PipelineType, Counting, Progress, Crash, Working, aggregation, Loaded, Completed, Closed, Inspected, Hashed, Database, ReportData, Digests, Counters
<1>3. Manifest'
  BY Given, StepNames, AfterFacts, OrderFacts
  DEF PipelineType, Progress, Manifest, Complete, Places, Crash, Working, aggregation, Loaded, Completed, Closed, Inspected, Hashed, Database, ReportData, Digests
<1>4. Names'
  BY Given, StepNames, AfterFacts, OrderFacts DEF PipelineType, Places, Names, Crash, Working, File, Loaded
<1>5. Readers'
  BY Given DEF PipelineType, Progress, Manifest, Readers, Crash, Working, reading, Inspected
<1> QED
  BY <1>1, <1>2, <1>3, <1>4, <1>5 DEF Pipeline

LEMMA FinishAggregatesKeeps == ASSUME Invariant, FinishAggregates PROVE Pipeline'
<1>0. pc = "finish" /\ pc' = "load" /\ memory' = NoRows /\ taken' = taken
  <2>1. Finish /\ AggregationInv /\ pc = "finish" /\ pc' = After("finish")
    BY DEF FinishAggregates, Invariant, Step
  <2>2. memory' = NoRows
    BY <2>1, FinishKeeps
  <2> QED BY <2>1, <2>2, AfterFacts DEF Finish
<1>1. PipelineType'
  <2>1. Counting'
    BY Given DEF PipelineType, Counting, FinishAggregates
  <2>2. Flags'
    BY Given DEF PipelineType, Flags, FinishAggregates, reading
  <2>3. Places'
    BY <1>0, Given, StepNames DEF PipelineType, Places, FinishAggregates, reading
  <2> QED BY <2>1, <2>2, <2>3 DEF PipelineType
<1>2. Progress'
  BY <1>0, Given, StepNames
  DEF Progress, FinishAggregates, Loaded, Completed, Closed, Inspected
<1>3. Manifest' /\ Names'
  BY <1>0, Given DEF Manifest, PipelineType, Places, Names, FinishAggregates, Inspected, File
<1>4. Readers'
  BY <1>0, Given DEF PipelineType, Manifest, Readers, FinishAggregates, reading, Inspected
<1> QED
  BY <1>1, <1>2, <1>3, <1>4 DEF Pipeline

LEMMA WriteTemporaryKeeps == ASSUME Invariant, NEW file \in File, WriteTemporary(file) PROVE Pipeline'
<1>1. PipelineType'
  <2>1. Counting'
    BY Given DEF PipelineType, Counting, WriteTemporary
  <2>2. Flags'
    BY Given DEF PipelineType, Flags, WriteTemporary, reading
  <2>3. Places'
    BY Given, StepNames, AfterFacts DEF PipelineType, Places, WriteTemporary, reading, Loaded, File
  <2> QED BY <2>1, <2>2, <2>3 DEF PipelineType
<1>2. Progress'
  BY Given, StepNames, AfterFacts
  DEF Progress, WriteTemporary, aggregation, Loaded, Completed, Closed, Inspected, Hashed, Database,
      ReportData, Digests, File
<1>3. Manifest'
  BY Given, StepNames, AfterFacts
  DEF Progress, Manifest, Complete, WriteTemporary, aggregation, Loaded, Completed, Closed, Inspected,
      Hashed, Database, ReportData, Digests, File
<1>4. Names'
  BY Given, AfterFacts DEF Names, WriteTemporary, File
<1>5. Readers'
  BY Given, AfterFacts DEF Manifest, Readers, WriteTemporary, reading, Inspected, File
<1> QED
  BY <1>1, <1>2, <1>3, <1>4, <1>5 DEF Pipeline

LEMMA LinkKeeps == ASSUME Invariant, NEW file \in File, Link(file) PROVE Pipeline'
<1>1. PipelineType'
  <2>1. Counting'
    BY Given DEF PipelineType, Counting, Link
  <2>2. Flags'
    BY Given DEF PipelineType, Flags, Link, reading
  <2>3. Places'
    BY Given, StepNames, AfterFacts DEF PipelineType, Places, Link, reading, Loaded, File
  <2> QED BY <2>1, <2>2, <2>3 DEF PipelineType
<1>2. Progress'
  BY Given, StepNames, AfterFacts
  DEF Progress, Link, aggregation, Loaded, Completed, Closed, Inspected, Hashed, Database,
      ReportData, Digests, File
<1>3. Manifest'
  BY Given, StepNames, AfterFacts
  DEF Progress, Manifest, Complete, Link, aggregation, Loaded, Completed, Closed, Inspected,
      Hashed, Database, ReportData, Digests, File
<1>4. Names'
  BY Given, AfterFacts DEF Names, Link, File
<1>5. Readers'
  BY Given, AfterFacts DEF Manifest, Readers, Link, reading, Inspected, File
<1> QED
  BY <1>1, <1>2, <1>3, <1>4, <1>5 DEF Pipeline

LEMMA RemoveTemporaryKeeps == ASSUME Invariant, NEW file \in File, RemoveTemporary(file) PROVE Pipeline'
<1>1. PipelineType'
  <2>1. Counting'
    BY Given DEF PipelineType, Counting, RemoveTemporary
  <2>2. Flags'
    BY Given DEF PipelineType, Flags, RemoveTemporary, reading
  <2>3. Places'
    BY Given, StepNames, AfterFacts DEF PipelineType, Places, RemoveTemporary, Step, reading, Loaded, File
  <2> QED BY <2>1, <2>2, <2>3 DEF PipelineType
<1>2. Progress'
  BY Given, StepNames, AfterFacts
  DEF Progress, RemoveTemporary, Step, aggregation, Loaded, Completed, Closed, Inspected, Hashed, Database,
      ReportData, Digests, File
<1>3. Manifest'
  BY Given, StepNames, AfterFacts
  DEF Progress, Manifest, Complete, RemoveTemporary, Step, aggregation, Loaded, Completed, Closed, Inspected,
      Hashed, Database, ReportData, Digests, File
<1>4. Names'
  BY Given, AfterFacts DEF Names, RemoveTemporary, Step, File
<1>5. Readers'
  BY Given, AfterFacts DEF Manifest, Readers, RemoveTemporary, Step, reading, Inspected, File
<1> QED
  BY <1>1, <1>2, <1>3, <1>4, <1>5 DEF Pipeline

LEMMA FailKeeps == ASSUME Invariant, Fail PROVE Pipeline'
<1>1. PipelineType'
  <2>1. Counting'
    BY Given DEF PipelineType, Counting, Fail
  <2>2. Flags'
    BY Given DEF PipelineType, Flags, Fail, reading
  <2>3. Places'
    BY Given DEF PipelineType, Places, Fail, reading
  <2> QED BY <2>1, <2>2, <2>3 DEF PipelineType
<1>2. "manifest.json" \notin entries
  BY Given DEF Manifest, Fail, Working, Inspected
<1>3. Progress'
  BY Given, StepNames
  DEF Progress, Fail, aggregation, Loaded, Completed, Closed, Inspected
<1>4. Manifest' /\ Names' /\ Readers'
  BY <1>2, Given DEF Manifest, Names, Readers, Fail, reading
<1> QED
  BY <1>1, <1>3, <1>4 DEF Pipeline

(* A reader changes nothing but itself. *)
LEMMA ReadersKeep ==
  ASSUME Invariant, UNCHANGED <<aggregation, publication>>, Readers',
         reader' \in {"idle", "residue", "hash", "verify", "side files", "opened", "refused"},
         residue' \subseteq File, late' \in BOOLEAN
  PROVE  Pipeline'
<1>1. PipelineType'
  BY Given DEF PipelineType, Counting, Flags, Places, publication
<1>2. Progress' /\ Manifest' /\ Names'
  BY Given
  DEF Progress, Manifest, Names, Complete, aggregation, publication, Hashed, Database, ReportData, Digests
<1> QED
  BY <1>1, <1>2 DEF Pipeline

LEMMA OpenWorkspaceKeeps == ASSUME Invariant, OpenWorkspace PROVE Pipeline'
<1>0. /\ PipelineType /\ Manifest /\ Names /\ Readers
      /\ UNCHANGED <<aggregation, publication>>
  BY Given DEF OpenWorkspace, List, LookAtResidue, VerifyHashes, VerifyCompleted, NoSideFiles,
               CloseWorkspace
<1>1. residue \subseteq File /\ temporary \subseteq File /\ late \in BOOLEAN /\ sideFiles \in BOOLEAN
  BY <1>0 DEF PipelineType, Places, Flags
<1>2. /\ late = TRUE => pc = "done" /\ residue \subseteq temporary
      /\ pc = "done" => temporary \subseteq entries /\ Complete /\ Hashed
      /\ pc' = pc /\ entries' = entries /\ temporary' = temporary
  BY <1>0 DEF Names, Readers, publication, Manifest, PipelineType, Places, File
<1>3. CASE List
  <2>1. Readers'
    BY <1>0, <1>1, <1>2, <1>3 DEF List, Readable, Readers, Hashed
  <2>2. late' \in BOOLEAN
    BY <1>3 DEF List
  <2> QED BY <1>0, <1>1, <1>3, <2>1, <2>2, ReadersKeep DEF List
<1>4. CASE LookAtResidue
  <2>1. Readers'
    BY <1>0, <1>1, <1>2, <1>4 DEF LookAtResidue, Recognized, Readers
  <2> QED BY <1>0, <1>1, <1>4, <2>1, ReadersKeep DEF LookAtResidue
<1>5. CASE VerifyHashes \/ VerifyCompleted \/ NoSideFiles
  <2>1. Readers'
    BY <1>0, <1>1, <1>2, <1>5
    DEF VerifyHashes, VerifyCompleted, NoSideFiles, Readers, Hashed, Complete
  <2> QED BY <1>0, <1>1, <1>5, <2>1, ReadersKeep DEF VerifyHashes, VerifyCompleted, NoSideFiles
<1>6. CASE CloseWorkspace
  <2>1. Readers'
    BY <1>0, <1>6 DEF CloseWorkspace, Readers
  <2> QED BY <1>0, <1>6, <2>1, ReadersKeep DEF CloseWorkspace
<1> QED
  BY <1>3, <1>4, <1>5, <1>6 DEF OpenWorkspace

LEMMA AggregationKept == ASSUME Invariant, [Next]_vars PROVE AggregationInv'
<1>1. AggregationInv
  BY DEF Invariant
<1>2. ASSUME NEW event \in Event, Accept(event) PROVE AggregationInv'
  BY <1>1, <1>2, AddKeeps DEF Accept
<1>3. CASE FinishAggregates
  BY <1>1, <1>3, FinishKeeps DEF FinishAggregates
<1>4. CASE UNCHANGED aggregation
  BY <1>1, <1>4, UnchangedKeeps
<1>5. \/ \E event \in Event : Accept(event)
      \/ FinishAggregates
      \/ UNCHANGED aggregation
  BY DEF Next, Analyze, OpenWorkspace, Open, CreateAnalysis, Reject, Skip, CompleteSource,
         LoadReportData, SaveFindings, CompleteAnalysis, Maintain, Close, InspectArtifacts,
         WriteTemporary, Link, RemoveTemporary, Fail, Crash, List, LookAtResidue, VerifyHashes,
         VerifyCompleted, NoSideFiles, CloseWorkspace, vars
<1> QED
  BY <1>2, <1>3, <1>4, <1>5

LEMMA PipelineKept == ASSUME Invariant, [Next]_vars PROVE Pipeline'
<1>1. CASE UNCHANGED vars
  <2>1. /\ UNCHANGED <<aggregation, publication>>
        /\ reader' = reader /\ residue' = residue /\ late' = late
    BY <1>1 DEF vars, reading
  <2>2. /\ PipelineType /\ Readers /\ pc' = pc /\ entries' = entries /\ temporary' = temporary
    BY <2>1, Given DEF publication
  <2>3. Readers'
    BY <2>1, <2>2 DEF Readers
  <2> QED BY <2>1, <2>2, <2>3, ReadersKeep DEF PipelineType, Places, Flags
<1>2. CASE Analyze
  BY <1>2, OpenKeeps, CreateAnalysisKeeps, AcceptKeeps, RejectKeeps, SkipKeeps,
     CompleteSourceKeeps, FinishAggregatesKeeps, LoadReportDataKeeps, SaveFindingsKeeps,
     CompleteAnalysisKeeps, MaintainKeeps, CloseKeeps, InspectArtifactsKeeps,
     WriteTemporaryKeeps, LinkKeeps, RemoveTemporaryKeeps
  DEF Analyze
<1> QED
  BY <1>1, <1>2, FailKeeps, CrashKeeps, OpenWorkspaceKeeps DEF Next

-----------------------------------------------------------------------------
(* The counters of the sources *)

FieldSum(s, kind) == Sum([i \in 1 .. Len(s) |-> s[i][kind]], 1 .. Len(s))

(* What SourcesAddUp adds up is a sum of the library. *)
LEMMA FieldSumIs ==
  ASSUME NEW s \in Seq(Counters), NEW kind
  PROVE  MapThenSumSet(LAMBDA i : s[i][kind], DOMAIN s) = FieldSum(s, kind)
<1> DEFINE S == 1 .. Len(s)
           f == [i \in S |-> s[i][kind]]
           Ours(g) == g = [T \in SUBSET S |->
                             IF T = {} THEN 0 ELSE s[Pick(T)][kind] + g[T \ {Pick(T)}]]
<1>1. DOMAIN s = S /\ IsFiniteSet(S)
  <2>1. Len(s) \in Nat
    OBVIOUS
  <2> QED
    BY <2>1, FS_Interval
<1>2. ASSUME NEW g PROVE Ours(g) <=> Adds(g, f, S)
  <2>1. \A T \in SUBSET S : T # {} => Pick(T) \in S /\ f[Pick(T)] = s[Pick(T)][kind]
    BY DEF Pick
  <2>2. [T \in SUBSET S |->
           IF T = {} THEN 0 ELSE s[Pick(T)][kind] + g[T \ {Pick(T)}]]
        = [T \in SUBSET S |-> IF T = {} THEN 0 ELSE f[Pick(T)] + g[T \ {Pick(T)}]]
    <3> HIDE DEF f, S
    <3> QED BY <2>1
  <2> QED
    BY <2>2 DEF Adds
<1> DEFINE g == CHOOSE g : Ours(g)
<1>3. Adds(g, f, S)
  <2>1. \E h : Ours(h)
    <3> HIDE DEF Ours, f, S
    <3> QED BY <1>1, <1>2, AddsExists
  <2>2. Ours(g)
    <3> HIDE DEF Ours
    <3> QED BY <2>1
  <2> HIDE DEF Ours, g
  <2> QED
    BY <1>2, <2>2
<1>4. MapThenSumSet(LAMBDA i : s[i][kind], S) = g[S]
  BY DEF MapThenSumSet, MapThenFoldSet, Pick
<1>5. Sum(f, S) = g[S]
  <2> HIDE DEF f, S, g
  <2>1. PICK h : Adds(h, f, S) /\ Sum(f, S) = h[S]
    BY <1>1, SumIsAdded
  <2>2. \A T \in SUBSET S : h[T] = g[T]
    <3>1. \A x \in S : f[x] = f[x]
      OBVIOUS
    <3> QED
      BY <1>1, <1>3, <2>1, <3>1, AddsSame
  <2> QED
    BY <2>1, <2>2
<1>6. MapThenSumSet(LAMBDA i : s[i][kind], DOMAIN s) = g[S]
  BY <1>1, <1>4
<1> QED
  BY <1>5, <1>6 DEF FieldSum

(* One more source adds its counters. *)
LEMMA FieldSumAppend ==
  ASSUME NEW s \in Seq(Counters), NEW c \in Counters,
         NEW kind \in {"accepted", "rejected", "skipped"}
  PROVE  /\ FieldSum(s, kind) \in Nat
         /\ FieldSum(Append(s, c), kind) = FieldSum(s, kind) + c[kind]
<1> DEFINE n == Len(s)
           t == Append(s, c)
           f == [i \in 1 .. n |-> s[i][kind]]
           h == [i \in 1 .. n + 1 |-> t[i][kind]]
<1>1. /\ n \in Nat /\ t \in Seq(Counters) /\ Len(t) = n + 1
      /\ \A i \in 1 .. n : t[i] = s[i] /\ s[i] \in Counters
      /\ t[n + 1] = c
  OBVIOUS
<1>2. \A d \in Counters : d[kind] \in Nat
  BY DEF Counters
<1>3. /\ \A i \in 1 .. n : f[i] \in Nat /\ h[i] = f[i]
      /\ \A i \in 1 .. n + 1 : h[i] \in Nat
      /\ h[n + 1] = c[kind]
  <2>1. \A i \in 1 .. n + 1 : i \in 1 .. n \/ i = n + 1
    BY <1>1
  <2>2. \A i \in 1 .. n : i \in 1 .. n + 1
    BY <1>1
  <2>3. n + 1 \in 1 .. n + 1
    BY <1>1
  <2> HIDE DEF t, n
  <2> QED
    BY <1>1, <1>2, <2>1, <2>2, <2>3
<1>4. IsFiniteSet(1 .. n) /\ IsFiniteSet(1 .. n + 1)
  BY <1>1, FS_Interval
<1>5. FieldSum(s, kind) = Sum(f, 1 .. n) /\ FieldSum(t, kind) = Sum(h, 1 .. n + 1)
  BY <1>1 DEF FieldSum
<1>6. n + 1 \in 1 .. n + 1 /\ (1 .. n + 1) \ {n + 1} = 1 .. n
  BY <1>1
<1> HIDE DEF f, h, t, n
<1>7. Sum(f, 1 .. n) \in Nat
  BY <1>3, <1>4, SumFacts
<1>8. Sum(h, 1 .. n + 1) = h[n + 1] + Sum(h, (1 .. n + 1) \ {n + 1})
  <2> DEFINE S == 1 .. n + 1
  <2>1. IsFiniteSet(S) /\ n + 1 \in S /\ \A i \in S : h[i] \in Nat
    BY <1>3, <1>4, <1>6
  <2> HIDE DEF S
  <2>2. Sum(h, S) = h[n + 1] + Sum(h, S \ {n + 1})
    BY <2>1, SumFacts
  <2> QED
    BY <2>2 DEF S
<1>9. Sum(h, (1 .. n + 1) \ {n + 1}) = Sum(h, 1 .. n)
  BY <1>6, Zenon
<1>10. Sum(h, 1 .. n) = Sum(f, 1 .. n)
  BY <1>3, <1>4, SumSame
<1>11. c[kind] \in Nat
  BY <1>2
<1>12. FieldSum(t, kind) = FieldSum(s, kind) + c[kind]
  BY <1>3, <1>5, <1>7, <1>8, <1>9, <1>10, <1>11
<1> QED
  BY <1>5, <1>7, <1>12 DEF t

(* Every line was counted once, in its source or in the current one, and    *)
(* none is left to count once the last source is completed.                 *)
Added ==
  /\ \A kind \in {"accepted", "rejected", "skipped"} :
       total[kind] = lines[kind] + FieldSum(sourceFiles, kind)
  /\ pc \in Steps \/ "manifest.json" \in entries => lines = Zero

(* At the start nothing was counted. *)
LEMMA AddedStarts == ASSUME Init PROVE Added
<1>1. /\ lines = Zero /\ total = Zero /\ sourceFiles = << >>
      /\ << >> \in Seq(Counters)
  BY DEF Init
<1>2. Zero \in Counters /\ \A kind \in {"accepted", "rejected", "skipped"} : Zero[kind] = 0
  BY DEF Zero, Counters
<1>3. ASSUME NEW kind \in {"accepted", "rejected", "skipped"}
      PROVE  FieldSum(<< >>, kind) = 0
  <2>1. 1 .. Len(<< >>) = {}
    OBVIOUS
  <2>2. FieldSum(<< >>, kind) = Sum([i \in {} |-> << >>[i][kind]], {})
    BY <2>1, Zenon DEF FieldSum
  <2> QED
    BY <2>2, SumFacts, FS_EmptySet
<1> QED
  BY <1>1, <1>2, <1>3 DEF Added

(* A line is counted twice, in its source and in the analysis. *)
LEMMA LineAdds ==
  ASSUME Invariant, Added, NEW kind \in {"accepted", "rejected", "skipped"}, Line(kind)
  PROVE  Added'
<1>1. /\ lines \in Counters /\ total \in Counters /\ sourceFiles \in Seq(Counters)
      /\ pc = "lines" /\ "manifest.json" \notin entries
  BY Given DEF PipelineType, Counting, Manifest, Line, Inspected
<1>2. ASSUME NEW c \in Counters, NEW other \in {"accepted", "rejected", "skipped"}
      PROVE  /\ c[other] \in Nat
             /\ [c EXCEPT ![kind] = @ + 1][other] = c[other] + (IF other = kind THEN 1 ELSE 0)
  BY DEF Counters
<1>3. /\ lines' = [lines EXCEPT ![kind] = @ + 1] /\ total' = [total EXCEPT ![kind] = @ + 1]
      /\ sourceFiles' = sourceFiles /\ pc' = pc /\ entries' = entries
  BY DEF Line
<1>4. ASSUME NEW other \in {"accepted", "rejected", "skipped"}
      PROVE  total'[other] = lines'[other] + FieldSum(sourceFiles, other)
  <2>1. total[other] = lines[other] + FieldSum(sourceFiles, other)
    BY DEF Added
  <2>2. FieldSum(sourceFiles, other) \in Nat
    BY <1>1, FieldSumAppend
  <2>3. /\ total'[other] = total[other] + (IF other = kind THEN 1 ELSE 0)
        /\ lines'[other] = lines[other] + (IF other = kind THEN 1 ELSE 0)
        /\ lines[other] \in Nat
    BY <1>1, <1>2, <1>3
  <2> QED
    BY <2>1, <2>2, <2>3
<1>5. pc' \notin Steps /\ "manifest.json" \notin entries'
  BY <1>1, <1>3, StepNames DEF Loaded
<1> QED
  BY <1>3, <1>4, <1>5 DEF Added

(* A source that is completed takes its counters along. *)
LEMMA CompleteSourceAdds == ASSUME Invariant, Added, CompleteSource PROVE Added'
<1>1. lines \in Counters /\ sourceFiles \in Seq(Counters)
  BY Given DEF PipelineType, Counting
<1>2. /\ sourceFiles' = Append(sourceFiles, lines) /\ lines' = Zero
      /\ total' = total
  BY DEF CompleteSource, SourcesAfter
<1>3. ASSUME NEW kind \in {"accepted", "rejected", "skipped"}
      PROVE  total[kind] = Zero[kind] + FieldSum(Append(sourceFiles, lines), kind)
  <2>1. total[kind] = lines[kind] + FieldSum(sourceFiles, kind)
    BY DEF Added
  <2>2. /\ FieldSum(sourceFiles, kind) \in Nat
        /\ FieldSum(Append(sourceFiles, lines), kind) =
             FieldSum(sourceFiles, kind) + lines[kind]
    BY <1>1, FieldSumAppend
  <2>3. Zero[kind] = 0 /\ lines[kind] \in Nat
    BY <1>1 DEF Zero, Counters
  <2> QED
    BY <2>1, <2>2, <2>3
<1> QED
  BY <1>2, <1>3 DEF Added

(* Every other step leaves the counters alone, and comes to the steps after *)
(* the last line, or publishes, when they are zero only.                    *)
LEMMA AddedKept == ASSUME Invariant, Added, [Next]_vars PROVE Added'
<1>1. CASE /\ UNCHANGED <<lines, total, sourceFiles>>
           /\ pc' \in Steps => pc \in Steps
           /\ "manifest.json" \in entries' => pc \in Steps \/ "manifest.json" \in entries
  BY <1>1 DEF Added
<1>2. CASE (\E event \in Event : Accept(event)) \/ Reject \/ Skip
  BY <1>2, LineAdds DEF Accept, Reject, Skip
<1>3. CASE CompleteSource
  BY <1>3, CompleteSourceAdds
<1>4. CASE Open \/ CreateAnalysis
  BY <1>1, <1>4, StepNames DEF Open, CreateAnalysis, Loaded
<1>5. CASE FinishAggregates \/ LoadReportData \/ SaveFindings \/ CompleteAnalysis
           \/ Maintain \/ Close \/ InspectArtifacts
  <2>1. pc \in Steps
    BY <1>5, StepNames
    DEF FinishAggregates, LoadReportData, SaveFindings, CompleteAnalysis, Maintain,
        Close, InspectArtifacts, Step, Loaded
  <2>2. UNCHANGED <<lines, total, sourceFiles, entries>>
    BY <1>5
    DEF FinishAggregates, LoadReportData, SaveFindings, CompleteAnalysis, Maintain,
        Close, InspectArtifacts
  <2> QED
    BY <1>1, <2>1, <2>2
<1>6. ASSUME NEW file \in File, WriteTemporary(file) \/ Link(file) \/ RemoveTemporary(file)
      PROVE  Added'
  <2>1. pc \in Steps
    BY <1>6, StepNames DEF WriteTemporary, Link, RemoveTemporary, Step, Loaded, File
  <2>2. UNCHANGED <<lines, total, sourceFiles>>
    BY <1>6 DEF WriteTemporary, Link, RemoveTemporary
  <2> QED
    BY <1>1, <2>1, <2>2
<1>7. CASE Fail \/ Crash
  BY <1>1, <1>7, StepNames DEF Fail, Crash, Loaded
<1>8. CASE OpenWorkspace \/ UNCHANGED vars
  <2>1. UNCHANGED <<lines, total, sourceFiles, pc, entries>>
    BY <1>8 DEF OpenWorkspace, List, LookAtResidue, VerifyHashes, VerifyCompleted,
                NoSideFiles, CloseWorkspace, vars, publication
  <2> QED
    BY <1>1, <2>1
<1> QED
  BY <1>2, <1>3, <1>4, <1>5, <1>6, <1>7, <1>8 DEF Next, Analyze

(* The counters of a workspace that is published add up. *)
LEMMA PublishedAddsUp ==
  ASSUME Invariant, Added, "manifest.json" \in entries
  PROVE  SourcesAddUp
<1>1. /\ total \in Counters /\ sourceFiles \in Seq(Counters) /\ lines = Zero
  BY Given DEF PipelineType, Counting, Added
<1>2. DOMAIN total = {"accepted", "rejected", "skipped"}
  BY <1>1 DEF Counters
<1>3. ASSUME NEW kind \in {"accepted", "rejected", "skipped"}
      PROVE  total[kind] = MapThenSumSet(LAMBDA i : sourceFiles[i][kind], DOMAIN sourceFiles)
  <2>1. total[kind] = Zero[kind] + FieldSum(sourceFiles, kind)
    BY <1>1 DEF Added
  <2>2. Zero[kind] = 0
    BY DEF Zero
  <2>3. FieldSum(sourceFiles, kind) \in Nat
    BY <1>1, FieldSumAppend
  <2>4. MapThenSumSet(LAMBDA i : sourceFiles[i][kind], DOMAIN sourceFiles) =
          FieldSum(sourceFiles, kind)
    BY <1>1, FieldSumIs
  <2>5. total[kind] = FieldSum(sourceFiles, kind)
    BY <2>1, <2>2, <2>3
  <2> QED
    BY <2>4, <2>5
<1> QED
  BY <1>2, <1>3, Zenon DEF SourcesAddUp

-----------------------------------------------------------------------------
(* The theorems *)

(* The invariant of the analysis: what Aggregation keeps about every event, *)
(* what each step of Analyze leaves for the next, what is so once the       *)
(* manifest has its name, and what a reader may rely on.                    *)
THEOREM InvariantAlways == Spec => []Invariant
<1>1. Init => Invariant
  BY Starts
<1>2. Invariant /\ [Next]_vars => Invariant'
  BY AggregationKept, PipelineKept DEF Invariant
<1> QED
  BY <1>1, <1>2, PTL DEF Spec

(* Every variable has its type, the limits of routes, clients, sketches and *)
(* tolerated lines among them.                                              *)
THEOREM AnalysisTypeCorrect == Spec => []AnalysisTypeOK
<1>1. Invariant => AnalysisTypeOK
  BY TypeParts DEF Invariant, AggregationInv, Pipeline
<1> QED
  BY <1>1, InvariantAlways, PTL

(* Every event is counted exactly once, in memory or in the database, also  *)
(* when a row is merged with what was stored of it (Add, flushLocked).      *)
THEOREM TablesExactAlways == Spec => []TablesExact
<1>1. Invariant => TablesExact
  BY DEF Invariant, AggregationInv
<1> QED
  BY <1>1, InvariantAlways, PTL

(* No row shows a part of the traffic of a route or of a client.            *)
THEOREM AllOrNothingAlways == Spec => []AllOrNothing
<1>1. Invariant => AllOrNothing
  BY SettledDecides DEF Invariant, AggregationInv
<1> QED
  BY <1>1, InvariantAlways, PTL

(* What a rate profile lets through conforms to it (bucket.allow).          *)
THEOREM RateConformsAlways == Spec => []RateConforms
<1>1. Invariant => RateConforms
  BY DEF Invariant, AggregationInv
<1> QED
  BY <1>1, InvariantAlways, PTL

(* The manifest is published last, and only of a complete analysis whose    *)
(* database and reports are the ones that it has the hashes of; nothing     *)
(* changes them after that.  So a workspace that opens is complete.         *)
THEOREM OpenedIsPublished == Spec => [](reader = "opened" => Complete /\ Hashed)
<1>1. Invariant => (reader = "opened" => Complete /\ Hashed)
  BY DEF Invariant, Pipeline, Readers, Manifest
<1> QED
  BY <1>1, InvariantAlways, PTL

(* The counters of the analysis are those of its sources, line by line,     *)
(* when a workspace is published, and they stay so; a workspace that a      *)
(* reader has opened is that of an analysis that took all its sources and   *)
(* published all of it, whatever failed or died.                            *)
THEOREM OpenedIsCompleteAlways == Spec => []OpenedIsComplete
<1>1. Init => Invariant /\ Added
  BY Starts, AddedStarts
<1>2. Invariant /\ Added /\ [Next]_vars => Invariant' /\ Added'
  BY AggregationKept, PipelineKept, AddedKept DEF Invariant
<1>3. Invariant /\ Added => OpenedIsComplete
  BY PublishedAddsUp DEF OpenedIsComplete, Invariant, Pipeline, Readers, Manifest
<1> QED
  BY <1>1, <1>2, <1>3, PTL DEF Spec

(* A reader that begins after the analysis has succeeded is never refused,  *)
(* whatever temporary names were left behind.                               *)
THEOREM PublishedOpensAlways == Spec => []PublishedOpens
<1>1. Invariant => PublishedOpens
  BY DEF Invariant, Pipeline, Readers, PublishedOpens
<1> QED
  BY <1>1, InvariantAlways, PTL
=============================================================================
